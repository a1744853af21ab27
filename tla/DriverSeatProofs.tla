-------------------------- MODULE DriverSeatProofs --------------------------
(***************************************************************************)
(* Proofs about DriverSeat, for any number of users, requests and images,  *)
(* any window, and any throttle and delay that stay within it.             *)
(***************************************************************************)
EXTENDS DriverSeat, TLAPS

\* What is noted of a user lies between the last request and what the
\* throttle and the delay can hide.
Noted ==
  \A u \in Users : quiet[u] <= age[u] /\ age[u] <= quiet[u] + Throttle + Latency

\* A request that need not note anything, or has done so, knows how old the
\* last poll of its user is at most.
Known(q) ==
  q.pc \in {"bump", "take"} /\ q.seen <= Throttle => age[q.user] <= Throttle + q.since

Staged(q) ==
  /\ q.pc = "take" => q.seen <= Throttle
  /\ q.pc = "release" => q.kind = "release"

InFlight == \A r \in DOMAIN req : Known(req[r]) /\ Staged(req[r])

IInv == TypeOK /\ Noted /\ InFlight

LEMMA SmallAges ==
  /\ 0 \in Ages /\ Old \in Ages /\ Ages \subseteq Nat
  /\ \A a \in Ages : Older(a) \in Ages /\ a <= Older(a) /\ Older(a) <= a + 1
  /\ \A a \in 0 .. Latency : a \in Ages /\ a <= Window
BY TimesAssumption DEF Ages, Old, Older

\* A seat that counts as free has an absent driver or none.
LEMMA ActiveMeansPresent ==
  ASSUME TypeOK, NEW u \in Users, seat.driver = u, ActiveDriver # u
  PROVE  age[u] > Window
<1>1. u # None
  BY NoneAssumption
<1>2. age[u] \in Nat
  BY SmallAges DEF TypeOK
<1> QED
  BY <1>1, <1>2, TimesAssumption DEF ActiveDriver

LEMMA NotedMeansPresent ==
  ASSUME IInv, NEW u \in Users
  PROVE  quiet[u] + Throttle + Latency <= Window => age[u] <= Window
<1>1. /\ age[u] \in Nat /\ quiet[u] \in Nat
      /\ age[u] <= quiet[u] + Throttle + Latency
  BY SmallAges DEF IInv, TypeOK, Noted
<1> QED
  BY <1>1, TimesAssumption

LEMMA InitIInv == Init => IInv
<1> SUFFICES ASSUME Init PROVE IInv
  OBVIOUS
<1>1. TypeOK
  <2>0. \A i \in Images : NewPage(i) \in Page
    BY DEF NewPage, Page
  <2>1. page \in [Users -> Page]
    BY <2>0 DEF Init
  <2>2. age \in [Users -> Ages] /\ quiet \in [Users -> Ages]
    BY SmallAges DEF Init
  <2>3. DOMAIN req = {} /\ archived \subseteq Images
        /\ seat \in [driver: Users \cup {None}, image: Images \cup {None}]
    BY DEF Init
  <2> QED
    BY <2>1, <2>2, <2>3 DEF TypeOK
<1>2. Noted
  <2>1. \A u \in Users : age[u] = Old /\ quiet[u] = Old
    BY DEF Init
  <2> QED
    BY <2>1, TimesAssumption DEF Noted, Old
<1>3. InFlight
  BY DEF Init, InFlight
<1> QED
  BY <1>1, <1>2, <1>3 DEF IInv

\* What the pages and the seat do leaves the times alone; it remains to look
\* at the requests.
LEMMA SameTimes ==
  ASSUME IInv, UNCHANGED <<age, quiet>>,
         seat' \in [driver: Users \cup {None}, image: Images \cup {None}],
         archived' \subseteq Images,
         page' \in [Users -> Page],
         DOMAIN req' \subseteq Requests,
         \A r \in DOMAIN req' : req'[r] \in Request /\ Known(req'[r]) /\ Staged(req'[r])
  PROVE  IInv'
<1>1. TypeOK'
  BY DEF IInv, TypeOK
<1>2. Noted'
  BY DEF IInv, Noted
<1>3. InFlight'
  BY DEF InFlight, Known, Staged
<1> QED
  BY <1>1, <1>2, <1>3 DEF IInv

LEMMA SendKeeps ==
  ASSUME IInv, NEW r, NEW u \in Users, NEW kind \in Kinds, Send(r, u, kind),
         UNCHANGED <<age, seat, archived, quiet>>, page' \in [Users -> Page]
  PROVE  IInv'
<1> DEFINE new == [pc |-> "bump", kind |-> kind, user |-> u, image |-> page[u].image,
                   since |-> 0, seen |-> age[u], live |-> TRUE, driver |-> None, at |-> None]
<1>1. age[u] \in Ages /\ age[u] \in Nat /\ page[u].image \in Images
  BY SmallAges DEF IInv, TypeOK, Page
<1>2. new \in Request
  BY <1>1, TimesAssumption DEF Request
<1>3. Known(new) /\ Staged(new)
  BY <1>1, TimesAssumption DEF Known, Staged
<1>4. DOMAIN req' = DOMAIN req \cup {r} /\ r \in Requests
      /\ \A q \in DOMAIN req' : req'[q] = IF q = r THEN new ELSE req[q]
  BY DEF Send
<1>5. DOMAIN req' \subseteq Requests
  BY <1>4 DEF IInv, TypeOK
<1>6. ASSUME NEW q \in DOMAIN req'
      PROVE  req'[q] \in Request /\ Known(req'[q]) /\ Staged(req'[q])
  <2>1. CASE q = r
    BY <2>1, <1>2, <1>3, <1>4
  <2>2. CASE q # r
    BY <2>2, <1>4 DEF IInv, TypeOK, InFlight
  <2> QED
    BY <2>1, <2>2
<1> HIDE DEF new
<1> QED
  BY <1>5, <1>6, SameTimes DEF IInv, TypeOK

\* Requests that end, without a word about the others.
LEMMA EndKeeps ==
  ASSUME IInv, UNCHANGED <<age, quiet>>,
         seat' \in [driver: Users \cup {None}, image: Images \cup {None}],
         archived' \subseteq Images,
         page' \in [Users -> Page],
         DOMAIN req' \subseteq DOMAIN req,
         \A q \in DOMAIN req' : req'[q] \in {req[q], [req[q] EXCEPT !.live = FALSE]}
  PROVE  IInv'
<1>1. ASSUME NEW q \in DOMAIN req'
      PROVE  req'[q] \in Request /\ Known(req'[q]) /\ Staged(req'[q])
  <2>1. req[q] \in Request /\ Known(req[q]) /\ Staged(req[q])
    BY DEF IInv, TypeOK, InFlight
  <2>2. CASE req'[q] = req[q]
    BY <2>1, <2>2
  <2>3. CASE req'[q] = [req[q] EXCEPT !.live = FALSE]
    BY <2>1, <2>3 DEF Request, Known, Staged
  <2> QED
    BY <2>2, <2>3
<1>2. DOMAIN req' \subseteq Requests
  BY DEF IInv, TypeOK
<1> QED
  BY <1>1, <1>2, SameTimes

LEMMA RendersPage ==
  ASSUME NEW u \in Users, NEW q, page \in [Users -> Page]
  PROVE  Render(u, q) \in Page
BY DEF Render, Page

LEMMA LoadsPage ==
  ASSUME NEW i \in Images
  PROVE  Loaded(i) \in Page
BY DEF Loaded, NewPage, Page

LEMMA PageStays ==
  ASSUME NEW u \in Users, NEW p \in Page, page \in [Users -> Page]
  PROVE  [page EXCEPT ![u] = p] \in [Users -> Page]
OBVIOUS

LEMMA DroppedEnds ==
  ASSUME NEW u, req' = Dropped(u)
  PROVE  /\ DOMAIN req' \subseteq DOMAIN req
         /\ \A q \in DOMAIN req' : req'[q] \in {req[q], [req[q] EXCEPT !.live = FALSE]}
BY DEF Dropped

LEMMA BumpKeeps ==
  ASSUME IInv, NEW r, Bump(r)
  PROVE  IInv'
<1> DEFINE q == req[r]
<1>1. r \in DOMAIN req /\ q \in Request /\ Known(q) /\ Staged(q) /\ q.pc = "bump"
  BY DEF Bump, At, IInv, TypeOK, InFlight
<1>2. /\ q.user \in Users /\ q.since \in 0 .. Latency /\ q.since \in Nat
      /\ q.seen \in Nat /\ q.since \in Ages
  BY <1>1, SmallAges DEF Request
<1>3. /\ age' = IF q.seen <= Throttle THEN age ELSE [age EXCEPT ![q.user] = q.since]
      /\ quiet' = [quiet EXCEPT ![q.user] = 0]
  BY DEF Bump
<1>4. /\ age \in [Users -> Ages] /\ quiet \in [Users -> Ages]
      /\ \A u \in Users : age[u] \in Nat /\ quiet[u] \in Nat
  BY SmallAges DEF IInv, TypeOK
<1>5. age' \in [Users -> Ages] /\ quiet' \in [Users -> Ages]
  BY <1>2, <1>3, <1>4, SmallAges
\* Now the user of the request is noted.
<1>6. age'[q.user] <= Throttle + q.since /\ age'[q.user] \in Nat
  BY <1>1, <1>2, <1>3, <1>4, TimesAssumption DEF Known
<1>7. \A u \in Users : age'[u] = age[u] \/ (u = q.user /\ age'[u] = q.since)
  BY <1>2, <1>3, <1>4
<1>8. Noted'
  <2>1. ASSUME NEW u \in Users
        PROVE  quiet'[u] <= age'[u] /\ age'[u] <= quiet'[u] + Throttle + Latency
    <3>1. CASE u = q.user
      BY <3>1, <1>2, <1>3, <1>4, <1>6, TimesAssumption
    <3>2. CASE u # q.user
      BY <3>2, <1>3, <1>4, <1>7 DEF IInv, Noted
    <3> QED
      BY <3>1, <3>2
  <2> QED
    BY <2>1 DEF Noted
<1>9. DOMAIN req' \subseteq DOMAIN req
      /\ \A p \in DOMAIN req' : p # r => req'[p] = req[p]
  BY <1>1 DEF Bump, Proceed, Done
<1>10. r \in DOMAIN req' =>
         req'[r] \in {[q EXCEPT !.seen = 0, !.pc = c] : c \in {"snapshot", "release", "take"}}
         /\ (req'[r].pc = "release" => q.kind = "release")
  BY <1>1 DEF Bump, Proceed, Done, Request
<1>11. ASSUME NEW p \in DOMAIN req'
       PROVE  req'[p] \in Request /\ Known(req[p])' /\ Staged(req'[p])
  <2>1. CASE p = r
    <3>1. PICK c \in {"snapshot", "release", "take"} : req'[r] = [q EXCEPT !.seen = 0, !.pc = c]
      BY <2>1, <1>10
    <3>2. /\ req'[r] \in Request /\ req'[r].seen = 0 /\ req'[r].pc = c
          /\ req'[r].kind = q.kind /\ req'[r].user = q.user /\ req'[r].since = q.since
      BY <3>1, <1>1, SmallAges DEF Request
    <3>3. Known(req[p])'
      BY <2>1, <3>2, <1>6 DEF Known
    <3>4. Staged(req'[p])
      BY <2>1, <3>2, <1>10, TimesAssumption DEF Staged
    <3>5. req'[p] \in Request
      BY <2>1, <3>2
    <3> QED
      BY <3>3, <3>4, <3>5
  <2>2. CASE p # r
    <3>1. req'[p] = req[p] /\ req[p] \in Request /\ Known(req[p]) /\ Staged(req[p])
      BY <2>2, <1>9 DEF IInv, TypeOK, InFlight
    <3>2. req[p].user \in Users /\ req[p].since \in Nat
      BY <3>1 DEF Request
    <3>3. age[req[p].user] <= Throttle + req[p].since =>
            age'[req[p].user] <= Throttle + req[p].since
      BY <3>2, <1>2, <1>4, <1>7, TimesAssumption
    <3>4. Known(req[p])'
      BY <3>1, <3>3 DEF Known
    <3> QED
      BY <3>1, <3>4
  <2> QED
    BY <2>1, <2>2
<1>12. InFlight'
  BY <1>11 DEF InFlight, Staged
<1>13. TypeOK'
  BY <1>5, <1>9, <1>11 DEF IInv, TypeOK, Bump
<1> QED
  BY <1>8, <1>12, <1>13 DEF IInv

\* A request goes on to its answer.
LEMMA StageKeeps ==
  ASSUME IInv, NEW r \in DOMAIN req, req' = [req EXCEPT ![r].pc = "snapshot"],
         UNCHANGED <<age, quiet, archived, page>>,
         seat' \in [driver: Users \cup {None}, image: Images \cup {None}]
  PROVE  IInv'
<1>1. /\ DOMAIN req' = DOMAIN req
      /\ \A q \in DOMAIN req : req'[q] = IF q = r THEN [req[r] EXCEPT !.pc = "snapshot"] ELSE req[q]
  OBVIOUS
<1>2. ASSUME NEW q \in DOMAIN req'
      PROVE  req'[q] \in Request /\ Known(req'[q]) /\ Staged(req'[q])
  <2>1. req[q] \in Request /\ Known(req[q]) /\ Staged(req[q])
    BY <1>1 DEF IInv, TypeOK, InFlight
  <2>2. CASE q = r
    BY <1>1, <2>1, <2>2 DEF Request, Known, Staged
  <2>3. CASE q # r
    BY <1>1, <2>1, <2>3
  <2> QED
    BY <2>2, <2>3
<1> QED
  BY <1>1, <1>2, SameTimes DEF IInv, TypeOK

LEMMA TakeKeeps ==
  ASSUME IInv, NEW r, Take(r)
  PROVE  IInv'
<1>1. /\ r \in DOMAIN req /\ req[r] \in Request /\ req[r].user \in Users /\ req[r].image \in Images
      /\ seat \in [driver: Users \cup {None}, image: Images \cup {None}]
      /\ archived \subseteq Images /\ page \in [Users -> Page]
  BY DEF Take, At, IInv, TypeOK, Request
<1>2. seat' \in [driver: Users \cup {None}, image: Images \cup {None}]
  BY <1>1 DEF Take
<1>3. CASE Done(r)
  <2>1. DOMAIN req' \subseteq DOMAIN req /\ \A q \in DOMAIN req' : req'[q] = req[q]
    BY <1>3 DEF Done
  <2> QED
    BY <1>1, <1>2, <2>1, EndKeeps DEF Take
<1>4. CASE req' = [req EXCEPT ![r].pc = "snapshot"]
  BY <1>1, <1>2, <1>4, StageKeeps DEF Take
<1> QED
  BY <1>3, <1>4 DEF Take

LEMMA ReleaseKeeps ==
  ASSUME IInv, NEW r, ReleaseSeat(r)
  PROVE  IInv'
<1>1. /\ r \in DOMAIN req
      /\ seat \in [driver: Users \cup {None}, image: Images \cup {None}]
      /\ archived \subseteq Images /\ page \in [Users -> Page]
  BY DEF ReleaseSeat, At, IInv, TypeOK
<1>2. seat' \in [driver: Users \cup {None}, image: Images \cup {None}]
  BY <1>1 DEF ReleaseSeat
<1> QED
  BY <1>1, <1>2, StageKeeps DEF ReleaseSeat

LEMMA SnapshotKeeps ==
  ASSUME IInv, NEW r, Snapshot(r)
  PROVE  IInv'
<1>1. /\ r \in DOMAIN req /\ DOMAIN req \subseteq Requests
      /\ \A q \in DOMAIN req : req[q] \in Request /\ Known(req[q]) /\ Staged(req[q])
      /\ seat \in [driver: Users \cup {None}, image: Images \cup {None}]
      /\ archived \subseteq Images /\ page \in [Users -> Page]
  BY DEF Snapshot, At, IInv, TypeOK, InFlight
<1>2. CASE Done(r)
  <2>1. DOMAIN req' \subseteq DOMAIN req /\ \A q \in DOMAIN req' : req'[q] = req[q]
    BY <1>2 DEF Done
  <2> QED
    BY <1>1, <2>1, EndKeeps DEF Snapshot
<1>3. CASE req[r].live /\ ~Done(r)
  <2> DEFINE position == IF ActiveDriver = None THEN None ELSE seat.image
  <2>1. ActiveDriver \in Users \cup {None} /\ position \in Images \cup {None}
    BY <1>1 DEF ActiveDriver
  <2>2. DOMAIN req' = DOMAIN req
        /\ \A q \in DOMAIN req : req'[q] =
             IF q = r THEN [req[r] EXCEPT !.pc = "answer", !.since = 0,
                                          !.driver = ActiveDriver, !.at = position]
             ELSE req[q]
    BY <1>1, <1>3 DEF Snapshot
  <2> HIDE DEF position
  <2> 0 \in 0 .. Latency
    BY TimesAssumption
  <2>3. ASSUME NEW q \in DOMAIN req'
        PROVE  req'[q] \in Request /\ Known(req'[q]) /\ Staged(req'[q])
    <3>1. CASE q = r
      <4>1. req'[q] = [req[r] EXCEPT !.pc = "answer", !.since = 0,
                                     !.driver = ActiveDriver, !.at = position]
        BY <2>2, <3>1
      <4>2. req[r] \in Request
        BY <1>1
      <4>3. req'[q] \in Request /\ req'[q].pc = "answer"
        BY <4>1, <4>2, <2>1 DEF Request
      <4> QED
        BY <4>3 DEF Known, Staged
    <3>2. CASE q # r
      BY <1>1, <2>2, <3>2
    <3> QED
      BY <3>1, <3>2
  <2> QED
    BY <1>1, <2>2, <2>3, SameTimes DEF Snapshot
<1> QED
  BY <1>2, <1>3 DEF Snapshot

LEMMA TickKeeps ==
  ASSUME IInv, Tick
  PROVE  IInv'
<1>1. /\ age' = [u \in Users |-> Older(age[u])]
      /\ quiet' = [u \in Users |-> Older(quiet[u])]
      /\ DOMAIN req' = DOMAIN req
      /\ \A r \in DOMAIN req : req'[r] =
           IF req[r].pc = "answer" THEN req[r] ELSE [req[r] EXCEPT !.since = @ + 1]
  BY DEF Tick
<1>2. \A u \in Users : /\ age[u] \in Ages /\ quiet[u] \in Ages
                       /\ quiet[u] <= age[u] /\ age[u] <= quiet[u] + Throttle + Latency
  BY DEF IInv, TypeOK, Noted
<1>3. \A u \in Users : /\ age'[u] \in Ages /\ age'[u] <= age[u] + 1
                       /\ age[u] \in Nat /\ age'[u] \in Nat
  BY <1>1, <1>2, SmallAges
<1>4. age' \in [Users -> Ages] /\ quiet' \in [Users -> Ages]
  BY <1>1, <1>2, SmallAges
<1>5. Noted'
  <2>1. ASSUME NEW u \in Users
        PROVE  quiet'[u] <= age'[u] /\ age'[u] <= quiet'[u] + Throttle + Latency
    BY <1>1, <1>2, TimesAssumption DEF Older, Ages, Old
  <2> QED
    BY <2>1 DEF Noted
<1>6. ASSUME NEW r \in DOMAIN req
      PROVE  req'[r] \in Request /\ Known(req[r])' /\ Staged(req[r])'
  <2>1. req[r] \in Request /\ Known(req[r]) /\ Staged(req[r])
    BY DEF IInv, TypeOK, InFlight
  <2>2. CASE req[r].pc = "answer"
    BY <1>1, <2>1, <2>2 DEF Known, Staged
  <2>3. CASE req[r].pc # "answer"
    <3>1. req[r].since < Latency /\ req[r].since \in 0 .. Latency /\ req[r].user \in Users
      BY <2>1, <2>3 DEF Tick, Request
    <3>2. req'[r] = [req[r] EXCEPT !.since = @ + 1]
      BY <1>1, <2>3
    <3>3. req[r].since + 1 \in 0 .. Latency
      BY <3>1, TimesAssumption
    <3>4. /\ req'[r] \in Request /\ req'[r].pc = req[r].pc /\ req'[r].seen = req[r].seen
          /\ req'[r].user = req[r].user /\ req'[r].kind = req[r].kind
          /\ req'[r].since = req[r].since + 1
      BY <2>1, <3>2, <3>3 DEF Request
    <3>5. Known(req[r])'
      BY <2>1, <3>1, <3>4, <1>3, TimesAssumption DEF Known
    <3>6. Staged(req[r])'
      BY <2>1, <3>4 DEF Staged
    <3> QED
      BY <3>4, <3>5, <3>6
  <2> QED
    BY <2>2, <2>3
<1>7. InFlight'
  BY <1>1, <1>6 DEF InFlight
<1>8. TypeOK'
  BY <1>1, <1>4, <1>6 DEF IInv, TypeOK, Tick
<1> QED
  BY <1>5, <1>7, <1>8 DEF IInv

\* What users do, and answers, only change pages and send or end requests.
LEMMA PagesKeep ==
  ASSUME IInv
  PROVE  /\ \A u \in Users : Poll(u) \/ Claim(u) \/ Release(u) \/ Sync(u) => IInv'
         /\ \A u \in Users : Hide(u) \/ Show(u) => IInv'
         /\ \A u \in Users, i \in Images : Navigate(u, i) => IInv'
         /\ \A r \in Requests : Deliver(r) => IInv'
         /\ \A i \in Images : Archive(i) => IInv'
<1>1. /\ page \in [Users -> Page] /\ archived \subseteq Images
      /\ seat \in [driver: Users \cup {None}, image: Images \cup {None}]
      /\ \A r \in DOMAIN req : req[r] \in Request
  BY DEF IInv, TypeOK
<1>2. ASSUME NEW u \in Users, Poll(u) \/ Claim(u) \/ Release(u) \/ Sync(u)
      PROVE  IInv'
  <2>0. [page[u] EXCEPT !.behind = FALSE] \in Page
    BY <1>1 DEF Page
  <2>1. page' \in [Users -> Page]
    BY <1>1, <1>2, <2>0 DEF Poll, Claim, Release, Sync
  <2>2. PICK r \in Requests, kind \in Kinds : Send(r, u, kind)
    BY <1>2 DEF Poll, Claim, Release, Sync, Kinds
  <2>3. UNCHANGED <<age, seat, archived, quiet>>
    BY <1>2 DEF Poll, Claim, Release, Sync
  <2> QED
    BY <2>1, <2>2, <2>3, SendKeeps
<1>3. ASSUME NEW u \in Users, Hide(u) \/ Show(u)
      PROVE  IInv'
  <2>0. [page[u] EXCEPT !.away = FALSE] \in Page /\ [page[u] EXCEPT !.away = TRUE] \in Page
    BY <1>1 DEF Page
  <2>1. page' \in [Users -> Page]
    BY <1>1, <1>3, <2>0 DEF Hide, Show
  <2>2. UNCHANGED <<age, seat, archived, req, quiet>>
    BY <1>3 DEF Hide, Show
  <2> QED
    BY <1>1, <2>1, <2>2, EndKeeps
<1>4. ASSUME NEW u \in Users, NEW i \in Images, Navigate(u, i)
      PROVE  IInv'
  <2>1. page' \in [Users -> Page]
    BY <1>1, <1>4, LoadsPage, PageStays DEF Navigate
  <2>2. UNCHANGED <<age, seat, archived, quiet>> /\ req' = Dropped(u)
    BY <1>4 DEF Navigate
  <2> QED
    BY <1>1, <2>1, <2>2, EndKeeps, DroppedEnds
<1>5. ASSUME NEW r \in Requests, Deliver(r)
      PROVE  IInv'
  <2>1. r \in DOMAIN req /\ UNCHANGED <<age, seat, archived, quiet>>
    BY <1>5 DEF Deliver, Follow, Stay, Synced, At
  <2>2. req[r].user \in Users /\ req[r].at \in Images \cup {None}
    BY <1>1, <2>1 DEF Request
  <2>3. CASE Follow(r)
    <3>1. req[r].at \in Images
      BY <2>2, <2>3 DEF Follow, Elsewhere
    <3> QED
      BY <1>1, <2>1, <2>2, <2>3, <3>1, LoadsPage, PageStays, EndKeeps, DroppedEnds DEF Follow
  <2>4. CASE Stay(r)
    <3>1. page' \in [Users -> Page]
      BY <1>1, <2>2, <2>4, RendersPage, PageStays DEF Stay
    <3> QED
      BY <1>1, <2>1, <2>4, <3>1, EndKeeps DEF Stay, Done
  <2>5. CASE Synced(r)
    BY <1>1, <2>1, <2>5, EndKeeps DEF Synced, Done
  <2> QED
    BY <1>5, <2>3, <2>4, <2>5 DEF Deliver
<1>6. ASSUME NEW i \in Images, Archive(i)
      PROVE  IInv'
  BY <1>1, <1>6, EndKeeps DEF Archive
<1> QED
  BY <1>2, <1>3, <1>4, <1>5, <1>6

LEMMA NextIInv ==
  ASSUME IInv, [Next]_vars
  PROVE  IInv'
<1>1. CASE UNCHANGED vars
  BY <1>1, EndKeeps DEF vars, IInv, TypeOK
<1>2. ASSUME NEW r \in Requests, Serve(r)
      PROVE  IInv'
  BY <1>2, BumpKeeps, TakeKeeps, ReleaseKeeps, SnapshotKeeps DEF Serve
<1> QED
  BY <1>1, <1>2, PagesKeep, TickKeeps DEF Next

\* Every reachable state satisfies the inductive invariant.
THEOREM InvariantCorrect == Spec => []IInv
BY InitIInv, NextIInv, PTL DEF Spec

\* Type correctness of the seat, the pages and the requests.
THEOREM TypeCorrect == Spec => []TypeOK
<1>1. IInv => TypeOK
  BY DEF IInv
<1> QED
  BY <1>1, InvariantCorrect, PTL

\* Whoever polls counts as present, in spite of the throttle and of requests
\* that overtake each other (_bump_last_poll).
THEOREM PresenceCorrect == Spec => []PresenceIsNoted
<1>1. IInv => PresenceIsNoted
  BY NotedMeansPresent DEF PresenceIsNoted
<1> QED
  BY <1>1, InvariantCorrect, PTL

\* An absent driver does not keep the seat (active_driver).
THEOREM ExpiryCorrect == Spec => []SeatExpires
<1>1. ASSUME IInv, ActiveDriver # None
      PROVE  quiet[ActiveDriver] <= Window
  <2>1. ActiveDriver = seat.driver /\ age[seat.driver] <= Window /\ seat.driver \in Users
    BY <1>1 DEF ActiveDriver, IInv, TypeOK
  <2>2. /\ quiet[seat.driver] <= age[seat.driver]
        /\ quiet[seat.driver] \in Nat /\ age[seat.driver] \in Nat
    BY <1>1, <2>1, SmallAges DEF IInv, TypeOK, Noted
  <2> QED
    BY <2>1, <2>2, TimesAssumption
<1>2. IInv => SeatExpires
  BY <1>1 DEF SeatExpires
<1> QED
  BY <1>2, InvariantCorrect, PTL

\* The seat only changes in two places.
LEMMA SeatSteps ==
  ASSUME Next, seat' # seat
  PROVE  \E r \in Requests : Take(r) \/ ReleaseSeat(r)
<1>1. ASSUME NEW u \in Users,
             \/ Poll(u) \/ Claim(u) \/ Release(u) \/ Sync(u) \/ Hide(u) \/ Show(u)
             \/ \E i \in Images : Navigate(u, i)
      PROVE  FALSE
  BY <1>1 DEF Poll, Claim, Release, Sync, Hide, Show, Navigate
<1>2. ASSUME NEW r \in Requests, Bump(r) \/ Snapshot(r) \/ Deliver(r)
      PROVE  FALSE
  BY <1>2 DEF Bump, Snapshot, Deliver, Follow, Stay, Synced
<1>3. ~Tick /\ \A i \in Images : ~Archive(i)
  BY DEF Tick, Archive
<1> QED
  BY <1>1, <1>2, <1>3 DEF Next, Serve

LEMMA TakeFacts ==
  ASSUME IInv, NEW r \in Requests, Take(r), seat' # seat
  PROVE  /\ r \in DOMAIN req /\ req[r].user \in Users /\ req[r].user # None
         /\ seat'.driver = req[r].user /\ ActiveDriver \in {None, req[r].user}
         /\ age' = age /\ age[req[r].user] <= Window
<1>1. /\ r \in DOMAIN req /\ req[r] \in Request /\ req[r].pc = "take"
      /\ Known(req[r]) /\ Staged(req[r])
  BY DEF Take, At, IInv, TypeOK, InFlight
<1>2. req[r].user \in Users /\ req[r].since \in 0 .. Latency /\ age[req[r].user] \in Nat
  BY <1>1, SmallAges DEF Request, IInv, TypeOK
<1>3. age[req[r].user] <= Window
  BY <1>1, <1>2, TimesAssumption DEF Known, Staged
<1> QED
  BY <1>1, <1>2, <1>3, NoneAssumption DEF Take

LEMMA ReleaseFacts ==
  ASSUME IInv, NEW r \in Requests, ReleaseSeat(r), seat' # seat
  PROVE  /\ r \in DOMAIN req /\ req[r].kind = "release" /\ req[r].user = seat.driver
         /\ seat'.driver = None
BY DEF ReleaseSeat, At, IInv, TypeOK, InFlight, Staged

\* Nobody takes the seat from a driver who polls (the transaction of
\* driver_state).
THEOREM TakenCorrect == Spec => SeatTakenFromAbsent
<1> DEFINE A == \A u \in Users :
       seat.driver = u /\ seat'.driver \notin {u, None} => quiet[u] + Throttle + Latency > Window
<1>1. ASSUME IInv, Next, NEW u \in Users, seat.driver = u, seat'.driver \notin {u, None}
      PROVE  quiet[u] + Throttle + Latency > Window
  <2>1. PICK r \in Requests : Take(r) \/ ReleaseSeat(r)
    BY <1>1, SeatSteps
  <2>2. Take(r)
    BY <1>1, <2>1, ReleaseFacts
  <2>3. ActiveDriver # u
    BY <1>1, <2>2, TakeFacts, NoneAssumption
  <2>4. age[u] > Window
    BY <1>1, <2>3, ActiveMeansPresent DEF IInv
  <2>5. age[u] \in Nat /\ quiet[u] \in Nat
    BY <1>1, SmallAges DEF IInv, TypeOK
  <2> QED
    BY <1>1, <2>4, <2>5, NotedMeansPresent, TimesAssumption
<1>2. IInv /\ [Next]_vars => [A]_vars
  BY <1>1
<1> QED
  BY <1>2, InvariantCorrect, PTL DEF Spec, SeatTakenFromAbsent

\* A seat becomes free by the request of its driver only
\* (_release_driver_seat).
THEOREM ReleaseCorrect == Spec => OnlyDriverReleases
<1> DEFINE A == seat.driver # None /\ seat'.driver = None =>
       \E r \in DOMAIN req : req[r].kind = "release" /\ req[r].user = seat.driver
<1>1. ASSUME IInv, Next, seat.driver # None, seat'.driver = None
      PROVE  \E r \in DOMAIN req : req[r].kind = "release" /\ req[r].user = seat.driver
  <2>1. PICK r \in Requests : Take(r) \/ ReleaseSeat(r)
    BY <1>1, SeatSteps
  <2>2. ReleaseSeat(r)
    BY <1>1, <2>1, TakeFacts
  <2> QED
    BY <1>1, <2>2, ReleaseFacts
<1>2. IInv /\ [Next]_vars => [A]_vars
  BY <1>1
<1> QED
  BY <1>2, InvariantCorrect, PTL DEF Spec, OnlyDriverReleases

\* A driver who has just got the seat is present, although his request was
\* noted earlier, or was not worth noting.
THEOREM FirstPresentCorrect == Spec => DriverIsPresentAtFirst
<1> DEFINE A == seat'.driver # seat.driver /\ seat'.driver # None => ActiveDriver' = seat'.driver
<1>1. ASSUME IInv, Next, seat'.driver # seat.driver, seat'.driver # None
      PROVE  ActiveDriver' = seat'.driver
  <2>1. PICK r \in Requests : Take(r) \/ ReleaseSeat(r)
    BY <1>1, SeatSteps
  <2>2. Take(r)
    BY <1>1, <2>1, ReleaseFacts
  <2>3. seat'.driver = req[r].user /\ age' = age /\ age[req[r].user] <= Window
    BY <1>1, <2>2, TakeFacts
  <2> QED
    BY <1>1, <2>3 DEF ActiveDriver
<1>2. IInv /\ [Next]_vars => [A]_vars
  BY <1>1
<1> QED
  BY <1>2, InvariantCorrect, PTL DEF Spec, DriverIsPresentAtFirst

=============================================================================

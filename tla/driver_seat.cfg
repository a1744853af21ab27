\* Two users on the same image: who has the seat, and for how long.
SPECIFICATION Spec
CONSTANTS
  Users = {u1, u2}
  Requests = {r1, r2}
  Images = {i1}
  Followers = {}
  Window = 3
  Throttle = 1
  Latency = 1
  Events = {"time", "release", "hide", "archive"}
  None = None
INVARIANTS TypeOK PresenceIsNoted SeatExpires
PROPERTIES SeatTakenFromAbsent OnlyDriverReleases DriverIsPresentAtFirst
CHECK_DEADLOCK FALSE
SYMMETRY SeatSymmetry

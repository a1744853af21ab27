\* Two users and two images: u2 follows whoever drives. No time passes.
SPECIFICATION Spec
CONSTANTS
  Users = {u1, u2}
  Requests = {r1, r2}
  Images = {i1, i2}
  Followers = {u2}
  Window = 3
  Throttle = 1
  Latency = 1
  Events = {"type"}
  None = None

PROPERTIES FollowersArrive
CHECK_DEADLOCK FALSE

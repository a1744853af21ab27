\* One photo edited twice, with every fault.
SPECIFICATION Spec
CONSTANTS
  Files = {f1}
  Versions = {0, 1, 2}
  Sessions = {s1, s2}
  Requests = {r1, r2}
  Attempts = 2
  Broken = Broken
  None = None
  Faults = {"truncated", "error", "crash"}
  Reverts = FALSE
SYMMETRY EditSymmetry
INVARIANTS TypeOK PhotoKept
CHECK_DEADLOCK FALSE

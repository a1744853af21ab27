\* Two files, two sessions of the same album and two requests at a time.
SPECIFICATION Spec
CONSTANTS
  Files = {f1, f2}
  Versions = {0, 1}
  Sessions = {s1, s2}
  Requests = {r1, r2}
  Attempts = 1
  Broken = Broken
  None = None
  Faults = {"error", "crash"}
  Reverts = FALSE
SYMMETRY EditSymmetry
INVARIANTS PhotoKept OpenSessionUnfinished
CHECK_DEADLOCK FALSE

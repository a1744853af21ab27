\* An upload into a box while it is archived.
SPECIFICATION Spec
CONSTANTS
  Images = {1, 2}
  InitImages = {1}
  Texts = {"t1"}
  Undated = "undated"
  Todos = {"none"}
  Coords = {"c1"}
  NoCoords = "nocoords"
  NoAsset = NoAsset
  NoSig = "nosig"
  Absent = Absent
  Requests = {r1, r2}
  Views = {"finalize", "archive", "upload"}
  Faults = {}
  QueueBound = 1
SYMMETRY RequestSymmetry
INVARIANT OriginalSurvives
CHECK_DEADLOCK FALSE

\* Two requests race each other and the worker. No process is killed.
SPECIFICATION Spec
CONSTANTS
  Images = {1, 2}
  InitImages = {1, 2}
  Texts = {"t1"}
  Undated = "undated"
  Todos = {"none"}
  Coords = {"c1"}
  NoCoords = "nocoords"
  NoAsset = NoAsset
  NoSig = "nosig"
  Absent = Absent
  Requests = {r1, r2}
  Views = {"finalize", "retry", "archive"}
  Faults = {"taskError"}
  QueueBound = 1

INVARIANTS UploadRunning OriginalSurvives CurrentIsStored
PROPERTY JobRefinement
CHECK_DEADLOCK FALSE

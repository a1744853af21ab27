\* Every view, every fault, two images of which one arrives later. The
\* system may stop: users need not act.
SPECIFICATION Spec
CONSTANTS
  Images = {1, 2}
  InitImages = {1}
  Texts = {"t1"}
  Undated = "undated"
  Todos = {"none", "edit"}
  Coords = {"c1"}
  NoCoords = "nocoords"
  NoAsset = NoAsset
  NoSig = "nosig"
  Absent = Absent
  Requests = {r1}
  Views = {"finalize", "retry", "archive", "boxEdit", "upload"}
  Faults = {"webCrash", "workerCrash", "taskError", "assetLost"}
  QueueBound = 1

INVARIANTS TypeOK SignatureDescribesAsset UploadedMeansPushed
CHECK_DEADLOCK FALSE

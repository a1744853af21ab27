\* The upload page and the plain form, answers lost or not read, workers killed.
SPECIFICATION Spec
CONSTANTS
  Ids = {a, b}
  Boxes = {1}
  Workers = {w1, w2}
  MaxCopy = 1
  Events = {"page", "import", "archive", "lose", "kill", "signout"}
  None = None
  same = same
  other = other
  Files <- MCFiles
INVARIANTS TypeOK DoneIsStored UploadedOnce
SYMMETRY LibrarySymmetry
CHECK_DEADLOCK FALSE

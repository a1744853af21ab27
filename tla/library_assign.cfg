\* Assignments that overlap each other, imports and deletions.
SPECIFICATION Spec
CONSTANTS
  Ids = {a, b, c}
  Boxes = {1, 2}
  Workers = {w1, w2}
  MaxCopy = 1
  Events = {"import", "assign", "archive", "delete", "kill"}
  None = None
  same = same
  other = other
  Files <- MCOther
INVARIANTS RowsHaveFiles NumbersFit
SYMMETRY LibrarySymmetry
CHECK_DEADLOCK FALSE

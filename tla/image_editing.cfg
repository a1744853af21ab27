\* Two tabs with two saves on their way, and two writers without a form. The
\* system stops at MaxVersion, as users do.
SPECIFICATION Spec
CONSTANTS
  Fields = {"date", "place"}
  Todos = {"place"}
  Values = {"blank", "a"}
  Blank = "blank"
  Tabs = {t1, t2}
  Writers = {"batch", "worker"}
  MaxVersion = 3
  MaxMessages = 2
INVARIANTS TypeOK VersionNamesData
PROPERTY OwnEditsUntilReverted
CHECK_DEADLOCK FALSE
CONSTRAINTS NotReverted NothingTypedInVain
SYMMETRY TabSymmetry

\* Everybody but the worker: what one tab gets to see in the end, with two
\* requests on their way, its dialog, and saves that are lost or refused.
SPECIFICATION Spec
CONSTANTS
  Fields = {"place"}
  Todos = {"place"}
  Values = {"blank", "a"}
  Blank = "blank"
  Tabs = {t1}
  Writers = {"batch", "immich", "archive", "dialog", "invalid", "loss", "reload"}
  MaxVersion = 3
  MaxMessages = 2
INVARIANT LogExplainsRow
PROPERTY TabsCatchUp
CHECK_DEADLOCK FALSE

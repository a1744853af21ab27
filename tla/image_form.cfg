\* One image: twenty texts, six photos, a time of day, one place.
SPECIFICATION Spec
CONSTANTS
  Texts <- MCTexts
  Photos <- MCPhotos
  Times = {0}
  Offsets <- MCOffsets
  Places = {p1}
  None = None
INVARIANTS TypeOK PeriodIsRead UntouchedFormKeeps TimeIsKept PulledBack PeriodsTile DoneAgrees

SPECIFICATION Spec
CONSTANTS
  v1 = v1
  v2 = v2
  t1 = t1
  t2 = t2
  white = white
  Requests <- PanelCases
  MaxRequests = 5
  TaskIds = {a1, a2, a3}
  NoTask = NoTask
  Tags = {t1}
  BootTags = {t1}
  Values = {v1}
  NoValue = NoValue
  Overlong = {}
  Nil = Nil
  Gone = Gone
  Erased = Erased
  Images = {black, white}
  Black = black
  Torn = Torn
  FlushTicks = 2
  OpenWait = 4
  RefreshTime = 2
SYMMETRY TaskSymmetry
INVARIANTS
  TasksAccounted
  LostOnlyByOverlap
  RefreshCovered
  IdleIsAsleep
  DoneWasAsked
PROPERTIES
  DoneIsShown
  TornOnlyByOverlaps

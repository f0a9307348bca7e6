SPECIFICATION FairSpec
CONSTANTS
  v1 = v1
  v2 = v2
  t1 = t1
  t2 = t2
  white = black
  Requests <- EveryCase
  MaxRequests = 2
  TaskIds = {a1}
  NoTask = NoTask
  Tags = {t1, t2}
  BootTags = {t1}
  Values = {v1, v2}
  NoValue = NoValue
  Overlong = {v2}
  Nil = Nil
  Gone = Gone
  Erased = Erased
  Images = {black}
  Black = black
  Torn = Torn
  FlushTicks = 1
  OpenWait = 1
  RefreshTime = 1
INVARIANTS
  TypeOK
PROPERTIES
  RequestsSettle
  RefreshEnds
  RecordsAccounted

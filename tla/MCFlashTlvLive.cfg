SPECIFICATION FairSpec
CONSTANTS
  v1 = v1
  v2 = v2
  Tags = {t1}
  Values = {v1}
  Len <- MCLenOne
  Capacity = 4
  ByteBase = 2
  CacheMax = 1
  UseCache = FALSE
  ProgramFaults = FALSE
  Nil = Nil
  NoValue = NoValue
  Junk = Junk
  Gone = Gone
PROPERTIES
  CallsReturn

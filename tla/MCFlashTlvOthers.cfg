SPECIFICATION Spec
CONSTANTS
  v1 = v1
  v2 = v2
  Tags = {t1, t2}
  Values = {v1, v2}
  Len <- MCLen
  Capacity = 4
  ByteBase = 2
  CacheMax = 1
  UseCache = FALSE
  ProgramFaults = FALSE
  Nil = Nil
  NoValue = NoValue
  Junk = Junk
  Gone = Gone
SYMMETRY TagSymmetry
VIEW CellsInUse
PROPERTIES
  OthersUntouched

SPECIFICATION Spec
CONSTANTS
  RamWidth = 2
  Height = 3
  PanelWidth = 3
  PanelHeight = 4
  ChunkSize = 2
  Frames <- MCFrames
  Builds = {TRUE, FALSE}
INVARIANTS
  TypeOK
  PictureArrives
  IdleSleeps
PROPERTIES
  ImplementsPanelBus
  CallsEnd

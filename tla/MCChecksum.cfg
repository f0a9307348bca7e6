SPECIFICATION Spec
CONSTANTS
  Records <- MCRecords
  ChunkSize = 4
  FewFlips = 3
  Burst = 8
INVARIANTS
  CrcIsRemainder
  SoundRecordAccepted
  DamageRejected

SPECIFICATION DeviceFairSpec
CONSTANTS
  DebugMode = FALSE
  Writes <- AllRecords
  Garbage = {16, 255}
  NoRecord = NoRecord
INVARIANTS
  DeviceTypeOK
  NegotiationContinues
  FlagsAgree
  SettingsAreRecorded
  AdvertisesTheBoot
PROPERTIES
  AwakeWhileNegotiating
  SettlesToSleep
  BootsAlike

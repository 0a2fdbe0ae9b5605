SPECIFICATION GuestSpec
CONSTANTS
  MaxInterrupt = 4
  MaxContext = 2
  Levels = {0, 1, 2}
  Offsets <- MCOffsets
  BootPriority <- MCBootPriority
INVARIANTS
  Source0Reserved
  LineMeansClaim
  ScanIsClaimId
  ExclusiveService
  NoRetrigger
  SilentOnlyIfIgnored
PROPERTIES
  LevelsAreServed

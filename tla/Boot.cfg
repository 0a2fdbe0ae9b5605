SPECIFICATION Spec
CONSTANTS
  AddrMod = 40
  RomBase = 2
  RomSize = 2
  MmioBase = 6
  MmioSize = 2
  DramBase = 16
  Sizes = {1, 2, 4}
  SELFMAG = 1
  LongMax = 64
  DefaultDram = 8
  MaxDram = 16
  KernelStart = 18
  DtbSize = 2
  RingLen = 2
  MaxSteps = 4
  MaxOptions = 5
  StoreAddrs <- MCStoreAddrs
  Files <- MCFiles
  DramSizes = {0, 4, 16, 17}
  Limits = {0, 2}
INVARIANTS
  ImagesIntact
  HostInBounds
  ReleasedOnExit
  SuccessIsEarned
  DumpIsLast
CHECK_DEADLOCK FALSE

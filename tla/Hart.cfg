SPECIFICATION GuestSpec
CONSTANTS
  PcBits = {"p2"}
  LineInts = {"MTIP", "SEIP"}
  Writes <- AllWrites
  Codes <- AllCodes
  CounterMod = 1
INVARIANTS
  TlbOfCurrentSatp
  MprvOnlyInM
  FramesIntact
  HandlerMasked
PROPERTIES
  MachineIsolated
  SupervisorIsolated
  TrapsGoUp

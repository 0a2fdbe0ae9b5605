SPECIFICATION TlbSpec
CONSTANTS
  Idx = {0, 1}
  Tables <- MCTables
  TLB_SIZE = 1
  Contexts <- MCContexts
  Vas <- MCVas
  SatpValues <- MCSatps
  Slots <- MCSlots
  PteValues <- MCPtes
  InitMems <- MCInitMems
INVARIANTS
  Coherent
  LookupIsWalk
  TranslationIsSv39

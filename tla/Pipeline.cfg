\* Memories without wait states, every program of three instructions.
CONSTANTS
  W = 4
  N = 3
  RegNum = 3
  DivXlen = 2
  IWait = FALSE
  DWait = FALSE
  Strap = FALSE
  Programs <- MCPrograms
  Boot <- MCBoot
  JunkInstrs <- MCJunkInstrs
  JunkWords <- MCJunkWords
SPECIFICATION Spec
INVARIANTS DecodedIsFetched
PROPERTIES RefinesIsa KeepsExecuting

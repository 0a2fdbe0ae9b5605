\* A data memory that inserts wait states.
CONSTANTS
  W = 4
  N = 3
  RegNum = 3
  DivXlen = 2
  IWait = FALSE
  DWait = TRUE
  Strap = FALSE
  Programs <- MCPrograms
  Boot <- MCBoot
  JunkInstrs <- MCJunkInstrs
  JunkWords <- MCJunkWords
SPECIFICATION Spec
INVARIANT LoadDataReady

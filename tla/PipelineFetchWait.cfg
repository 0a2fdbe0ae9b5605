\* An instruction memory that inserts wait states.
CONSTANTS
  W = 4
  N = 3
  RegNum = 3
  DivXlen = 2
  IWait = TRUE
  DWait = FALSE
  Strap = FALSE
  Programs <- MCPrograms
  Boot <- MCBoot
  JunkInstrs <- MCJunkInstrs
  JunkWords <- MCJunkWords
SPECIFICATION Spec
INVARIANT DecodedIsFetched

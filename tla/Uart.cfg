SPECIFICATION GuestSpec
CONSTANTS
  Depth = 3
  fifo_interrupt_level <- MCTrigger
  Chars = {"a", "b", "nl"}
  NUL = "nul"
  Iers <- MCIers
  NL = "nl"
  MaxTyped = 5
  BufSizes = {1, 2, 3}
INVARIANTS
  DataRaisesLevel
  LinesAsTyped
PROPERTIES
  IsRxQueue
  LinesReturned

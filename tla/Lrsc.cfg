\* The guest of both sizes stays away from the first bytes of the address space.
SPECIFICATION GuestSpec
CONSTANTS
  VaMod = 16
  Vas = {4, 5, 6, 8, 10, 12, 14}
  OpSizes = {2, 4}
  Threads = {"a", "b", "c", "d"}
  Amo = {"d"}
  Space <- MCSpace
  Frame <- MCFrame
  CounterVa = 4
  KernelVa = 12
  Size = 4
  Rounds = 2
  MaxSwitches = 4
INVARIANTS
  ScWithinReservation
  NoLostUpdate
PROPERTIES
  ThreadsFinish
CHECK_DEADLOCK FALSE

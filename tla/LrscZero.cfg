SPECIFICATION AnySpec
CONSTANTS
  VaMod = 16
  Vas = {0, 2, 4, 8}
  OpSizes = {2, 4}
INVARIANT
  ScWithinReservation

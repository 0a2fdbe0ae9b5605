\* Words of four bits, with two-bit W forms.
CONSTANTS
  XLEN = 4
  HALF = 2
  Inputs <- MCInputs
  InstWords <- MCInstWords
  Imms <- MCImms
  Pcs = {4}
SPECIFICATION UnitsSpec
INVARIANTS
  DivResult
  MulResult
  SameInstruction
  SameImmediate
PROPERTIES
  UnitsEnd

\* The URI of lib/README.md, which every program opens unless it is told
\* another. A user may stop starting programs.
SPECIFICATION Spec
CONSTANTS
  ByteMax = 15
  Nibbles = 4
  RelaxLen = 3
  Dev = 6
  Reserved = {8, 9}
  Reg = 1
  Data = 4
  LenovoLen = 2
  MaxFaults = 1
  MaxRuns = 1
  Fixed <- MCFixed
  Devices <- MCDevices
  Names <- MCNames
  Board <- MCBoard
  Numerals <- AllNumerals
  CommandLines <- DefaultLines
INVARIANT OpenedAsAsked
CHECK_DEADLOCK FALSE

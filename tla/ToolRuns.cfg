\* Two programs one after the other, with at most one thing going wrong in
\* each. A user may stop starting programs.
SPECIFICATION FairSpec
CONSTANTS
  ByteMax = 15
  Nibbles = 4
  RelaxLen = 3
  Dev = 6
  Reserved = {8, 9}
  Reg = 1
  Data = 4
  LenovoLen = 2
  MaxFaults = 1
  MaxRuns = 2
  Fixed <- MCFixed
  Devices <- MCDevices
  Names <- MCNames
  Board <- MCBoard
  Numerals <- PlainNumerals
  CommandLines <- MCCommandLines
INVARIANTS OpenedAsAsked    NamesAreDevices
PROPERTIES ToolEnds
CHECK_DEADLOCK FALSE

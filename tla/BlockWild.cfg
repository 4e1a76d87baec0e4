\* No discipline of time or length, every fault.
SPECIFICATION FairSpec
CONSTANTS
  Chunk = 2
  TempSize = 6
  ByteMax = 7
  SeqTimeout = 1
  CountMax = 3
  WriteLens <- MCWildWrites
  ReadLens <- MCWildReads
  Fills = {1, 7}
  Faults <- MCFaults
  MaxCalls = 2
  MaxGap = 2
  MinQuiet = 0
  MaxIdle = 3
INVARIANT TypeOK
PROPERTY CallReturns

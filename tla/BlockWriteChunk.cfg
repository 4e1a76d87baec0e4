SPECIFICATION Spec
CONSTANTS
  Chunk = 2
  TempSize = 6
  ByteMax = 7
  SeqTimeout = 1
  CountMax = 9
  WriteLens = {2}
  ReadLens = {1}
  Fills = {1}
  Faults = {}
  MaxCalls = 1
  MaxGap = 1
  MinQuiet = 2
  MaxIdle = 3
INVARIANT WriteIntegrity

\* Blocks of every size the protocol carries, every fault, and an application
\* that keeps the timing.
SPECIFICATION Spec
CONSTANTS
  Chunk = 2
  TempSize = 6
  ByteMax <- MCByteMax
  SeqTimeout = 1
  CountMax = 9
  WriteLens <- MCWriteLens
  ReadLens <- MCReadLens
  Fills <- MCFills
  Faults <- MCFaults
  MaxCalls = 3
  MaxGap = 1
  MinQuiet = 2
  MaxIdle = 3
INVARIANTS WriteIntegrity ReadIntegrity NoPhantomError NothingLeft IInv
PROPERTIES TempBounds ImplementsService

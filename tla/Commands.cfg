\* All commands, all faults.
SPECIFICATION FairSpec
CONSTANTS
  Commands <- MCCommands
  Counts <- MCCounts
  Lens <- MCLens
  ByteMax = 7
INVARIANTS HealthyIsProtocol BusReleased WireDiscipline AnswerIsDevices PecCoversWire
PROPERTY HandlerReturns

\* Transactions in pieces, every fault.
SPECIFICATION FairSpec
CONSTANTS
  Chunk = 2
  Transactions <- MCTransactions
INVARIANTS HealthyIsTransaction ArbReadIntegrity ArbPecCoversWire ArbBusReleased
PROPERTIES WriteAcked ArbReturns

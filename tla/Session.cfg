\* Two processes' worth of handles, two records, three addresses.
SPECIFICATION Spec
CONSTANTS
  Records = 2
  MaxAddr = 3
  MaxHandles = 3
INVARIANTS TypeOK OpenMeansReady

\* Every tool and option, every fault. A tool ends: it may stop.
SPECIFICATION FairSpec
CONSTANTS
  Size = 3
  Images <- MCImages
  Runs <- MCRuns
  Faults <- MCFaults
  Polls = 2
INVARIANTS   HealthySucceeds 
 
CHECK_DEADLOCK FALSE

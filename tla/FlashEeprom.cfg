\* A tool ends: it may stop.
SPECIFICATION Spec
CONSTANTS
  Size = 3
  Images <- MCImages
  Runs <- MCEeprom
  Faults <- MCFaults
  Polls = 2
INVARIANT EepromVerified
CHECK_DEADLOCK FALSE

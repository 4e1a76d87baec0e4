\* Four requests of every kind, given up at every moment. The host may stop
\* asking, and then nothing happens any more.
SPECIFICATION FairSpec
CONSTANT MaxRequests = 4
INVARIANTS CleanIsExact HandledOnce
PROPERTIES CleanRequestEnds LoopAgain
CHECK_DEADLOCK FALSE

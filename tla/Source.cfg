\* Numbers 1 and 2 only, seconds of three ticks, and requests in three parts.
CONSTANTS
  Parts = 3
  SeqMod = 3
  Second = 3
  MaxSent = 3
  MaxCnt = 2
  MaxTime = 4
SPECIFICATION FairSpec
INVARIANTS TypeOK CountsExact SeqDistinct RttExact
PROPERTIES StopEnds
\* The process ends.
CHECK_DEADLOCK FALSE

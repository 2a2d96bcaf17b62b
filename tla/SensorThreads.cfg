SPECIFICATION FairSpec
CONSTANTS
  Inputs = 3
  chCnt = 2
  DEFLTSZ = 2
  HeldUp = FALSE
INVARIANTS
  TypeOK
  SemaphoreExcludes
  SemaphoreOutlivesUsers
  FailedBurstTakesAllDown
  ChannelsNotMixed
PROPERTIES
  KillEnds
  FlowIsMeasured
CHECK_DEADLOCK FALSE

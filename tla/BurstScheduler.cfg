SPECIFICATION Spec
CONSTANTS
  MAX_BURSTMSGS = 2
  TimePairs <- MCTimePairs
  ControlCodes <- MCControlCodes
  TriggerModes <- MCTriggerModes
  BurstCmds <- MCBurstCmds
  LiveRetiming = FALSE
INVARIANTS
  TypeOK
  RunningMeansOn
  SilenceBounded
  SemaphoreExcludes
  MinimumPeriodKept
CONSTRAINT Neighbours

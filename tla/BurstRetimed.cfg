SPECIFICATION Spec
CONSTANTS
  MAX_BURSTMSGS = 1
  TimePairs <- MCRetimedPairs
  ControlCodes <- MCControlCodes
  TriggerModes <- MCTriggerModes
  BurstCmds <- MCRetimedCmds
  LiveRetiming = TRUE
INVARIANT
  SilenceBounded

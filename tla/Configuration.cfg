SPECIFICATION Spec
CONSTANTS
  Items = {message}
  Texts = {blank, zero}
  FactoryText = blank
  EmptyText = zero
  PollAddrs = {5, 64}
  LoopModes = {1, 2}
  DevVars = {0, 3, 244}
  Slots = {0, 244, 250}
  UnitCodes = {80, 250}
  UnitSet <- MCUnitSet
  FactoryUnit = 75
  RangeValues = {0, 10}
  LSL = 0
  USL = 10
  minSpan = 1
  RawTimes = {9000}
  TriggerModes = {0, 1, 4, 5}
  ControlCodes = {0, 5}
  BurstCmds = {2, 9, 33, 48}
  FactoryPeriod = 8000
  FactoryMaxPer = 1920000
  MaxCnt = 3
INVARIANTS TypeOK CounterNamesConfiguration SavedIsCurrent
PROPERTIES RefusedKeeps KeepsConfiguration
CONSTRAINT LossBound

SPECIFICATION Spec
CONSTANTS
  RawTimes <- MCRawTimes
  FactoryPeriod = 160000
  FactoryMaxPer = 1920000
INVARIANTS
  SettledOnTheTable
  SettledOnTheClosest
  WarnsIffChanged
PROPERTIES
  SettledIsStable

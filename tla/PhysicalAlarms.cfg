SPECIFICATION Spec
CONSTANTS
  Readings <- MCReadings
  lowerSensorLimit <- MCLowerSensorLimit
  low_alarm <- MCLowAlarm
  high_alarm <- MCHighAlarm
  upperSensorLimit <- MCUpperSensorLimit
  Echoes <- MCEchoes
INVARIANTS
  TypeOK
  SpecificMatchesReading
  StatusMatchesReading
  MaintenanceMatchesCurrent
  MalfunctionTellsLastAlarm
  ReplyOfOneMoment
  MoreStatusTellsByteZero

SPECIFICATION Spec
CONSTANTS
  Readings <- MCReadings
  lowerSensorLimit <- MCLowerSensorLimit
  low_alarm <- MCLowAlarm
  high_alarm <- MCHighAlarm
  upperSensorLimit <- MCUpperSensorLimit
  Echoes <- MCEchoes
INVARIANT
  AlertsRolledUp

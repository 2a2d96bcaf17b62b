SPECIFICATION ItemSpec
CONSTANTS
  Byte = 2
  NaN = NaN
  Given <- MCGiven
  MaxLen = 2
  MaxCount = 2
INVARIANTS
  TypeOK
  CountNamesValue
PROPERTY BroughtWholeOrNot

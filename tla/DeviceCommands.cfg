SPECIFICATION Spec
CONSTANTS
  Requests <- MCRequests
  BurstCommands = {1, 9}
  IndexLists <- MCIndexLists
  UnitSet <- MCUnitSet
  MaxAnswered = 2
  MaxWrites = 1
INVARIANTS
  CodesAnswered
  ShowsLastAccepted
  ValueInNamedUnits

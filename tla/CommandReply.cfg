SPECIFICATION Spec
CONSTANTS
  BurstCmds = {9, 38}
  HostKinds <- MCHostKinds
  MaxChanges = 4
INVARIANTS
  TypeOK
  NoForeignCode
  ChangedBitIsPerMaster
  ToldIsKept

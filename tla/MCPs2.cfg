SPECIFICATION FairSpec
CONSTANTS
  Machines <- MCMachines
  MaxInput = 2
INVARIANTS
  RepliesMatch
  DevicesReady
PROPERTIES
  InputRead
  Ps2Finishes
CHECK_DEADLOCK FALSE

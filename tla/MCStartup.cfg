SPECIFICATION FairSpec
CONSTANT
  Machines <- MCMachines
INVARIANTS
  NoOtherFault
  ProtectionKept
  PrintsWhatFits
PROPERTY
  StartupFinishes
CHECK_DEADLOCK FALSE

SPECIFICATION FairSpec
CONSTANTS
  ISA = 16
  Firmware <- MCFirmware
INVARIANTS
  NoStrayVector
  IsaPinsRouted
  NmisAsFirmwareSays
  StopsForAReason
PROPERTY
  AcpiFinishes
CHECK_DEADLOCK FALSE

SPECIFICATION Spec
CONSTANTS
  ISA = 16
  Firmware <- MCFirmware
INVARIANT
  TooFewPinsIsTrue
CHECK_DEADLOCK FALSE

SPECIFICATION Spec
CONSTANTS
  Machines <- Late
  MaxInput = 0
INVARIANT
  SelfTestVerdict
CHECK_DEADLOCK FALSE

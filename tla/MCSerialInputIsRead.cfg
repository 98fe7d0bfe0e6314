SPECIFICATION FairSpec
CONSTANTS
  FIFO = 3
  TRIGGER = 2
  TextBytes = 2
  Input = {"CR", "other"}
  MaxInput = 4
  MaxSpurious = 1
PROPERTY
  InputIsRead
CHECK_DEADLOCK FALSE

SPECIFICATION FairSpec
CONSTANTS
  FIFO = 3
  TRIGGER = 2
  TextBytes = 2
  Input = {"CR", "other"}
  MaxInput = 4
  MaxSpurious = 1
INVARIANTS
  TypeOK
  InServiceMatches
  TransmitterKeepsUp
  NeverReadsEmpty
PROPERTIES
  EoiMatches
  InputRead
  BootFinishes
CHECK_DEADLOCK FALSE

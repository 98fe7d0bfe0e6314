SPECIFICATION Spec
CONSTANTS
  PAGE_SIZE = 2
  CHAR_BIT = 4
  STACK_SIZE = 2
  Layouts <- MCLayouts
  KallocSizes = {0, 1, 3, 4}
INVARIANTS
  TypeOK
  HeldExclusively
  Conserved
  BitmapInsideUsable
PROPERTY
  ImplementsFrameAllocator
CHECK_DEADLOCK FALSE

SPECIFICATION VmmSpec
CONSTANTS
  PAGE_SIZE = 2
  CHAR_BIT = 4
  STACK_SIZE = 2
  Layouts <- MCLayouts
  KallocSizes = {2, 3}
  ENTRIES = 2
  FRAMES = 12
  HHDM = 32
  Contents <- MCContents
  MapRequests <- MCMapRequests
  UnalignedRequests <- MCUnalignedRequests
INVARIANTS
  VmmTypeOK
  KernelGetsWhatWasAsked
  TablesFormTree
PROPERTY
  ImplementsAddressSpace
CHECK_DEADLOCK FALSE

SPECIFICATION FairBootSpec
CONSTANTS
  PAGE_SIZE = 4
  CHAR_BIT = 8
  STACK_SIZE = 4
  Layouts <- MCLayouts
  KallocSizes = {3, 4, 9}
  ENTRIES = 4
  FRAMES = 39
  HHDM = 256
  Contents <- MCContents
  MapRequests = {}
  UnalignedRequests = {}
INVARIANTS
  LiveNeverFree
  DirectMapReaches
  NoWritableAlias
  SegmentsProtected
  DevicesCachedAsAsked
PROPERTIES
  NoStaleTranslation
  BootCompletes
CHECK_DEADLOCK FALSE

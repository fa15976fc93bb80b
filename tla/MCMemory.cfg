SPECIFICATION Spec
CONSTANTS
  AddressSpace = 34
  HeaderSize = 2
  HeapBase = 4
  Descriptors <- MCDescriptors
  RequestSizes <- MCRequestSizes
  NULL = NULL
INVARIANTS TypeOK Disjoint NothingLost RingLinked LapMeetsAll Coalesced
PROPERTY ImplementsAllocator

SPECIFICATION FairSpec
CONSTANTS
  a = a
  b = b
  Writer = {a, b}
  MAX_LENGTH_OF_TRANSMISSION_QUEUE = 1
  MaxWritten = 5
INVARIANTS TypeOK WritableMeansIdle NothingLost SentInOrder
PROPERTY NobodyWaitsForever
CHECK_DEADLOCK FALSE

SPECIFICATION Spec
CONSTANTS
  a = a
  b = b
  Writer = {a}
  MAX_LENGTH_OF_TRANSMISSION_QUEUE = 2
  MaxWritten = 3
INVARIANT PrintsCharacters
CHECK_DEADLOCK FALSE

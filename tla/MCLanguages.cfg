CONSTANTS
  Budget = 3
  RareCost = 2
  Length = 5
  Slips = 1
  SlipLength = 4
SPECIFICATION MCSpec
INVARIANT SentenceRead
INVARIANT ShortPackageFlagged
INVARIANT SleepTypeFound
INVARIANT PrintsMeaning
INVARIANT AcceptsSentence
CHECK_DEADLOCK FALSE

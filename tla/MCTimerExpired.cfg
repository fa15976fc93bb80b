SPECIFICATION Spec
CONSTANTS
  a = a
  b = b
  c = c
  main_timer = main_timer
  Address = {main_timer, a, b, c}
  Delays = {0, 2}
  Intervals = {0, 2}
  MaxTick = 2
  MaxCreating = 1
  DeletesExpired = TRUE
  NULL = NULL

INVARIANT OneShotsFireOnce
SYMMETRY Symmetry
CHECK_DEADLOCK FALSE

SPECIFICATION Spec
CONSTANTS
  Pool = {t1, t2}
  main_task = main
  idle_task = idle
  MaxProhibition = 1
  ElapsedModulus = 3
  TaskPriorities = {1, 2}
  NULL = NULL
INVARIANTS TypeOK OneRunning LinkedOnce SomeoneElseIsReady NoInversion PendingWhileProhibited
PROPERTY ProhibitedStaysCurrent
SYMMETRY Symmetry

SPECIFICATION FairSpec
CONSTANTS
  Pool = {t1, t2}
  main_task = main
  idle_task = idle
  MaxProhibition = 1
  ElapsedModulus = 3
  TaskPriorities = {1}
  NULL = NULL
PROPERTIES MainWakes RoundRobin

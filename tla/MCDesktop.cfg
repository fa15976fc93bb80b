CONSTANTS
  Applications = {a, b}
  Windows = {v, w}
  Presses = 2
SPECIFICATION Spec
INVARIANT ConsoleOutlivesUse
INVARIANT BusyMeansRunning
INVARIANT SerialBusyMeansRunning
INVARIANT ExitTakesWindows
PROPERTY CloseCompletes
CHECK_DEADLOCK FALSE

CONSTANTS
  N = 2
  Signals = {2, 15}
  MaxHandlers = 2
SPECIFICATION Spec
INVARIANT TypeOK NestedDown CleanEnd CrashWindow EveryoneTold
CHECK_DEADLOCK FALSE

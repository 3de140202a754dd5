CONSTANTS
  Client = {c1, c2}
  Thread = {t1, t2}
  N = 2
  NoPid = NoPid
  Faults = {}
  Restarting = {}
SPECIFICATION Spec
INVARIANT OneThreadPerClient
SYMMETRY Interchangeable
CHECK_DEADLOCK FALSE

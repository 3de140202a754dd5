CONSTANTS
  Client = {c1, c2}
  Thread = {t1}
  N = 1
  NoPid = NoPid
  Faults = {"eof"}
  Restarting = {}
SPECIFICATION Spec
INVARIANT FreePlaceForTaken
SYMMETRY Interchangeable
CHECK_DEADLOCK FALSE

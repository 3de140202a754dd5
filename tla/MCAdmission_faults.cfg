CONSTANTS
  Client = {c1, c2}
  Thread = {t1, t2}
  N = 2
  NoPid = NoPid
  Faults = {"kill", "interrupt", "eof", "client_timeout", "daemon_timeout"}
  Restarting = {c1, c2}
SPECIFICATION Spec
INVARIANT TypeOK MutualExclusion PlacesConserved NoOverrun LatestNotLost
PROPERTY ImplementsQueue
SYMMETRY Interchangeable
CHECK_DEADLOCK FALSE

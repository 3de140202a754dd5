CONSTANTS
  Daemon = {d1, d2}
  Client = {}
  None = None
  Handler = {h1}
  Child = r
  Repeated = {}
  Reporting = {d1}
SPECIFICATION Spec
INVARIANT SingleDaemon
CHECK_DEADLOCK FALSE

CONSTANTS
  Daemon = {d1, d2}
  Client = {c1}
  None = None
  Handler = {h1, h2}
  Child = r
  Repeated = {d1}
  Reporting = {d2}
SPECIFICATION Spec
INVARIANTS TypeOK OneDaemon FreshNames SegmentKept OneSet CleanStop
SYMMETRY Interchangeable
CHECK_DEADLOCK FALSE

CONSTANTS
  Threads = {t1, t2}
  Main = Main
  Pids = {p1, p2}
  None = None
  Zombie = Zombie
  MaxRequests = 2
  Events = {"endless"}
SPECIFICATION FairSpec
PROPERTY OwnCommandOnly
CHECK_DEADLOCK FALSE

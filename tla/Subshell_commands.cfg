CONSTANTS
  Threads = {t1, t2}
  Main = Main
  Pids = {p1, p2}
  None = None
  Zombie = Zombie
  MaxRequests = 4
  Events = {"stop"}
SPECIFICATION FairSpec
INVARIANT TypeOK ZombieWatched WaitsForChild FreshPipe DaemonUnharmed
PROPERTY ThreadReturns
CHECK_DEADLOCK FALSE

CONSTANTS
  Client = {c1, c2}
  Thread = {t1, t2}
  N = 1
  NoPid = NoPid
  Faults = {"client_timeout", "daemon_timeout"}
  Restarting = {c1, c2}
SPECIFICATION FairSpec
INVARIANT EndsByLateWrite OneThreadPerClient PlaceOwned FreePlaceForTaken
PROPERTY PlacesComeBack EveryoneConnected
CHECK_DEADLOCK FALSE

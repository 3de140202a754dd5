CONSTANTS
  MaxRequests = 3
  Outputs = {"prompt", "slow", "empty", "endless"}
  Events = {"client_timeout", "daemon_timeout", "interrupt", "eof"}
SPECIFICATION FairSpec
INVARIANT TypeOK AnswersPaired
PROPERTY QuietLeave QuitFrees ClientGetsOn ThreadEnds IdleEvicted
CHECK_DEADLOCK FALSE

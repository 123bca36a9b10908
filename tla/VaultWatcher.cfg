SPECIFICATION FairSpec
CONSTANTS
  None = None
  Paths <- MCPaths
  Excluded = {"x"}
  Outside = {"o"}
  Events <- MCEvents
  Timers = {t1, t2, t3}
  IdleTimers = {i1, i2}
  PendingWarnThreshold = 2
  MaxAccepted = 3
INVARIANTS
  TypeOK
  ExactlyOnceInOrder
  NoStrandedChange
  OneWarningPerEpisode
  SinglePendingIdle
PROPERTIES
  NothingAfterDrain
  ImplementsBatcher

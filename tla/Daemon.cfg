SPECIFICATION FairSpec
CONSTANTS
  None = None
  Main = Main
  Paths = {"n"}
  Excluded = {}
  Outside = {}
  Events <- MCEvents
  Timers = {t1, t2}
  IdleTimers = {i1, i2}
  PendingWarnThreshold = 2
  MaxAccepted = 3
  ChangeThreshold = 3
  QuietTicks = 2
  MaxSignals = 2
  MaxFailures = 1
INVARIANTS
  TypeOK
  LostOnlyInFlight
  CacheLoadableAfterStop
PROPERTIES
  NoEmptyCycle
  UnsavedIsSaved
  ShutdownCompletes

SPECIFICATION Spec
CONSTANTS
  None = None
  Main = Main
  Paths = {"n"}
  Excluded = {}
  Outside = {}
  Events <- MCEvents
  Timers = {t1, t2}
  IdleTimers = {i1, i2}
  PendingWarnThreshold = 2
  MaxAccepted = 2
  ChangeThreshold = 2
  QuietTicks = 1
  MaxSignals = 1
  MaxFailures = 0
INVARIANT InFlightBeforePersist

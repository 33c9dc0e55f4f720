SPECIFICATION FairSpec
CONSTANTS
  Feeds = {f1, f2, f3}
CHECK_DEADLOCK FALSE
INVARIANTS
  SupervisorTypeOK
  StartedOnlyWhenAllPrepared
  NothingCutOff
  ExitStatusTrue
  StoppedForAReason
PROPERTIES
  OneDownAllDown
  SignalEndsHandler

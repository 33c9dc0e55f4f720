SPECIFICATION Spec
CONSTANTS
  N = 2
  Modes = {"Spin", "Block"}
  Burst = 2
  Heartbeat = 2
  StaleAge = 1
  MinWait = 1
  MaxWait = 1
  DefaultWait = 1
  Day = 16
  KstOffset = 6
  Epoch = 24
  OldDrops = {0, 3}
  Variants <- MCVariants
  Steps <- MCSteps
  MaxTime = 5
  MaxArrivals = 4
  MaxOdd = 1
  QueueCap = 2
CHECK_DEADLOCK FALSE
INVARIANTS
  KrxTypeOK
  CountersAgree
  NoSocketStarves
  BeatCadence
  StaleMeansOld
  StopIsPrompt
PROPERTIES
  BeatsNotBunched

SPECIFICATION Spec
CONSTANTS
  Heartbeat = 1
  LogonTimeout = 1
  Reconnect = 1
  RecordBeat = 1
  Burst = 1
  DialTime = 0
  RoundTime = 1
  Offers <- MCOffers
  Firsts = {1, 2}
  Kinds = {"MD"}
  GapFills = FALSE
  MaxTime = 8
  MaxNumber = 4
  MaxInFlight = 2
CHECK_DEADLOCK FALSE
PROPERTIES
  TestedBeforeGivenUp

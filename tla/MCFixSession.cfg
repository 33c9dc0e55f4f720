SPECIFICATION Spec
CONSTANTS
  Heartbeat = 1
  LogonTimeout = 1
  Reconnect = 1
  RecordBeat = 1
  Burst = 1
  DialTime = 2
  RoundTime = 1
  Offers <- MCOffers
  Firsts = {1, 2}
  Kinds = {"MD", "Quiet", "TestRequest", "ResendRequest", "Reset", "Logout", "Other", "Bad", "Garbage", "Skip", "Regress"}
  GapFills = FALSE
  MaxTime = 6
  MaxNumber = 3
  MaxInFlight = 2
CHECK_DEADLOCK FALSE
INVARIANTS
  FixTypeOK
  HalfOpenNoticed
  HolesAskedOnce
  SubscribedOnLogon
  BeatsThroughOutages
PROPERTIES
  PublishedInOrder
  OutboundInOrder

SPECIFICATION FairSpec
CONSTANTS
  Venues = {"kucoin", "binance"}
  Ping = 1
  Keep = 1
  Reconnect = 2
  RecordBeat = 1
  Burst = 1
  DialTime = 1
  RestTime = 1
  MaxParts = 2
  MaxWaiting = 2
CHECK_DEADLOCK FALSE
INVARIANTS
  CryptoTypeOK
  AskedBeforeHandled
  BeatsThroughBlocking
PROPERTIES
  WholeMessages
  NotDroppedWhileTalking
  DeadPeerNoticed
  Reconnects

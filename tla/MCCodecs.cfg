SPECIFICATION CodecsSpec
CONSTANTS
  MaxDepth = 2
  MaxDelta = 3
  NsPerMs = 10
  MaxNano = 99
  StaleNs = 20
  Tables <- MCTables
  Bodies <- MCBodies
  Instruments <- MCInstruments
  Messages <- MCMessages
  RestBodies <- MCRestBodies
  Streams <- MCStreams
  FixMessages <- MCFixMessages
  MaxBegin = 3
  MaxDigits = 2
  NumberLen = 4
  MaxBody = 15
  BufferLen = 27
  MaxEntries = 3
  MaxI64 = 127
  NsDigits = 2
  LastDay = 213503
  LastTime = 8487370
  MaxLevel = 5
  LongSymbols <- MCLongSymbols
  KrxTrcodes <- MCKrxTrcodes
  Datagrams <- MCDatagrams
  MaxYield = 200
  ExtWord = 1000
  Confs <- MCConfs
  MaxU16 = 20
  MaxU32 = 40
  Word = 640
  NsPerSec = 10
  MaxLogical = 4
  RingNames <- MCRingNames
  Ports <- MCPorts
  Trcodes <- MCTrcodes
  Urls <- MCUrls
  RestBases <- MCRestBases
INVARIANTS
  DecodesAgree
  StreamsComeBack
  FramesWhole
  FixMessagesComeBack
  AcceptedConfStarts

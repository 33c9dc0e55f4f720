-------------------------------- MODULE Conf --------------------------------
(***************************************************************************)
(* The confs of the three feed processes: what is read from a parsed TOML  *)
(* table, what is refused, and what the start functions then do with it.   *)
(*                                                                         *)
(* A TOML value is [kind, of]; a table is a function from keys to values.  *)
(* Reading a conf is a predicate: which of several mistakes is reported is *)
(* left out.  A box is [siblings, known]: the processors on the core of    *)
(* each processor, 0 first, and whether Topology::detect could tell.       *)
(***************************************************************************)
EXTENDS CryptoRoutes, FixCodec

CONSTANTS
  MaxU16, MaxU32,  \* u16::MAX and u32::MAX
  Word,            \* 2^64
  NsPerSec,        \* 1_000_000_000
  MaxLogical,      \* MAX_LOGICAL
  RingNames,       \* the texts SegmentName::local takes
  Ports,           \* the port of each text that is a multicast endpoint
  Trcodes,         \* the texts of five bytes
  Urls,            \* the texts that are ws:// or wss:// URLs
  RestBases        \* the texts that start with http:// or https://

ASSUME ConfAssumption ==
  {MaxU16, MaxU32, Word, NsPerSec, MaxLogical} \subseteq Nat \ {0}

-----------------------------------------------------------------------------
(* Section's accessors.                                                    *)
Get(t, k, default) == IF k \in DOMAIN t THEN t[k].of ELSE default
OptionalStr(t, k) == k \in DOMAIN t => t[k].kind = "str"
RequiredStr(t, k) == k \in DOMAIN t /\ OptionalStr(t, k)
OptionalU64(t, k) == k \in DOMAIN t => t[k].kind = "int" /\ t[k].of >= 0
RequiredU64(t, k) == k \in DOMAIN t /\ OptionalU64(t, k)
OptionalBool(t, k) == k \in DOMAIN t => t[k].kind = "bool"
ArrayOf(v, kind) == v.kind = "arr" /\ \A i \in 1..Len(v.of) : v.of[i].kind = kind
RequiredStrs(t, k) == k \in DOMAIN t /\ ArrayOf(t[k], "str")
RequiredU16s(t, k) ==
  /\ k \in DOMAIN t /\ ArrayOf(t[k], "int")
  /\ \A i \in 1..Len(t[k].of) : t[k].of[i].of \in 0..MaxU16
OptionalTable(t, k) == k \in DOMAIN t => t[k].kind = "tab"
SubTables(t, k) == k \in DOMAIN t => ArrayOf(t[k], "tab")
Finish(t, known) == DOMAIN t \subseteq known

Items(t, k) == LET vs == Get(t, k, <<>>) IN [i \in 1..Len(vs) |-> vs[i].of]
AtLeastOne(t, k) == OptionalU64(t, k) /\ Get(t, k, 1) # 0
AtMost(t, k, max) == OptionalU64(t, k) /\ Get(t, k, 0) <= max

-----------------------------------------------------------------------------
(* The keys every feed has, and the part of it the shared rules look at.   *)
PlacementKeys == {"name", "mode", "cores", "ring", "ring_slots"}
PlacementReads(t) ==
  /\ RequiredStr(t, "name") /\ RequiredStr(t, "mode") /\ t["mode"].of \in {"spin", "block"}
  /\ RequiredU16s(t, "cores") /\ RequiredStr(t, "ring") /\ RequiredU64(t, "ring_slots")
Placement(t) ==
  [name |-> t["name"].of, spin |-> t["mode"].of = "spin", cores |-> Items(t, "cores"),
   ring |-> t["ring"].of, slots |-> t["ring_slots"].of]
WithPlacement(t, own) ==
  LET place == Placement(t) IN
  [k \in DOMAIN place \cup DOMAIN own |-> IF k \in DOMAIN place THEN place[k] ELSE own[k]]

(* [health] and [log].                                                     *)
HealthReads(root) ==
  /\ OptionalTable(root, "health")
  /\ LET s == Get(root, "health", <<>>) IN
     OptionalU64(s, "heartbeat_ms") /\ OptionalU64(s, "stale_ms") /\ Finish(s, {"heartbeat_ms", "stale_ms"})
LogReads(root) ==
  /\ OptionalTable(root, "log")
  /\ LET s == Get(root, "log", <<>>) IN OptionalU64(s, "report_secs") /\ Finish(s, {"report_secs"})

(* krx.rs: feed, FeedConf, KrxConf::from_table.                            *)
KrxFeedKeys == PlacementKeys \cup {"sockets", "trcodes", "burst", "recv_buffer_bytes"}
KrxFeedReads(t) ==
  /\ PlacementReads(t)
  /\ RequiredStrs(t, "sockets") /\ Range(Items(t, "sockets")) \subseteq DOMAIN Ports
  /\ RequiredStrs(t, "trcodes") /\ Range(Items(t, "trcodes")) \subseteq Trcodes
  /\ AtLeastOne(t, "burst") /\ AtMost(t, "burst", MaxU32)
  /\ AtMost(t, "recv_buffer_bytes", MaxU32)
  /\ Finish(t, KrxFeedKeys)
KrxFeedConf(t) ==
  WithPlacement(t, [sockets |-> Items(t, "sockets"), trcodes |-> Items(t, "trcodes"), burst |-> Get(t, "burst", 64)])
KrxFromTable(root) ==
  /\ OptionalStr(root, "trcode_table")
  /\ SubTables(root, "feed") /\ \A f \in Range(Items(root, "feed")) : KrxFeedReads(f)
  /\ OptionalTable(root, "filter")
  /\ LET s == Get(root, "filter", <<>>) IN OptionalStr(s, "isin") /\ Finish(s, {"isin"})
  /\ HealthReads(root) /\ LogReads(root)
  /\ Finish(root, {"trcode_table", "feed", "filter", "health", "log"})

(* crypto.rs: instrument, feed, CryptoFeedConf, CryptoConf::from_table.    *)
VenueNames ==
  [v \in {"binance-spot", "upbit", "okx", "bybit-spot", "gate-spot", "kucoin-futures", "binance-futures",
          "bithumb", "bybit-linear", "bitget-spot", "bitget-linear", "kucoin-spot"} |->
     CASE v = "binance-spot" -> "BinanceSpot" [] v = "binance-futures" -> "BinanceFutures"
       [] v = "upbit" -> "Upbit" [] v = "bithumb" -> "Bithumb" [] v = "okx" -> "Okx"
       [] v = "bybit-spot" -> "BybitSpot" [] v = "bybit-linear" -> "BybitLinear"
       [] v = "bitget-spot" -> "BitgetSpot" [] v = "bitget-linear" -> "BitgetLinear"
       [] v = "gate-spot" -> "GateSpot" [] v = "kucoin-spot" -> "KucoinSpot"
       [] v = "kucoin-futures" -> "KucoinFutures"]
DecimalsRead(t, k) == RequiredU64(t, k) /\ t[k].of <= 8
InstrumentReads(t) ==
  /\ RequiredStr(t, "symbol") /\ DecimalsRead(t, "price_decimals") /\ DecimalsRead(t, "qty_decimals")
  /\ RequiredStrs(t, "channels")
  /\ LET cs == Items(t, "channels") IN cs # <<>> /\ Range(cs) \subseteq Channels /\ IsInjective(cs)
  /\ AtLeastOne(t, "depth") /\ AtMost(t, "depth", MaxU16)
  /\ Finish(t, {"symbol", "price_decimals", "qty_decimals", "channels", "depth"})
CryptoFeedKeys == PlacementKeys \cup {"venue", "url", "rest", "instrument", "ping_secs", "reconnect_secs", "burst"}
CryptoFeedReads(t) ==
  /\ PlacementReads(t)
  /\ RequiredStr(t, "venue") /\ t["venue"].of \in DOMAIN VenueNames
  /\ OptionalStr(t, "url") /\ ("url" \in DOMAIN t => t["url"].of \in Urls)
  /\ OptionalStr(t, "rest") /\ ("rest" \in DOMAIN t => t["rest"].of \in RestBases)
  /\ SubTables(t, "instrument") /\ \A i \in Range(Items(t, "instrument")) : InstrumentReads(i)
  /\ OptionalU64(t, "ping_secs") /\ AtLeastOne(t, "reconnect_secs")
  /\ AtLeastOne(t, "burst") /\ AtMost(t, "burst", MaxU32)
  /\ Finish(t, CryptoFeedKeys)
CryptoFeedConf(t) ==
  WithPlacement(t,
  [venue |-> VenueNames[t["venue"].of], burst |-> Get(t, "burst", 64),
   instruments |-> [i \in 1..Len(Items(t, "instrument")) |->
                      LET s == Items(t, "instrument")[i] IN
                      [symbol |-> s["symbol"].of, price |-> s["price_decimals"].of, qty |-> s["qty_decimals"].of,
                       channels |-> Range(Items(s, "channels")), depth |-> Get(s, "depth", 0)]],
   timers |-> [ping |-> Get(t, "ping_secs", 30), reconnect |-> Get(t, "reconnect_secs", 5)]])
CryptoFromTable(root) ==
  /\ SubTables(root, "feed") /\ \A f \in Range(Items(root, "feed")) : CryptoFeedReads(f)
  /\ HealthReads(root) /\ LogReads(root)
  /\ Finish(root, {"feed", "health", "log"})

(* fix.rs: feed, FixFeedConf, FixConf::from_table.                         *)
FixFeedKeys ==
  PlacementKeys \cup
  {"venue", "host", "port", "sender_comp_id", "target_comp_id", "begin_string", "price_decimals", "qty_decimals",
   "default_qty", "symbols", "depth", "subscription", "heartbeat_secs", "reset_seq", "reconnect_secs",
   "logon_timeout_secs", "burst"}
(* symbol_from_bytes.                                                      *)
WireSymbol(s) == s # "" /\ s \notin LongSymbols
FixFeedReads(t) ==
  /\ PlacementReads(t)
  /\ RequiredStr(t, "venue") /\ t["venue"].of = "smbs"
  /\ RequiredStr(t, "host") /\ RequiredU64(t, "port") /\ t["port"].of \in 1..MaxU16
  /\ RequiredStr(t, "sender_comp_id") /\ RequiredStr(t, "target_comp_id") /\ OptionalStr(t, "begin_string")
  /\ DecimalsRead(t, "price_decimals") /\ DecimalsRead(t, "qty_decimals") /\ OptionalU64(t, "default_qty")
  /\ RequiredStrs(t, "symbols") /\ \A s \in Range(Items(t, "symbols")) : WireSymbol(s)
  /\ AtMost(t, "depth", MaxU32)
  /\ OptionalStr(t, "subscription") /\ Get(t, "subscription", "updates") \in {"updates", "snapshot"}
  /\ AtMost(t, "heartbeat_secs", MaxU32) /\ OptionalBool(t, "reset_seq")
  /\ AtLeastOne(t, "reconnect_secs") /\ AtLeastOne(t, "logon_timeout_secs")
  /\ AtLeastOne(t, "burst") /\ AtMost(t, "burst", MaxU32)
  /\ Finish(t, FixFeedKeys)
FixFeedConf(t) ==
  WithPlacement(t,
  [venue |-> "Smbs", port |-> t["port"].of, symbols |-> Items(t, "symbols"),
   price |-> t["price_decimals"].of, qty |-> t["qty_decimals"].of, burst |-> Get(t, "burst", 64),
   timers |-> [reconnect |-> Get(t, "reconnect_secs", 5), logon |-> Get(t, "logon_timeout_secs", 10)]])
FixFromTable(root) ==
  /\ SubTables(root, "feed") /\ \A f \in Range(Items(root, "feed")) : FixFeedReads(f)
  /\ HealthReads(root) /\ LogReads(root)
  /\ Finish(root, {"feed", "health", "log"})

-----------------------------------------------------------------------------
(* cpu: the processors a mask can name, and those beside them.             *)
MaskOf(cores) == \A i \in 1..Len(cores) : cores[i] < MaxLogical
SiblingsOutside(siblings, mask) == (UNION {siblings[c + 1] : c \in mask}) \ mask

(* Not zero, and no odd divisor but 1.                                     *)
IsPowerOfTwo(n) == n # 0 /\ \A d \in 2..n : d % 2 = 1 => n % d # 0

(* rules.rs: check_placement, with the box's siblings or <<>>.             *)
CheckPlacementAnyName(feeds, siblings) ==   \* mutant: names need not differ
  LET logical == IF siblings = <<>> THEN MaxLogical ELSE Len(siblings) IN
  /\ feeds # <<>>
  /\ \A i \in 1..Len(feeds) :
       LET f == feeds[i]
           earlier == Range(SubSeq(feeds, 1, i - 1))
       IN /\ f.name # ""
          /\ f.ring \in RingNames /\ \A o \in earlier : o.ring # f.ring
          /\ IsPowerOfTwo(f.slots)
          /\ f.cores # <<>> /\ (f.spin => Len(f.cores) = 1)
          /\ \A c \in Range(f.cores) : c < logical /\ \A o \in earlier : c \notin Range(o.cores)
  /\ siblings # <<>> =>
       \A s, o \in Range(feeds) :
         s.spin /\ o.name # s.name => Range(o.cores) \cap SiblingsOutside(siblings, Range(s.cores)) = {}
CheckPlacement(feeds, siblings) ==
  LET logical == IF siblings = <<>> THEN MaxLogical ELSE Len(siblings) IN
  /\ feeds # <<>>
  /\ \A i \in 1..Len(feeds) :
       LET f == feeds[i]
           earlier == Range(SubSeq(feeds, 1, i - 1))
       IN /\ f.name # "" /\ \A o \in earlier : o.name # f.name
          /\ f.ring \in RingNames /\ \A o \in earlier : o.ring # f.ring
          /\ IsPowerOfTwo(f.slots)
          /\ f.cores # <<>> /\ (f.spin => Len(f.cores) = 1)
          /\ \A c \in Range(f.cores) : c < logical /\ \A o \in earlier : c \notin Range(o.cores)
  /\ siblings # <<>> =>
       \A s, o \in Range(feeds) :
         s.spin /\ o.name # s.name => Range(o.cores) \cap SiblingsOutside(siblings, Range(s.cores)) = {}

(* Scale::from_decimals.                                                   *)
FromDecimals(n) == n \in 0..8

(* The router of a crypto feed: its instruments, then route::check.        *)
InstrumentNew(i) == WireSymbol(i.symbol) /\ FromDecimals(i.price) /\ FromDecimals(i.qty)
Subscriptions(f) ==
  [k \in 1..Len(f.instruments) |->
     [inst |-> [venue |-> f.venue, symbol |-> f.instruments[k].symbol], channels |-> f.instruments[k].channels,
      depth |-> f.instruments[k].depth]]
RouterNew(f) ==
  /\ f.instruments # <<>> /\ \A i \in Range(f.instruments) : InstrumentNew(i)
  /\ Check(f.venue, Subscriptions(f))

KrxValidate(feeds, siblings) ==
  /\ CheckPlacement(feeds, siblings)
  /\ \A i \in 1..Len(feeds) :
       LET f == feeds[i] IN
       /\ f.sockets # <<>>
       /\ \A j \in 1..Len(f.sockets) :
            LET earlier == Range(SubSeq(f.sockets, 1, j - 1))
                           \cup UNION {Range(feeds[k].sockets) : k \in 1..(i - 1)}
            IN \A s \in earlier : Ports[s] # Ports[f.sockets[j]]
       /\ f.trcodes # <<>> /\ IsInjective(f.trcodes)
CryptoValidate(feeds, siblings) ==
  CheckPlacement(feeds, siblings) /\ \A f \in Range(feeds) : RouterNew(f)
FixValidate(feeds, siblings) ==
  CheckPlacement(feeds, siblings) /\ \A f \in Range(feeds) : f.symbols # <<>>

-----------------------------------------------------------------------------
(* What each process does with a conf it accepted.  A feed's ring, then    *)
(* what its receiver needs, and on its thread the pin: "refused" and       *)
(* "panics" end the process, "dies" the feed.                              *)
CreateRing(f) == f.ring \in RingNames /\ IsPowerOfTwo(f.slots)

(* The OS refuses a mask that names a processor it does not have.          *)
PinCurrentThread(f, box) ==
  /\ MaskOf(f.cores) /\ f.cores # <<>>
  /\ \A c \in Range(f.cores) : c < Len(box.siblings)
Ran(f, box) == IF PinCurrentThread(f, box) THEN "runs" ELSE "dies"

Nanos(secs) == (secs * NsPerSec) % Word
ReceiverConfig(f) == [k \in DOMAIN f.timers |-> Nanos(f.timers[k])]

KrxStart(f, box) == IF CreateRing(f) THEN Ran(f, box) ELSE "refused"
CryptoStart(f, box) == IF CreateRing(f) /\ RouterNew(f) THEN Ran(f, box) ELSE "refused"
FixStart(f, box) ==
  CASE ~CreateRing(f) -> "refused"
    [] ~FromDecimals(f.price) \/ ~FromDecimals(f.qty) -> "panics"   \* scales().expect
    [] OTHER -> Ran(f, box)

(* main, up to its feeds: load, validate against the box, start.           *)
Loads(family, root) ==
  CASE family = "krx" -> KrxFromTable(root) [] family = "crypto" -> CryptoFromTable(root)
    [] family = "fix" -> FixFromTable(root)
FeedConfs(family, root) ==
  [i \in 1..Len(Items(root, "feed")) |->
     LET t == Items(root, "feed")[i] IN
     CASE family = "krx" -> KrxFeedConf(t) [] family = "crypto" -> CryptoFeedConf(t)
       [] family = "fix" -> FixFeedConf(t)]
Validates(family, feeds, siblings) ==
  CASE family = "krx" -> KrxValidate(feeds, siblings) [] family = "crypto" -> CryptoValidate(feeds, siblings)
    [] family = "fix" -> FixValidate(feeds, siblings)
Start(family, f, box) ==
  CASE family = "krx" -> KrxStart(f, box) [] family = "crypto" -> CryptoStart(f, box)
    [] family = "fix" -> FixStart(f, box)
Main(family, root, box) ==
  LET feeds == FeedConfs(family, root) IN
  IF ~Loads(family, root) THEN Refuse("ConfError")
  ELSE IF ~Validates(family, feeds, IF box.known THEN box.siblings ELSE <<>>) THEN Refuse("RuleError")
  ELSE [feeds |-> feeds, started |-> [i \in 1..Len(feeds) |-> Start(family, feeds[i], box)]]
=============================================================================

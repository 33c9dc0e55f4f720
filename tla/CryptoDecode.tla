---------------------------- MODULE CryptoDecode ----------------------------
(***************************************************************************)
(* The message decoders of jeed-crypto: one JSON message to one wire       *)
(* record.                                                                 *)
(*                                                                         *)
(* A JSON object is the sequence of its fields in the order they arrive,   *)
(* each a key and a value; how its text is scanned (json.rs) is left out.  *)
(* A decoder is a table: what each key it knows is for, and which of those *)
(* must be there.  Decode folds a table over the fields the way the loops  *)
(* of the code do.                                                         *)
(***************************************************************************)
EXTENDS Wire, FiniteSets, SequencesExt, FiniteSetsExt

CONSTANTS
  NsPerMs,    \* nanoseconds of a millisecond
  MaxNano     \* u64::MAX

ASSUME DecodeAssumption == NsPerMs \in Nat \ {0} /\ MaxNano \in Nat

Field(k, v) == [key |-> k, val |-> v]

-----------------------------------------------------------------------------
(* Decoder tables.  `keys` gives the role of each key, `need` the roles    *)
(* REQUIRED lists, `buy` and `sell` the values aggressor() knows.          *)
Decoder(kind, keys, need) == [kind |-> kind, keys |-> keys, need |-> need, buy |-> "", sell |-> ""]
Trade(keys, need, buy, sell) ==
  [kind |-> "Trade", keys |-> keys, need |-> need, buy |-> buy, sell |-> sell]

Book == {"bids", "asks"}
Deal == {"price", "qty"}
Top == {"bidPrice", "bidQty", "askPrice", "askQty"}

BinanceSpotTrade ==
  Trade([p |-> "price", q |-> "qty", m |-> "side", T |-> "ms", s |-> "symbol"],
        Deal \cup {"side"}, "false", "true")
BinanceSpotBbo ==
  Decoder("Quote", [u |-> "seq", s |-> "symbol", b |-> "bidPrice", B |-> "bidQty",
                    a |-> "askPrice", A |-> "askQty"], Top)
BinanceSpotSnapshot ==
  Decoder("Quote", [l |-> "seq", b |-> "bids", a |-> "asks"], Book \cup {"seq"})
BinanceSpotDelta ==
  Decoder("Delta", [E |-> "ms", U |-> "first", u |-> "final", b |-> "bids", a |-> "asks",
                    s |-> "symbol"], Book \cup {"final"})
BinanceFuturesTrade ==
  Trade([p |-> "price", q |-> "qty", m |-> "side", T |-> "ms", s |-> "symbol"],
        Deal \cup {"side"}, "false", "true")
BinanceFuturesBbo ==
  Decoder("Quote", [u |-> "seq", T |-> "ms", s |-> "symbol", b |-> "bidPrice",
                    B |-> "bidQty", a |-> "askPrice", A |-> "askQty"], Top)
(* `lastUpdateId` over REST, `u` on the stream.                            *)
BinanceFuturesSnapshot ==
  Decoder("Quote", [l |-> "seq", u |-> "seq", T |-> "ms", E |-> "ms2", b |-> "bids", a |-> "asks",
                    s |-> "symbol"], Book \cup {"seq"})
BinanceFuturesDelta ==
  Decoder("Delta", [E |-> "ms2", T |-> "ms", U |-> "first", u |-> "final", p |-> "prev",
                    b |-> "bids", a |-> "asks", s |-> "symbol"], Book \cup {"final"})

(* Upbit and Bithumb; each key also has a short form.                      *)
UpbitTrade ==
  Trade([trade_price |-> "price", tp |-> "price", trade_volume |-> "qty", tv |-> "qty",
         ask_bid |-> "side", ab |-> "side", trade_timestamp |-> "ms", ttms |-> "ms",
         code |-> "symbol", cd |-> "symbol"], Deal \cup {"side"}, "BID", "ASK")
UpbitSnapshot ==
  Decoder("Quote", [timestamp |-> "ms", tms |-> "ms", orderbook_units |-> "units",
                    obu |-> "units", code |-> "symbol", cd |-> "symbol"], {"units"})

OkxTrade ==
  Trade([px |-> "price", sz |-> "qty", side |-> "side", ts |-> "ms", instId |-> "symbol"],
        Deal, "buy", "sell")
OkxSnapshot ==
  Decoder("Quote", [bids |-> "bids", asks |-> "asks", seqId |-> "seq", ts |-> "ms",
                    instId |-> "symbol"], Book \cup {"seq"})
OkxDelta ==
  Decoder("Delta", [bids |-> "bids", asks |-> "asks", seqId |-> "both", prevSeqId |-> "prev",
                    ts |-> "ms", instId |-> "symbol"], Book \cup {"both", "prev"})

BybitTrade ==
  Trade([p |-> "price", v |-> "qty", S |-> "side", T |-> "ms", s |-> "symbol"],
        Deal, "Buy", "Sell")
BybitSnapshot ==
  Decoder("Quote", [b |-> "bids", a |-> "asks", u |-> "seq", s |-> "symbol"], Book \cup {"seq"})
BybitDelta ==
  Decoder("Delta", [b |-> "bids", a |-> "asks", u |-> "both", s |-> "symbol"], Book \cup {"both"})

BitgetTrade ==
  Trade([price |-> "price", size |-> "qty", side |-> "side", ts |-> "ms"], Deal, "buy", "sell")
BitgetSnapshot ==
  Decoder("Quote", [bids |-> "bids", asks |-> "asks", seq |-> "seq", ts |-> "ms"],
          Book \cup {"seq"})
BitgetDelta ==
  Decoder("Delta", [bids |-> "bids", asks |-> "asks", seq |-> "both", pseq |-> "prev",
                    ts |-> "ms"], Book \cup {"both", "prev"})
BitgetRest == Decoder("Quote", [bids |-> "bids", asks |-> "asks", ts |-> "ms"], Book)

GateTrade ==
  Trade([price |-> "price", amount |-> "qty", side |-> "side", create_time_ms |-> "dec",
         currency_pair |-> "symbol"], Deal, "buy", "sell")
GateDelta ==
  Decoder("Delta", [b |-> "bids", a |-> "asks", U |-> "first", u |-> "final", t |-> "ms",
                    s |-> "symbol"], Book \cup {"first", "final"})
GateRest ==
  Decoder("Quote", [bids |-> "bids", asks |-> "asks", id |-> "seq", update |-> "ms"], Book)

KucoinSpotTrade ==
  Trade([price |-> "price", size |-> "qty", side |-> "side", time |-> "ns",
         symbol |-> "symbol"], Deal, "buy", "sell")
(* The sides are one object down, in `changes`.                            *)
KucoinSpotDelta ==
  Decoder("Delta", [bids |-> "bids", asks |-> "asks", sequenceStart |-> "first",
                    sequenceEnd |-> "final", symbol |-> "symbol"], Book \cup {"first", "final"})
KucoinSpotRest ==
  Decoder("Quote", [bids |-> "bids", asks |-> "asks", sequence |-> "seq", time |-> "ms"], Book)
KucoinFuturesTrade ==
  Trade([price |-> "price", size |-> "qty", side |-> "side", ts |-> "ns",
         symbol |-> "symbol"], Deal, "buy", "sell")
KucoinFuturesDelta ==
  Decoder("Delta", [change |-> "change", sequence |-> "both", timestamp |-> "ms",
                    symbol |-> "symbol"], {"change", "both"})
KucoinFuturesRest ==
  Decoder("Quote", [bids |-> "bids", asks |-> "asks", sequence |-> "seq",
                    symbol |-> "symbol"], Book)

-----------------------------------------------------------------------------
(* Conversions.                                                            *)
(* Saturating, as u64::saturating_mul.                                     *)
MillisToNanos(ms) == Lesser(ms * NsPerMs, MaxNano)

(* "1234.567": whole milliseconds and the digits that follow the point.    *)
(* NsPerMs here is a power of ten, and only that many digits are kept.     *)
DecimalMillis(v) ==
  IF v.junk \/ (v.point /\ v.frac = <<>>) THEN None
  ELSE LET kept == CHOOSE n \in 0..NsPerMs : 10^n = NsPerMs
           digit(i) == IF i <= Len(v.frac) THEN v.frac[i] ELSE 0
       IN Lesser(MillisToNanos(v.ms) + FoldLeft(LAMBDA a, i : a * 10 + digit(i), 0, [i \in 1..kept |-> i]),
                 MaxNano)

(* A level is <<price, qty>>; BadLevels: one of the first n does not parse. *)
BadLevels(ls, n) == \E i \in 1..Lesser(n, Len(ls)) : Bad \in {ls[i][1], ls[i][2]}

(* The rank of the deepest level with a quantity.                          *)
DepthOf(ls) ==
  LET depth[i \in 0..Len(ls)] == IF i = 0 THEN 0 ELSE IF ls[i][2] > 0 THEN i ELSE depth[i - 1]
  IN depth[Len(ls)]

BookShape(bid, ask) ==
  [depth |-> IF bid > ask THEN bid ELSE ask,
   flags |-> (IF bid = 0 THEN {"BID_EMPTY"} ELSE {}) \cup (IF ask = 0 THEN {"ASK_EMPTY"} ELSE {})]

-----------------------------------------------------------------------------
(* The loop over the fields.  `have` is the mask of the roles seen,        *)
(* `levels`, `bidCount`, `askCount` and `askFirst` are Sides.              *)
Blank ==
  [ err |-> "", have |-> {}, price |-> 0, qty |-> 0, side |-> "unknown",
    ms |-> None, ms2 |-> None, ns |-> None, seq |-> 0, first |-> 0, final |-> 0, prev |-> None,
    bidPrice |-> 0, bidQty |-> 0, askPrice |-> 0, askQty |-> 0, bids |-> <<>>, asks |-> <<>>,
    levels |-> <<>>, bidCount |-> 0, askCount |-> 0, askFirst |-> FALSE ]

Failed(s, e) == [s EXCEPT !.err = e]
Saw(s, r) == [s EXCEPT !.have = @ \cup {r}]

(* Sides::read: the second side goes behind the first, and both share the  *)
(* room of the record.                                                     *)
SidesReadNoTurn(s, r, ls) ==   \* mutant: asks that came first are left there
  IF BadLevels(ls, MaxDelta - Len(s.levels)) THEN Failed(s, "Field")
  ELSE IF Len(s.levels) + Len(ls) > MaxDelta THEN Failed(s, "DeltaOverflow")
  ELSE [s EXCEPT !.levels = @ \o ls,
                 !.bidCount = IF r = "bids" THEN Len(ls) ELSE @,
                 !.askCount = IF r = "asks" THEN Len(ls) ELSE @]

SidesRead(s, r, ls) ==
  IF BadLevels(ls, MaxDelta - Len(s.levels)) THEN Failed(s, "Field")
  ELSE IF Len(s.levels) + Len(ls) > MaxDelta THEN Failed(s, "DeltaOverflow")
  ELSE [s EXCEPT !.levels = @ \o ls,
                 !.bidCount = IF r = "bids" THEN Len(ls) ELSE @,
                 !.askCount = IF r = "asks" THEN Len(ls) ELSE @,
                 !.askFirst = @ \/ (r = "asks" /\ s.levels = <<>> /\ s.bidCount = 0)]

SidesFinish(s) ==
  IF s.askFirst
  THEN SubSeq(s.levels, s.askCount + 1, Len(s.levels)) \o SubSeq(s.levels, 1, s.askCount)
  ELSE s.levels

(* quote_levels: what lies below the record's depth is skipped unread.     *)
QuoteLevels(s, r, ls) ==
  IF BadLevels(ls, MaxDepth) THEN Failed(s, "Field") ELSE [s EXCEPT ![r] = FirstOf(ls, MaxDepth)]

(* Upbit's units: one object per rank with both sides.                     *)
Units(s, us) ==
  LET side(x) == [i \in 1..Len(us) |-> us[i][x]] IN
  IF BadLevels(side("bid"), MaxDepth) \/ BadLevels(side("ask"), MaxDepth) THEN Failed(s, "Field")
  ELSE [s EXCEPT !.bids = FirstOf(side("bid"), MaxDepth), !.asks = FirstOf(side("ask"), MaxDepth)]

(* KuCoin futures: "price,side,qty", one level.                            *)
Change(s, v) ==
  IF v.side \notin {"buy", "sell"} THEN Failed(s, "Unexpected")
  ELSE IF Bad \in {v.price, v.qty} THEN Failed(s, "Field")
  ELSE [s EXCEPT !.levels = <<<<v.price, v.qty>>>>,
                 !.bidCount = IF v.side = "buy" THEN 1 ELSE 0,
                 !.askCount = IF v.side = "buy" THEN 0 ELSE 1]

Aggressor(d, v) == IF v = d.buy THEN "buy" ELSE IF v = d.sell THEN "sell" ELSE "unknown"

Numbers == Deal \cup Top
Counters == {"seq", "first", "final", "prev", "ms", "ms2", "ns"}

(* One field.                                                              *)
Read(d, inst, s, f) ==
  IF s.err # "" \/ f.key \notin DOMAIN d.keys THEN s
  ELSE LET r == d.keys[f.key] IN
    CASE r = "symbol"    -> IF f.val = inst.symbol THEN s ELSE Failed(s, "SymbolMismatch")
      [] r \in Numbers   -> IF f.val = Bad THEN Failed(s, "Field") ELSE Saw([s EXCEPT ![r] = f.val], r)
      [] r \in Counters  -> Saw([s EXCEPT ![r] = f.val], r)
      [] r = "both"      -> Saw([s EXCEPT !.first = f.val, !.final = f.val], r)
      [] r = "dec"       -> [s EXCEPT !.ns = DecimalMillis(f.val)]
      [] r = "side"      -> Saw([s EXCEPT !.side = Aggressor(d, f.val)], r)
      [] r = "units"     -> Saw(Units(s, f.val), r)
      [] r = "change"    -> Saw(Change(s, f.val), r)
      [] r \in Book      -> Saw(IF d.kind = "Quote" THEN QuoteLevels(s, r, f.val)
                                ELSE SidesRead(s, r, f.val), r)

(* The venue's own clock: `ms` before `ms2`.                               *)
VenueTime(s) ==
  IF s.ns # None THEN Lesser(s.ns, MaxNano)
  ELSE IF s.ms # None THEN MillisToNanos(s.ms)
  ELSE IF s.ms2 # None THEN MillisToNanos(s.ms2) ELSE None

(* A best bid and offer is a book of one level.                            *)
Record(d, inst, s) ==
  LET top == d.need = Top
      bid == IF top THEN <<<<s.bidPrice, s.bidQty>>>> ELSE s.bids
      ask == IF top THEN <<<<s.askPrice, s.askQty>>>> ELSE s.asks
      time == VenueTime(s)
  IN CASE d.kind = "Trade" -> [kind |-> "Trade", inst |-> inst, time |-> time,
                               price |-> s.price, qty |-> s.qty, side |-> s.side]
       [] d.kind = "Quote" -> [kind |-> "Quote", inst |-> inst, time |-> time, bids |-> bid, asks |-> ask,
                               shape |-> BookShape(DepthOf(bid), DepthOf(ask)),
                               seq |-> IF top \/ "seq" \in s.have THEN s.seq ELSE None]
       [] d.kind = "Delta" -> [kind |-> "Delta", inst |-> inst, time |-> time, levels |-> SidesFinish(s),
                               bidCount |-> s.bidCount, askCount |-> s.askCount,
                               first |-> s.first, final |-> s.final, prev |-> s.prev]

(* The loop; `s0` holds what the envelope of the message already said.     *)
Scan(d, inst, s0, fields) ==
  LET after[i \in 0..Len(fields)] == IF i = 0 THEN s0 ELSE Read(d, inst, after[i - 1], fields[i])
  IN after[Len(fields)]

DecodeFrom(d, inst, s0, fields) ==
  LET s == Scan(d, inst, s0, fields) IN
  IF s.err # "" THEN Refuse(s.err)
  ELSE IF ~(d.need \subseteq s.have) THEN Refuse("Missing")
  ELSE Record(d, inst, s)

Decode(d, inst, fields) == DecodeFrom(d, inst, Blank, fields)
=============================================================================

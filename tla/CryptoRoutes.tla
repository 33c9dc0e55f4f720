---------------------------- MODULE CryptoRoutes ----------------------------
(***************************************************************************)
(* The routers of jeed-crypto: what a venue is asked for, how a message    *)
(* names the stream it belongs to, which decoder and instrument that       *)
(* selects, and what the pipeline publishes and counts.                    *)
(*                                                                         *)
(* A subscription is an instrument (venue, symbol, scale) with its         *)
(* channels and a book depth (0 for none).  The name of a stream is a      *)
(* word, the number in it (0 for none) and a symbol.  A message is its     *)
(* stream name (word "" for none), the `event` or `type` beside it, the    *)
(* fields of the envelope and data, an object, an array of objects, or the *)
(* message itself ("flat").                                                *)
(***************************************************************************)
EXTENDS CryptoDecode, TLC

CONSTANT StaleNs   \* Config::stale_ns, 0 for never

ASSUME RoutesAssumption == StaleNs \in Nat

StreamName(w, d, s) == [word |-> w, depth |-> d, symbol |-> s]

(* What to_ascii_lowercase makes of the symbols the runs use.              *)
Lower(s) == CASE s = "BTC" -> "btc" [] s = "ETH" -> "eth" [] OTHER -> s

-----------------------------------------------------------------------------
(* VenueRouter::new: the family of a venue.                                *)
Family ==
  [ BinanceSpot |-> "binance", BinanceFutures |-> "binance", Upbit |-> "upbit",
    Bithumb |-> "upbit", Okx |-> "okx", BybitSpot |-> "bybit", BybitLinear |-> "bybit",
    BitgetSpot |-> "bitget", BitgetLinear |-> "bitget", GateSpot |-> "gate",
    KucoinSpot |-> "kucoin", KucoinFutures |-> "kucoin" ]

Channels == {"trade", "bbo", "book", "delta"}
Supported ==
  [ binance |-> Channels, upbit |-> {"trade", "book"}, okx |-> {"trade", "book", "delta"},
    bybit |-> {"trade", "book"}, bitget |-> {"trade", "book"}, gate |-> {"trade", "delta"},
    kucoin |-> {"trade", "delta"} ]

(* The book depths a venue has.                                            *)
DepthOk(v) ==
  CASE Family[v] = "binance" -> {5, 10, 20}
    [] v = "BybitSpot"       -> {1, 50, 200, 1000}
    [] v = "BybitLinear"     -> {1, 50, 200, 500, 1000}
    [] Family[v] = "bitget"  -> {1, 5, 15}
    [] OTHER                 -> {}

(* route::check, for a feed of venue v: the first thing wrong.             *)
Check(v, subs) ==
  /\ v \in DOMAIN Family /\ subs # <<>>
  /\ \A i \in 1..Len(subs) :
       /\ subs[i].inst.venue = v
       /\ subs[i].channels # {} /\ subs[i].channels \subseteq Supported[Family[v]]
       /\ subs[i].depth \in DepthOk(v) \cup {0}
       /\ \A j \in 1..(i - 1) : subs[j].inst.symbol # subs[i].inst.symbol

-----------------------------------------------------------------------------
(* What each router calls the stream of a channel, and which decoder it    *)
(* picks for a stream ("" for one it does not know).                       *)
Or(n, default) == IF n = 0 THEN default ELSE n

BinanceStreams(v, sub, ch) ==
  CASE ch = "trade" -> StreamName(IF v = "BinanceSpot" THEN "trade" ELSE "aggTrade", 0, Lower(sub.inst.symbol))
    [] ch = "bbo"   -> StreamName("bookTicker", 0, Lower(sub.inst.symbol))
    [] ch = "book"  -> StreamName("depth@100ms", Or(sub.depth, 10), Lower(sub.inst.symbol))
    [] ch = "delta" -> StreamName("depth@100ms", 0, Lower(sub.inst.symbol))
BinanceSplitPrefix(n) ==   \* mutant: every depth stream is taken for a snapshot
  CASE n.word \in {"trade", "aggTrade"} -> "trade"
    [] n.word = "bookTicker" -> "bbo"
    [] n.word = "depth@100ms" -> "book"
    [] OTHER -> ""
BinanceSplit(n) ==
  CASE n.word \in {"trade", "aggTrade"} -> "trade"
    [] n.word = "bookTicker" -> "bbo"
    [] n.word = "depth@100ms" -> IF n.depth = 0 THEN "delta" ELSE "book"
    [] OTHER -> ""

UpbitCodes(sub, ch) == StreamName(IF ch = "trade" THEN "trade" ELSE "orderbook", 0, sub.inst.symbol)
UpbitRoute(n) == CASE n.word = "trade" -> "trade" [] n.word = "orderbook" -> "book" [] OTHER -> ""

OkxArgs(sub, ch) ==
  StreamName(CASE ch = "trade" -> "trades" [] ch = "book" -> "books5" [] ch = "delta" -> "books",
             0, sub.inst.symbol)
OkxRoute(n) ==
  CASE n.word = "trades" -> "trade"
    [] n.word \in {"books", "books5", "books-l2-tbt", "books50-l2-tbt"} -> "book"
    [] OTHER -> ""

BybitTopics(sub, ch) ==
  IF ch = "trade" THEN StreamName("publicTrade", 0, sub.inst.symbol)
  ELSE StreamName("orderbook", Or(sub.depth, 50), sub.inst.symbol)
BybitSplit(n) == CASE n.word = "publicTrade" -> "trade" [] n.word = "orderbook" -> "book" [] OTHER -> ""

BitgetArgs(sub, ch) ==
  IF ch = "trade" THEN StreamName("trade", 0, sub.inst.symbol)
  ELSE StreamName("books", sub.depth, sub.inst.symbol)
BitgetRoute(n) == CASE n.word = "trade" -> "trade" [] n.word = "books" -> "book" [] OTHER -> ""

GateChannels(sub, ch) ==
  StreamName(IF ch = "trade" THEN "spot.trades" ELSE "spot.order_book_update", 0, sub.inst.symbol)
GateRoute(n) ==
  CASE n.word = "spot.trades" -> "trade" [] n.word = "spot.order_book_update" -> "delta" [] OTHER -> ""

KucoinTopics(v, sub, ch) ==
  StreamName(CASE v = "KucoinSpot" /\ ch = "trade" -> "/market/match"
               [] v = "KucoinSpot" /\ ch = "delta" -> "/market/level2"
               [] v = "KucoinFutures" /\ ch = "trade" -> "/contractMarket/execution"
               [] v = "KucoinFutures" /\ ch = "delta" -> "/contractMarket/level2",
             0, sub.inst.symbol)
KucoinRoute(v, n) ==
  CASE n.word = IF v = "KucoinSpot" THEN "/market/match" ELSE "/contractMarket/execution" -> "trade"
    [] n.word = IF v = "KucoinSpot" THEN "/market/level2" ELSE "/contractMarket/level2" -> "delta"
    [] OTHER -> ""

(* VenueRouter's dispatch.                                                 *)
StreamOf(v, sub, ch) ==
  CASE Family[v] = "binance" -> BinanceStreams(v, sub, ch)
    [] Family[v] = "upbit"   -> UpbitCodes(sub, ch)
    [] Family[v] = "okx"     -> OkxArgs(sub, ch)
    [] Family[v] = "bybit"   -> BybitTopics(sub, ch)
    [] Family[v] = "bitget"  -> BitgetArgs(sub, ch)
    [] Family[v] = "gate"    -> GateChannels(sub, ch)
    [] Family[v] = "kucoin"  -> KucoinTopics(v, sub, ch)
SplitName(v, n) ==
  CASE Family[v] = "binance" -> BinanceSplit(n)
    [] Family[v] = "upbit"   -> UpbitRoute(n)
    [] Family[v] = "okx"     -> OkxRoute(n)
    [] Family[v] = "bybit"   -> BybitSplit(n)
    [] Family[v] = "bitget"  -> BitgetRoute(n)
    [] Family[v] = "gate"    -> GateRoute(n)
    [] Family[v] = "kucoin"  -> KucoinRoute(v, n)

(* The subscription a name belongs to, 0 for none.  Binance compares the   *)
(* lower-cased symbols.                                                    *)
Lookup(v, subs, symbol) ==
  LET hit == {i \in 1..Len(subs) : symbol = IF Family[v] = "binance" THEN Lower(subs[i].inst.symbol)
                                            ELSE subs[i].inst.symbol}
  IN IF hit = {} THEN 0 ELSE Min(hit)

(* Acknowledgements and errors carry an event of their own.                *)
Answers(v, e) ==
  CASE Family[v] \in {"okx", "bitget"} -> e # ""
    [] Family[v] = "gate"   -> e \notin {"", "update"}
    [] Family[v] = "kucoin" -> e \notin {"", "message"}
    [] OTHER -> FALSE

-----------------------------------------------------------------------------
(* From a message to records.                                              *)
TableOf(v, what) ==
  CASE v = "BinanceSpot" -> (CASE what = "trade" -> BinanceSpotTrade [] what = "bbo" -> BinanceSpotBbo
                               [] what = "book" -> BinanceSpotSnapshot [] what = "delta" -> BinanceSpotDelta)
    [] v = "BinanceFutures" -> (CASE what = "trade" -> BinanceFuturesTrade [] what = "bbo" -> BinanceFuturesBbo
                                  [] what = "book" -> BinanceFuturesSnapshot
                                  [] what = "delta" -> BinanceFuturesDelta)
    [] Family[v] = "upbit"  -> IF what = "trade" THEN UpbitTrade ELSE UpbitSnapshot
    [] Family[v] = "okx"    -> OkxTrade
    [] Family[v] = "bybit"  -> BybitTrade
    [] Family[v] = "bitget" -> BitgetTrade
    [] Family[v] = "gate"   -> IF what = "trade" THEN GateTrade ELSE GateDelta
    [] v = "KucoinSpot"     -> IF what = "trade" THEN KucoinSpotTrade ELSE KucoinSpotDelta
    [] v = "KucoinFutures"  -> IF what = "trade" THEN KucoinFuturesTrade ELSE KucoinFuturesDelta

Published(r) == IF Accepted(r) THEN [records |-> <<r>>, err |-> ""] ELSE [records |-> <<>>, err |-> r.err]
Nothing == [records |-> <<>>, err |-> ""]
RouteErr(e) == [records |-> <<>>, err |-> e]

(* publish_batch: one record an entry, until one is refused.               *)
PublishBatch(d, inst, items) ==
  LET out(i) == Decode(d, inst, items[i])
      refused == {i \in 1..Len(items) : ~Accepted(out(i))}
      n == IF refused = {} THEN Len(items) ELSE Min(refused) - 1
  IN [records |-> [i \in 1..n |-> out(i)], err |-> IF refused = {} THEN "" ELSE out(n + 1).err]

(* The books of OKX, Bybit and Bitget say themselves whether they are a    *)
(* snapshot or a change; a Bybit update id of 1 means a rebuilt book.      *)
OkxBook(inst, m) ==
  IF m.action \notin {"", "snapshot", "update"} THEN Refuse("Unexpected")
  ELSE IF m.data.form # "array" \/ m.data.items = <<>> THEN Refuse("Missing")
  ELSE Decode(IF m.action = "update" THEN OkxDelta ELSE OkxSnapshot, inst, m.data.items[1])

BybitBook(inst, m) ==
  LET body == m.data.items[1]
      ids == {f \in Range(body) : f.key = "u"}
      rebuilt == \E f \in ids : f.val = 1
      s0 == [Blank EXCEPT !.ms = m.ms, !.ms2 = m.ms2]
  IN IF m.action \notin {"", "snapshot", "delta"} THEN Refuse("Unexpected")
     ELSE IF m.data.form # "object" \/ m.action = "" \/ ids = {} THEN Refuse("Missing")
     ELSE DecodeFrom(IF m.action = "snapshot" \/ rebuilt THEN BybitSnapshot ELSE BybitDelta,
                     inst, s0, body)

BitgetBook(inst, m) ==
  IF m.action \notin {"", "snapshot", "update"} THEN Refuse("Unexpected")
  ELSE IF m.action = "" \/ m.data.form # "array" \/ m.data.items = <<>> THEN Refuse("Missing")
  ELSE Decode(IF m.action = "update" THEN BitgetDelta ELSE BitgetSnapshot, inst, m.data.items[1])

RouteTo(v, what, inst, m) ==
  LET fam == Family[v] IN
  IF fam \in {"okx", "bybit", "bitget"} /\ what = "trade"
  THEN IF m.data.form # "array" THEN RouteErr("Missing")
       ELSE PublishBatch(TableOf(v, what), inst, m.data.items)
  ELSE CASE fam = "okx"    -> Published(OkxBook(inst, m))
         [] fam = "bybit"  -> Published(BybitBook(inst, m))
         [] fam = "bitget" -> Published(BitgetBook(inst, m))
         [] OTHER -> IF m.data.form \notin {"object", "flat"} THEN RouteErr("Missing")
                     ELSE Published(Decode(TableOf(v, what), inst, m.data.items[1]))

(* Some routers look for the data before they pick a decoder.              *)
NoData(v, m) ==
  CASE Family[v] \in {"binance", "gate"} -> m.data.form # "object"
    [] Family[v] \in {"okx", "bitget"}   -> m.data.form = "none"
    [] OTHER -> FALSE

(* The routers' `route`: what is not a message of a subscribed stream is   *)
(* no error.  The symbol the decoders check once more in the envelope      *)
(* (`arg`, `topic`) is the one the instrument was found by.                *)
Route(v, subs, m) ==
  LET what == SplitName(v, m.name)
      i == Lookup(v, subs, m.name.symbol)
  IN IF Answers(v, m.event) \/ m.name.word = "" \/ NoData(v, m) \/ what = "" \/ i = 0
     THEN Nothing
     ELSE RouteTo(v, what, subs[i].inst, m)

(* The start books: which instruments have one, and its decoder.           *)
RestBooks(v, subs) ==
  IF Family[v] \in {"gate", "kucoin"} THEN {i \in 1..Len(subs) : "delta" \in subs[i].channels} ELSE {}
RouteRest(v, subs, i, fields) ==
  Published(Decode(CASE v = "GateSpot" -> GateRest [] v = "KucoinSpot" -> KucoinSpotRest
                     [] v = "KucoinFutures" -> KucoinFuturesRest, subs[i].inst, fields))

(* mark_stale, on every record on its way to the ring.                     *)
MarkStale(r, recv) ==
  LET stale == StaleNs # 0 /\ r.time # None /\ recv - r.time > StaleNs
  IN [x \in DOMAIN r \cup {"stale"} |-> IF x = "stale" THEN stale ELSE r[x]]

(* Pipeline::guarded and ::book: what reaches the ring and what is counted. *)
Guarded(routed, recv) ==
  LET out == [i \in 1..Len(routed.records) |-> MarkStale(routed.records[i], recv)] IN
  [ ring |-> out, err |-> routed.err,
    published |-> IF routed.err = "" THEN Len(out) ELSE 0,
    failed |-> IF routed.err = "" THEN 0 ELSE 1,
    stale |-> Cardinality({i \in 1..Len(out) : out[i].stale}) ]
=============================================================================

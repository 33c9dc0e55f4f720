------------------------------ MODULE MCCodecs ------------------------------
(* The inputs of Codecs that TLC enumerates.                               *)
EXTENDS Codecs

MCTables ==
  { BinanceSpotTrade, BinanceSpotBbo, BinanceSpotSnapshot, BinanceSpotDelta,
    BinanceFuturesTrade, BinanceFuturesBbo, BinanceFuturesSnapshot, BinanceFuturesDelta,
    UpbitTrade, UpbitSnapshot, OkxTrade, OkxSnapshot, OkxDelta, BybitTrade, BybitSnapshot,
    BybitDelta, BitgetTrade, BitgetSnapshot, BitgetDelta, BitgetRest, GateTrade, GateDelta,
    GateRest, KucoinSpotTrade, KucoinSpotDelta, KucoinSpotRest, KucoinFuturesTrade,
    KucoinFuturesDelta, KucoinFuturesRest }

Inst(v, s, n) == [venue |-> v, symbol |-> s, scale |-> n]
MCInstruments == {Inst("Okx", "BTC", 1)}

(* Sides up to one level past the record's limits, levels without a        *)
(* quantity, a level that does not parse where it is read and where not.   *)
Sides ==
  { <<>>, << <<5, 1>> >>, << <<5, 0>> >>, << <<5, 0>>, <<4, 2>> >>, << <<5, 2>>, <<4, 0>> >>,
    << <<5, 1>>, <<4, 1>>, <<3, 1>> >>, << <<Bad, 1>> >>, << <<5, 1>>, <<4, 1>>, <<3, Bad>> >> }
UnitLists == {[i \in 1..Len(b) |-> [bid |-> b[i], ask |-> a[i]]] :
                <<b, a>> \in {p \in Sides \X Sides : Len(p[1]) = Len(p[2])}}

(* The first value is the ordinary one.                                    *)
Decimal(ms, p, f, j) == [ms |-> ms, point |-> p, frac |-> f, junk |-> j]
Values(d, r) ==
  CASE r = "symbol"   -> <<"BTC", "ETH">>
    [] r \in Numbers  -> <<7, 0, Bad>>
    [] r = "side"     -> <<d.buy, d.sell, "other">>
    [] r = "dec"      -> <<Decimal(3, TRUE, <<4, 9>>, FALSE), Decimal(3, FALSE, <<>>, FALSE),
                           Decimal(3, TRUE, <<>>, FALSE), Decimal(3, TRUE, <<4>>, TRUE),
                           Decimal(9, TRUE, <<9>>, FALSE)>>
    [] r = "change"   -> <<[side |-> "buy", price |-> 5, qty |-> 1],
                           [side |-> "sell", price |-> 5, qty |-> 0],
                           [side |-> "hold", price |-> 5, qty |-> 1],
                           [side |-> "buy", price |-> Bad, qty |-> 1]>>
    [] r \in Book     -> << << <<5, 1>> >> >>
    [] r = "units"    -> << << [bid |-> <<5, 1>>, ask |-> <<6, 1>>] >> >>
    [] OTHER          -> IF r = "ms" THEN <<4, 0, 30>> ELSE <<3, 0>>

AllRoles(d) == {d.keys[k] : k \in DOMAIN d.keys}
KeyOf(d, r, short) ==
  LET ks == {k \in DOMAIN d.keys : d.keys[k] = r} IN
  IF Cardinality(ks) = 1 THEN CHOOSE k \in ks : TRUE
  ELSE CHOOSE k \in ks : k \in {"l", "tp", "tv", "ab", "ttms", "cd", "tms", "obu"} <=> short

(* A message gives every role its ordinary value, except that one role is  *)
(* missing or has another, and both sides of a book take every shape.      *)
Ordinary(d) == [r \in AllRoles(d) |-> Values(d, r)[1]]
Shapes(d) ==
  LET o == Ordinary(d) IN
  {[r \in DOMAIN o \ {x} |-> o[r]] : x \in DOMAIN o}
  \cup UNION {{[o EXCEPT ![x] = Values(d, x)[i]] : i \in 1..Len(Values(d, x))} : x \in DOMAIN o}
  \cup (IF Book \subseteq DOMAIN o
        THEN {[o EXCEPT !.bids = b, !.asks = a] : b, a \in Sides} ELSE {})
  \cup (IF "units" \in DOMAIN o THEN {[o EXCEPT !.units = u] : u \in UnitLists} ELSE {})

(* Every rotation of the fields, forwards and backwards.                   *)
Turn(s, n) == SubSeq(s, n + 1, Len(s)) \o SubSeq(s, 1, n)
Orders(s) == {Turn(s, n) : n \in 0..Len(s)} \cup {Turn(Reverse(s), n) : n \in 0..Len(s)}

RoleOrder ==
  <<"symbol", "ms", "price", "qty", "bidPrice", "bids", "asks", "units", "side", "seq", "bidQty",
    "askPrice", "askQty", "first", "both", "change", "final", "ms2", "prev", "ns", "dec">>
FieldsOf(d, shape, short) ==
  LET rs == SelectSeq(RoleOrder, LAMBDA r : r \in DOMAIN shape) IN
  [i \in 1..Len(rs) |-> Field(KeyOf(d, rs[i], short), shape[rs[i]])]

MCBodies(d, inst) ==
  UNION {Orders(FieldsOf(d, shape, short) \o <<Field("unknown key", 0)>>) : shape \in Shapes(d), short \in BOOLEAN}

(* Feeds: one instrument with every channel or with one, two instruments,  *)
(* and what route::check refuses: no channel, a channel or a depth the     *)
(* venue does not have, an instrument listed twice.                        *)
Sub(v, s, n, chs, d) == [inst |-> Inst(v, s, n), channels |-> chs, depth |-> d]
Depths(v) == {0, 7} \cup {CHOOSE d \in DepthOk(v) \cup {0} : d # 10 /\ (d # 0 \/ DepthOk(v) = {})}
Feeds(v) ==
  LET all == Supported[Family[v]] IN
  {<<Sub(v, "BTC", 1, chs, d)>> : chs \in {{c} : c \in Channels} \cup {{}, all}, d \in Depths(v)}
  \cup {<<Sub(v, "BTC", 1, {"trade"}, 0), Sub(v, s, 2, all, 0)>> : s \in {"BTC", "ETH"}}

(* The data of a message on a stream: well formed, or with an entry that   *)
(* does not parse.                                                         *)
BookTable(v, action) ==
  CASE Family[v] = "okx"    -> IF action = "update" THEN OkxDelta ELSE OkxSnapshot
    [] Family[v] = "bybit"  -> IF action = "delta" THEN BybitDelta ELSE BybitSnapshot
    [] Family[v] = "bitget" -> IF action = "update" THEN BitgetDelta ELSE BitgetSnapshot
    [] OTHER -> TableOf(v, "book")
Body(d, symbol) ==
  LET o == Ordinary(d) IN FieldsOf(d, [r \in DOMAIN o |-> IF r = "symbol" THEN symbol ELSE o[r]], FALSE)
Broken(d) == FieldsOf(d, [r \in {} |-> 0], FALSE)
Batches(v) == Family[v] \in {"okx", "bybit", "bitget"}
Actions(v) == CASE Family[v] = "okx" -> {"", "snapshot", "update"} [] Family[v] = "bitget" -> {"snapshot", "update"}
                [] Family[v] = "bybit" -> {"snapshot", "delta", "rebuilt"} [] OTHER -> {""}
DataOf(v, symbol, ch, action, good) ==
  LET trade == Batches(v) /\ ch = "trade"
      d == IF Batches(v) /\ ~trade THEN BookTable(v, action) ELSE TableOf(v, ch)
      o == Body(d, symbol)
      b == IF action = "rebuilt" THEN [i \in 1..Len(o) |-> IF o[i].key = "u" THEN Field("u", 1) ELSE o[i]] ELSE o
  IN [ form  |-> CASE trade -> "array" [] Family[v] \in {"okx", "bitget"} -> "array"
                   [] Family[v] = "upbit" -> "flat" [] OTHER -> "object",
       items |-> IF trade THEN <<b, IF good THEN b ELSE Broken(d), b>> ELSE <<IF good THEN b ELSE Broken(d)>> ]

Msg(name, event, action, data) ==
  [name |-> name, event |-> event, action |-> action, data |-> data, ms |-> 4, ms2 |-> None]
EventOf(v) == CASE v = "GateSpot" -> "update" [] Family[v] = "kucoin" -> "message" [] OTHER -> ""

MCMessages ==
  UNION {
    {[venue |-> v, subs |-> subs, index |-> i, channel |-> ch, good |-> good, recv |-> recv,
      msg |-> Msg(StreamOf(v, subs[i], ch), EventOf(v), IF act = "rebuilt" THEN "delta" ELSE act,
                  DataOf(v, subs[i].inst.symbol, ch, act, good))] :
       i \in {j \in 1..Len(subs) : ch \in subs[j].channels},
       good \in BOOLEAN, recv \in {50, 70}, act \in Actions(v)}
    : <<v, subs, ch>> \in UNION {{v} \X Feeds(v) \X Supported[Family[v]] : v \in DOMAIN Family}}
  \cup UNION {   \* acknowledgements, streams and symbols nobody asked for
    {[venue |-> v, subs |-> <<Sub(v, "BTC", 1, {"trade"}, 0)>>, index |-> 0, channel |-> "", good |-> TRUE,
      recv |-> 50, msg |-> Msg(n, e, "", [form |-> "none", items |-> <<>>])] :
       <<n, e>> \in {<<StreamName("", 0, ""), "subscribe">>, <<StreamName("noise", 0, "BTC"), "">>,
                     <<StreamOf(v, Sub(v, "ETH", 1, {"trade"}, 0), "trade"), "">>}}
    : v \in DOMAIN Family}

MCRestBodies ==
  UNION {{[venue |-> v, subs |-> <<Sub(v, "ETH", 1, {"trade"}, 0), Sub(v, "BTC", 2, {"delta"}, 0)>>,
           fields |-> f, recv |-> 50] :
            f \in UNION {Orders(Body(d, "BTC")) : d \in {GateRest, KucoinSpotRest, KucoinFuturesRest}}}
         : v \in {"GateSpot", "KucoinSpot", "KucoinFutures"}}

-----------------------------------------------------------------------------
(* One or two short FIX messages, a long one, one with a body too long and *)
(* one without a body, cut anywhere, with one byte changed or none, and    *)
(* one whose BodyLength is padded with zeros.                              *)
BodyOf(n) == [i \in 1..n |-> IF i = n THEN SOH ELSE Zero + i]
Text(n, w) == [i \in 1..w |-> Zero + ((n \div 10^(w - i)) % 10)]
Padded(n, w) ==
  LET m == [begin |-> <<70>>, digits |-> Text(n, w), body |-> BodyOf(n), sum |-> <<>>]
  IN [m EXCEPT !.sum = Text(Checksum(Summed(m)), 3)]
FixMsg(n) == Padded(n, IF n < 10 THEN 1 ELSE 2)
Replaced(s, i, b) == IF i \in DOMAIN s THEN [s EXCEPT ![i] = b] ELSE s
Sent(ms) == FoldLeft(LAMBDA a, m : a \o Encode(m), <<>>, ms)
MCStreams ==
  UNION {LET bytes == Sent(ms) IN
         {[messages |-> ms, flaw |-> p[1], bytes |-> FirstOf(Replaced(bytes, p[1], p[2]), n)] :
            n \in 0..BufferLen,
            p \in {<<0, 0>>} \cup {q \in (1..20) \X {SOH, Zero + 9, 2} : bytes[q[1]] # q[2]}}
         : ms \in {<<FixMsg(4), FixMsg(3)>>, <<FixMsg(12)>>, <<FixMsg(16)>>}}
  \cup {[messages |-> <<FixMsg(k)>>, flaw |-> 0, bytes |-> FirstOf(Encode(FixMsg(k)), n)] :
          k \in {0, 13}, n \in 0..BufferLen}
  \cup {[messages |-> <<Padded(4, w)>>, flaw |-> 0, bytes |-> FirstOf(Encode(Padded(4, w)), n)] :
          w \in 3..(NumberLen + 1), n \in 0..BufferLen}

(* Decimals around the scale and the largest number, dates around leap     *)
(* years and the last day, times that are none, entries with and without   *)
(* each field.                                                             *)
Dec(neg, int, frac) == [neg |-> neg, int |-> int, frac |-> frac]
NotADigit == 99
Decimals ==
  {Dec(neg, int, frac) : neg \in BOOLEAN, int \in {<<>>, <<0>>, <<1>>, <<1, 2>>, <<0, 1, 2>>, <<1, 3>>, <<NotADigit>>},
     frac \in {<<>>, <<7>>, <<8>>, <<7, 0>>, <<0, 7>>, <<NotADigit>>, <<0, 0>>, <<7, 7>>}}
Day(y, m, d) == [y |-> y, m |-> m, d |-> d]
Dates == {Day(y, m, d) : y \in {1969, 1970, 1972, 1999, 2000, 2024, 2100}, m \in 0..13, d \in {0, 1, 28, 29, 31, 32}}
         \cup {Day(2554, 7, d) : d \in 20..22}
Clock(h, m, s, f) == [h |-> h, m |-> m, s |-> s, frac |-> f, point |-> f # <<>>]
Times == {Clock(h, m, s, f) : h \in {0, 23, 24}, m \in {0, 34, 60}, s \in {0, 33, 60, 61},
                              f \in {<<>>, <<7>>, <<7, 1>>, <<7, 0>>, <<7, 0, 0>>, <<NotADigit>>}}
         \cup {[Clock(1, 1, 1, <<>>) EXCEPT !.point = TRUE]}

One == Dec(FALSE, <<1>>, <<>>)
Two == Dec(FALSE, <<2>>, <<5>>)
Entry(t) == [type |-> t, price |-> One, size |-> Two]
Unsized(t) == [type |-> t, price |-> Two]
Ranked(t, n) == [type |-> t, price |-> Two, size |-> One, level |-> n]
Timed(d, t) == [type |-> "trade", price |-> One, size |-> One, date |-> d, time |-> t]
Noon == Clock(12, 0, 0, <<>>)
Morning == [date |-> Day(2024, 2, 29), time |-> Clock(9, 0, 0, <<5>>)]
SomeEntries ==
  {Entry("bid"), Entry("offer"), Entry("trade"), Entry("other"), Unsized("bid"), Unsized("trade"),
   Ranked("bid", 1), Ranked("bid", 3), Ranked("offer", 0),
   [type |-> "trade", price |-> One, size |-> One, symbol |-> "ETH"],
   [type |-> "trade", price |-> One, size |-> One, symbol |-> "A LONG NAME"]}
OneEntry ==
  {[Entry("trade") EXCEPT !.price = d, !.size = d] : d \in Decimals}
  \cup {Timed(d, Clock(23, 59, 60, <<5>>)) : d \in Dates}
  \cup {Timed(d, t) : d \in {Day(2024, 2, 29), Day(2554, 7, 21)}, t \in Times}

(* The fields of an entry, its delimiter first and the others turned.      *)
TagOrder == <<"price", "size", "date", "time", "level", "symbol">>
EntryFields(type, e, turn) ==
  LET tags == SelectSeq(TagOrder, LAMBDA t : t \in DOMAIN e)
      rest == Turn(tags, turn % (Len(tags) + 1))
      names == (IF type = "X" THEN <<"action">> ELSE <<>>) \o <<"type">> \o rest
  IN [i \in 1..Len(names) |-> [tag |-> names[i], text |-> IF names[i] = "action" THEN "New" ELSE e[names[i]]]]
MessageFields(type, symbol, es, count, sent, turn) ==
  <<[tag |-> "msgtype", text |-> type], [tag |-> "seq", text |-> 7], [tag |-> "sender", text |-> 0],
    [tag |-> "sent", text |-> sent]>>
  \o (IF symbol = "" THEN <<>> ELSE <<[tag |-> "symbol", text |-> symbol]>>)
  \o <<[tag |-> "count", text |-> count]>>
  \o FoldLeft(LAMBDA a, e : a \o EntryFields(type, e, turn), <<>>, es)

FixInput(type, symbol, es, miss, default, sent, turn) ==
  [type |-> type, symbol |-> symbol, entries |-> es, count |-> Len(es) + miss, default |-> default, sent |-> sent,
   scales |-> [price |-> 1, qty |-> 1], fields |-> MessageFields(type, symbol, es, Len(es) + miss, sent, turn)]
MCFixMessages ==
  {FixInput(type, "BTC", <<a, b, c>>, 0, default, Morning, IF default = None THEN 0 ELSE 1) :
     type \in {"W", "X"}, default \in {None, 4}, a, b, c \in SomeEntries}
  \cup {FixInput(type, symbol, es, miss, default, Morning, 0) :
          <<miss, symbol, default>> \in {<<0, "BTC", None>>, <<0, "", None>>, <<0, "A LONG NAME", 4>>, <<1, "BTC", 4>>},
          type \in {"W", "X"},
          es \in {<<>>} \cup {<<a, b>> : a, b \in SomeEntries} \cup {<<a, a, a, a>> : a \in SomeEntries}}
  \cup {FixInput(type, "BTC", <<e>>, 0, 4, Morning, turn) : type \in {"W", "X"}, turn \in 0..1, e \in OneEntry}
  \cup {FixInput(type, "BTC", <<Entry("bid")>>, 0, None, sent, 0) :
          type \in {"W", "X"}, sent \in [date : Dates, time : {Noon}] \cup [date : {Day(2024, 2, 29)}, time : Times]}
MCLongSymbols == {"A LONG NAME"}

-----------------------------------------------------------------------------
(* KRX datagrams.  Every field of an ordinary one has a value of its own.  *)
Written(s) == [kind |-> "text", of |-> s]
Junk == [kind |-> "junk", of |-> "?"]
TimeAt(h, m, s, sub) == [kind |-> "time", h |-> h, m |-> m, s |-> s, sub |-> sub]
OrdinaryField(t, isin, name, k) ==
  CASE name \in TimeNames  -> TimeAt(9, 0, k % 60, k)
    [] name = "isin"       -> isin
    [] name = "aggressor"  -> Written("1")
    [] name \in PriceNames -> FixedNum(100 + k, PointOf(t, isin))
    [] name \in YieldNames -> FixedNum(k, 6)
    [] name \in CountNames -> FixedNum(k, 0)
    [] OTHER               -> Written(name)
Places == [n \in DOMAIN Interfaces |->
             [nm \in {Interfaces[n][i].name : i \in 1..Len(Interfaces[n])} |->
                CHOOSE i \in 1..Len(Interfaces[n]) : Interfaces[n][i].name = nm]]
OrdinaryFields(t, n, isin) == [nm \in DOMAIN Places[n] |-> OrdinaryField(t, isin, nm[1], Places[n][nm])]

OtherFields(v) ==
  CASE v.kind = "num"  -> {BlankField, Junk, FixedNum(v.of, v.point + 1), FixedNum(0, v.point), FixedNum(-5, v.point),
                           FixedNum(MaxYield + 1, v.point), FixedNum(-MaxYield - 2, v.point),
                           FixedNum(ExtWord + 3, v.point)}
    [] v.kind = "time" -> {BlankField, Junk} \cup {TimeAt(h, m, s, 999) : <<h, m, s>> \in
                           {<<23, 59, 59>>, <<24, 0, 0>>, <<30, 0, 0>>, <<19, 60, 0>>, <<9, 0, 60>>}}
    [] OTHER           -> {BlankField, Written("1"), Written("2")}

Isin(s) == Written(s)
KrxInput(t, interface, values, len, end) ==
  [trcode |-> t, layout |-> interface, values |-> values, len |-> len, end |-> end,
   allowed |-> {"KR4101", "KR4169", "KR4A69"}]
Groups == {<<"01", "F">>, <<"04", "F">>, <<"05", "F">>, <<"06", "F">>, <<"18", "F">>, <<"01", "S">>, <<"01", "Q">>,
           <<"01", "X">>, <<"02", "S">>, <<"05", "S">>, <<"01", "B">>, <<"01", "K">>, <<"01", "M">>, <<"04", "B">>}
MCKrxTrcodes == {<<c, g[1], g[2]>> : c \in {"B6", "B7", "A3", "G7", "V1", "Q2", "M4", "X9"}, g \in Groups}
LayoutsOf(t) == IF InterfaceOf(t) = "" THEN DOMAIN Interfaces ELSE {InterfaceOf(t)}
SampleTrcodes ==   \* one an interface, and two prices with a point
  {<<"B6", "01", "S">>, <<"B7", "02", "S">>, <<"A3", "01", "Q">>, <<"M4", "01", "F">>, <<"B6", "01", "B">>,
   <<"A3", "01", "K">>, <<"G7", "01", "B">>, <<"B6", "01", "F">>, <<"B6", "04", "F">>, <<"A3", "01", "F">>,
   <<"A3", "18", "F">>, <<"G7", "01", "F">>, <<"G7", "05", "F">>, <<"Q2", "01", "F">>, <<"V1", "04", "F">>}
Emptied(values, names, levels) ==
  [nm \in DOMAIN values |-> IF nm[1] \in names /\ nm[2] \in levels THEN FixedNum(0, values[nm].point) ELSE values[nm]]

MCDatagrams(t) ==
  {KrxInput(t, n, OrdinaryFields(t, n, Isin(i)), Lengths[n], end) :
     n \in LayoutsOf(t), end \in BOOLEAN,
     i \in {"KR4101"} \cup IF InterfaceOf(t) = "" THEN {} ELSE {"KR4169", "KR4A69", "KR4XXX"}}
  \cup (IF InterfaceOf(t) = "" THEN {}
        ELSE {KrxInput(t, n, OrdinaryFields(t, n, Isin("KR4101")), len, TRUE) :
                n \in LayoutsOf(t), len \in {4, 5} \cup Range(Lengths)})
  \cup (IF t \notin SampleTrcodes THEN {}
        ELSE LET n == InterfaceOf(t)
                 o == OrdinaryFields(t, n, Isin("KR4101"))
             IN UNION {{KrxInput(t, n, [o EXCEPT ![nm] = v], Lengths[n], TRUE) : v \in OtherFields(o[nm])} : nm \in DOMAIN o}
                \cup {KrxInput(t, n, Emptied(o, names, ls), Lengths[n], TRUE) :
                        names \in {{"askQty"}, {"bidQty"}, {"askQty", "bidQty"}},
                        ls \in {k..10 : k \in 1..10} \cup {1..k : k \in 1..9}})

-----------------------------------------------------------------------------
(* Confs: a feed that is right, each of its keys missing or turned into    *)
(* something else, and pairs of feeds that meet in a name, a ring, a       *)
(* processor or a port, on boxes with and without siblings.                *)
Str(s) == [kind |-> "str", of |-> s]
Num(n) == [kind |-> "int", of |-> n]
Arr(vs) == [kind |-> "arr", of |-> vs]
Tab(t) == [kind |-> "tab", of |-> t]
Strs(ss) == Arr([i \in 1..Len(ss) |-> Str(ss[i])])
Nums(ns) == Arr([i \in 1..Len(ns) |-> Num(ns[i])])

MCRingNames == {"ring.a", "ring.b"}
MCPorts == ("239.1.1.1:1" :> 1) @@ ("239.1.1.2:1" :> 1) @@ ("239.1.1.1:2" :> 2)
MCTrcodes == {"A301S", "B601S"}
MCUrls == {"wss://venue"}
MCRestBases == {"https://venue"}

PlaceOf(name, mode, cores, ring, slots) ==
  [name |-> Str(name), mode |-> Str(mode), cores |-> Nums(cores), ring |-> Str(ring), ring_slots |-> Num(slots)]
PairOf(symbol, ch) ==
  [symbol |-> Str(symbol), price_decimals |-> Num(2), qty_decimals |-> Num(8), channels |-> Strs(<<ch>>)]
OwnKeys(family, sock) ==
  CASE family = "krx" -> [sockets |-> Strs(<<sock>>), trcodes |-> Strs(<<"A301S">>)]
    [] family = "crypto" -> [venue |-> Str("binance-spot"), instrument |-> Arr(<<Tab(PairOf("BTC", "trade"))>>)]
    [] family = "fix" -> [venue |-> Str("smbs"), host |-> Str("h"), port |-> Num(1), sender_comp_id |-> Str("S"),
                          target_comp_id |-> Str("T"), price_decimals |-> Num(8), qty_decimals |-> Num(0),
                          symbols |-> Strs(<<"BTC">>)]
FeedOf(family, place, sock) == place @@ OwnKeys(family, sock)

Changed(t, k, v) == (k :> v) @@ t
Without(t, k) == [j \in DOMAIN t \ {k} |-> t[j]]
OtherValues == <<Str(""), Str("block"), Str("ring.b"), Str("wss://venue"), Str("A LONG NAME"), Num(-1), Num(0), Num(1), Num(8), Num(9),
            Num(MaxU16 + 1), Num(MaxU32 + 1), Num(Word \div NsPerSec), Num(Word), Arr(<<>>), Nums(<<0, 1>>),
            Nums(<<MaxLogical>>), Strs(<<"239.1.1.1:1", "239.1.1.2:1">>), Strs(<<"A301S", "A301S">>),
            Strs(<<"A LONG NAME">>), Strs(<<"">>), Tab("seq" :> Num(1)),
            Arr(<<Tab(PairOf("BTC", "trade")), Tab(PairOf("BTC", "book"))>>),
            Arr(<<Tab(PairOf("A LONG NAME", "trade"))>>), Arr(<<Tab(PairOf("BTC", "tape"))>>),
            Arr(<<Tab(Changed(PairOf("BTC", "book"), "depth", Num(7)))>>), [kind |-> "bool", of |-> TRUE]>>
AllKeys(family) ==
  {"other"} \cup (CASE family = "krx" -> KrxFeedKeys [] family = "crypto" -> CryptoFeedKeys [] family = "fix" -> FixFeedKeys)

RootOf(fs) == [feed |-> Arr([i \in 1..Len(fs) |-> Tab(fs[i])])]
Boxes == {[known |-> known, siblings |-> s] : known \in BOOLEAN,
          s \in {<<{0}, {1}>>, <<{0, 1}, {0, 1}>>, <<{0, 2}, {1}, {0, 2}>>}}
Pair == {b \in Boxes : Len(b.siblings) = 2 /\ b.siblings[1] = {0}}
Families == {"krx", "crypto", "fix"}
Single(family) == FeedOf(family, PlaceOf("a", "spin", <<0>>, "ring.a", 4), "239.1.1.1:1")
MCConfs ==
  {[family |-> family, box |-> box, root |-> RootOf(<<Single(family)>>) @@ extra] :
     family \in Families, box \in Pair,
     extra \in {"feed" :> Arr(<<>>), "feed" :> Num(1), "health" :> Tab("stale_ms" :> Num(3)), "log" :> Num(3),
                "health" :> Tab("beat" :> Num(3)), "filter" :> Tab("isin" :> Str("f")), "other" :> Num(1)}}
  \cup UNION {{[family |-> family, box |-> box, root |-> RootOf(<<Without(Single(family), k)>>)] :
                 k \in AllKeys(family), box \in Pair} : family \in Families}
  \cup UNION {{[family |-> family, box |-> box, root |-> RootOf(<<Changed(Single(family), k, OtherValues[i])>>)] :
                 k \in AllKeys(family), i \in 1..Len(OtherValues), box \in Pair} : family \in Families}
  \cup {[family |-> family, box |-> box,
         root |-> RootOf(<<Single(family), FeedOf(family, PlaceOf(n, m, c, r, s), sock)>>)] :
           family \in Families, box \in Boxes, n \in {"a", "b"}, m \in {"spin", "block"},
           c \in {<<0>>, <<1>>, <<2>>, <<1, 2>>}, r \in {"ring.a", "ring.b"}, s \in {0, 3, 4},
           sock \in {"239.1.1.2:1", "239.1.1.1:2"}}
=============================================================================

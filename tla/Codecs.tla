------------------------------- MODULE Codecs -------------------------------
(***************************************************************************)
(* The pure parts of the feeds, one call at a time: a caller picks an      *)
(* input, the code answers, and the properties compare the answer with     *)
(* what the input means.                                                   *)
(***************************************************************************)
EXTENDS Conf, KrxLayouts

CONSTANTS
  Tables,        \* the decoder tables to call
  Bodies(_, _),  \* Bodies(d, inst): the field lists given to decoder d
  Instruments,   \* instruments
  Messages,      \* [venue, subs, index, channel, good, msg, recv]: messages for a router
  RestBodies,    \* [venue, subs, fields, recv]: start books
  Streams,       \* [messages, flaw, bytes]: what a FIX connection has delivered
  Confs,         \* [family, root, box]: conf files and the box they are for
  KrxTrcodes,    \* KRX trcodes
  Datagrams(_),  \* [trcode, layout, values, len, end, allowed]: datagrams of a trcode, and the ISIN filter
  FixMessages    \* [type, symbol, entries, count, scales, default, sent, fields]: FIX market data

(* What the TOML parser and Topology::detect return: an array is a list,   *)
(* an integer an integer, and a box that could be read has some processors *)
(* and no more than fit a mask.                                            *)
IsList(s) == Len(s) \in Nat /\ s = [i \in 1..Len(s) |-> s[i]]
IsTable(t) ==
  \A k \in DOMAIN t : /\ t[k].kind = "arr" => IsList(t[k].of)
                      /\ t[k].kind = "int" => t[k].of \in Int
ASSUME ConfsAssumption ==
  \A c \in Confs :
    /\ c.family \in {"krx", "crypto", "fix"}
    /\ IsList(c.box.siblings) /\ (c.box.known => Len(c.box.siblings) \in 1..MaxLogical)
    /\ IsTable(c.root)
    /\ SubTables(c.root, "feed") => \A t \in Range(Items(c.root, "feed")) : IsTable(t)

(* A FIX message on the wire, from its parts: BeginString, the digits of   *)
(* BodyLength, the body and the digits of CheckSum.                        *)
Summed(m) ==
  <<Zero + 8, EqualSign>> \o m.begin \o <<SOH, Zero + 9, EqualSign>> \o m.digits \o <<SOH>> \o m.body
Encode(m) == Summed(m) \o <<Zero + 1, Zero, EqualSign>> \o m.sum \o <<SOH>>

(* What a FIX counterparty sends is made of bytes, and arrives from the    *)
(* first message on unless one byte of it was changed.                     *)
Byte == 0..255
ASSUME StreamsAssumption ==
  \A in \in Streams :
    LET first == in.messages[1] IN
    /\ in.bytes \in Seq(Byte)
    /\ {first.begin, first.digits, first.body, first.sum} \subseteq Seq(Byte)
    /\ in.flaw = 0 => \A i \in 1..Lesser(Len(in.bytes), Len(Encode(first))) : in.bytes[i] = Encode(first)[i]

(* An object whose book sides are arrays, of the decoders that may see it. *)
IsBody(d, fields) ==
  /\ IsList(fields)
  /\ \A i \in 1..Len(fields) :
       fields[i].key \in DOMAIN d.keys /\ d.keys[fields[i].key] \in Book \cup {"units"} => IsList(fields[i].val)
DecodersOf(v, ch) ==
  CASE Family[v] = "okx" /\ ch # "trade"    -> {OkxSnapshot, OkxDelta}
    [] Family[v] = "bybit" /\ ch # "trade"  -> {BybitSnapshot, BybitDelta}
    [] Family[v] = "bitget" /\ ch # "trade" -> {BitgetSnapshot, BitgetDelta}
    [] OTHER -> {TableOf(v, ch)}

(* The messages of a feed: one of a stream it asked for, the index and the *)
(* channel telling which, or one of no stream it knows (index 0).  No two  *)
(* symbols of a Binance feed differ in their case only.                    *)
ASSUME MessagesAssumption ==
  \A in \in Messages :
    /\ IsList(in.subs) /\ IsList(in.msg.data.items) /\ in.index \in 0..Len(in.subs)
    /\ in.msg.data.form \in {"object", "flat"} => in.msg.data.items # <<>>
    /\ in.index # 0 => \A i \in 1..Len(in.msg.data.items) :
                         \A d \in DecodersOf(in.venue, in.channel) : IsBody(d, in.msg.data.items[i])
    /\ \A i, j \in 1..Len(in.subs) :
         Lower(in.subs[i].inst.symbol) = Lower(in.subs[j].inst.symbol) => in.subs[i].inst.symbol = in.subs[j].inst.symbol
    /\ IF in.index = 0
       THEN SplitName(in.venue, in.msg.name) = "" \/ Lookup(in.venue, in.subs, in.msg.name.symbol) = 0
       ELSE /\ in.channel \in in.subs[in.index].channels
            /\ in.msg.name = StreamOf(in.venue, in.subs[in.index], in.channel)
ASSUME RestAssumption ==
  \A in \in RestBodies : \A d \in {GateRest, KucoinSpotRest, KucoinFuturesRest} : IsBody(d, in.fields)

VARIABLES
  call,     \* the API and its input
  answer    \* what it returned

codecVars == <<call, answer>>

Idle == [api |-> "none"]
CodecsInit == call = Idle /\ answer = Idle

Returns(c, a) == call' = c /\ answer' = a

CallDecode ==
  /\ call = Idle
  /\ \E d \in Tables, inst \in Instruments : \E fields \in Bodies(d, inst) :
       Returns([api |-> "decode", table |-> d, inst |-> inst, fields |-> fields],
               Decode(d, inst, fields))

(* Pipeline::ingest, of a feed whose router was accepted.                  *)
CallIngest ==
  /\ call = Idle
  /\ \E m \in Messages :
       /\ Check(m.venue, m.subs)
       /\ Returns([api |-> "ingest", input |-> m], Guarded(Route(m.venue, m.subs, m.msg), m.recv))

(* Pipeline::ingest_rest, for the instruments that have a start book.      *)
CallIngestRest ==
  /\ call = Idle
  /\ \E m \in RestBodies : \E i \in RestBooks(m.venue, m.subs) :
       /\ Check(m.venue, m.subs)
       /\ Returns([api |-> "rest", input |-> m, index |-> i],
                  Guarded(RouteRest(m.venue, m.subs, i, m.fields), m.recv))

(* FrameBuffer::peek on what has arrived.                                  *)
CallPeek ==
  /\ call = Idle
  /\ \E m \in Streams : Len(m.bytes) <= BufferLen /\ Returns([api |-> "peek", input |-> m], Peek(m.bytes))

(* Pipeline::market_data with the adapter of a FIX feed.                   *)
CallFix ==
  /\ call = Idle
  /\ \E m \in FixMessages : Returns([api |-> "fix", input |-> m], Publish(m.fields, m.scales, m.default))

(* Pipeline::ingest of a KRX feed that asked for the trcode.               *)
CallKrx ==
  /\ call = Idle
  /\ \E t \in KrxTrcodes : \E m \in Datagrams(t) :
       Returns([api |-> "krx", input |-> m],
               IngestDatagram(Datagram(m.trcode, m.layout, m.values, m.len, m.end), m.allowed))

(* The main of a feed process, from its conf to its feeds.                 *)
CallMain ==
  /\ call = Idle
  /\ \E c \in Confs : Returns([api |-> "main", input |-> c], Main(c.family, c.root, c.box))

Done == call # Idle /\ call' = Idle /\ answer' = Idle

CodecsNext == CallDecode \/ CallIngest \/ CallIngestRest \/ CallPeek \/ CallFix \/ CallKrx \/ CallMain \/ Done

CodecsSpec == CodecsInit /\ [][CodecsNext]_codecVars

-----------------------------------------------------------------------------
(* What a message means, by looking its fields up.                         *)
Roles(d, fields) == {d.keys[f.key] : f \in {g \in Range(fields) : g.key \in DOMAIN d.keys}}
ValueOf(d, fields, r) ==
  (CHOOSE f \in Range(fields) : f.key \in DOMAIN d.keys /\ d.keys[f.key] = r).val

Meaning(d, inst, fields) ==
  LET has(r) == r \in Roles(d, fields)
      val(r) == ValueOf(d, fields, r)
      get(r, default) == IF has(r) THEN val(r) ELSE default
      side(r, x) == IF has(r) THEN val(r) ELSE IF has("units") THEN [i \in 1..Len(val("units")) |-> val("units")[i][x]]
                    ELSE <<>>
      change == IF has("change") THEN val("change") ELSE [side |-> "", price |-> 0, qty |-> 0]
      bids == IF d.need = Top THEN <<<<get("bidPrice", 0), get("bidQty", 0)>>>>
              ELSE IF change.side = "buy" THEN <<<<change.price, change.qty>>>> ELSE side("bids", "bid")
      asks == IF d.need = Top THEN <<<<get("askPrice", 0), get("askQty", 0)>>>>
              ELSE IF change.side = "sell" THEN <<<<change.price, change.qty>>>> ELSE side("asks", "ask")
      room == IF d.kind = "Quote" THEN MaxDepth ELSE MaxDelta
      bid == FirstOf(bids, room)
      ask == FirstOf(asks, room)
      wrong == \/ has("symbol") /\ val("symbol") # inst.symbol
               \/ \E r \in Numbers : has(r) /\ val(r) = Bad
               \/ BadLevels(bid, room) \/ BadLevels(ask, room)
               \/ d.kind = "Delta" /\ Len(bids) + Len(asks) > MaxDelta
               \/ has("change") /\ change.side \notin {"buy", "sell"}
               \/ ~(d.need \subseteq Roles(d, fields))
      filled(ls) == Max({0} \cup {i \in 1..Len(ls) : ls[i][2] > 0})
      time == IF has("ns") THEN val("ns")
              ELSE IF has("dec") THEN DecimalMillis(val("dec"))
              ELSE IF has("ms") THEN MillisToNanos(val("ms"))
              ELSE IF has("ms2") THEN MillisToNanos(val("ms2")) ELSE None
      id(r) == get("both", get(r, 0))
  IN IF wrong THEN [kind |-> "none"]
     ELSE CASE d.kind = "Trade" ->
            [kind |-> "Trade", inst |-> inst, time |-> time, price |-> val("price"), qty |-> val("qty"),
             side |-> CASE get("side", "") = d.buy -> "buy" [] get("side", "") = d.sell -> "sell"
                        [] OTHER -> "unknown"]
          [] d.kind = "Quote" ->
            [kind |-> "Quote", inst |-> inst, time |-> time, bids |-> bid, asks |-> ask,
             shape |-> [depth |-> Max({filled(bid), filled(ask)}),
                        flags |-> {x \in {"BID_EMPTY", "ASK_EMPTY"} :
                                     filled(IF x = "BID_EMPTY" THEN bid ELSE ask) = 0}],
             seq |-> get("seq", IF d.need = Top THEN 0 ELSE None)]
          [] d.kind = "Delta" ->
            [kind |-> "Delta", inst |-> inst, time |-> time, bids |-> bids, asks |-> asks,
             first |-> id("first"), final |-> id("final"), prev |-> get("prev", None)]

(* A record as its reader sees it.                                         *)
Seen(r) ==
  IF r.kind # "Delta" THEN r
  ELSE [kind |-> "Delta", inst |-> r.inst, time |-> r.time, bids |-> DeltaBids(r), asks |-> DeltaAsks(r),
        first |-> r.first, final |-> r.final, prev |-> r.prev]

(* Every crypto decoder gives a message the one record its fields mean, in *)
(* whatever order they arrive, or refuses it in every order: a reader      *)
(* finds each side's levels though asks came first, none is lost at the    *)
(* record's limits, the depth is that of the deepest level with a          *)
(* quantity, and the record validates (the decode functions).  A KRX       *)
(* datagram gives the record of the documented fields of its interface,    *)
(* and is refused when its length, its last byte or a field that is read   *)
(* is not what the interface says; the instrument the filter judged is the *)
(* one of the record (dispatch::decode, Pipeline::ingest).  A crypto       *)
(* message of several entries gives a record an entry, those before an     *)
(* entry that does not parse included (publish_batch).                     *)
DecodesAgree ==
  /\ call.api = "decode" =>
       LET m == Meaning(call.table, call.inst, call.fields) IN
       IF m.kind = "none" THEN ~Accepted(answer) ELSE Validate(answer) /\ Seen(answer) = m
  /\ call.api = "krx" =>
       LET in == call.input
           interface == InterfaceOf(in.trcode)
           whole == interface # "" /\ in.len = Lengths[interface]
       IN IF whole /\ interface # "IFMSRPD0019" /\ in.values[<<"isin", 0>>].of \notin in.allowed
          THEN answer = Refuse("FilteredIsin")
          ELSE IF whole /\ in.end /\ KrxMeaning(in.trcode, interface, in.values).kind # "none"
          THEN answer = KrxMeaning(in.trcode, interface, in.values)
          ELSE ~Accepted(answer)
  /\ call.api = "ingest" =>
       LET in == call.input
           entries == Len(in.msg.data.items)
       IN /\ Len(answer.ring) = IF in.good THEN entries ELSE IF entries > 1 THEN 1 ELSE 0
          /\ answer.err = "" <=> in.good

(* A message of a stream the router asked for comes back as records of the *)
(* instrument and the channel it was asked for, and of no other, each      *)
(* within the limits its readers check; a book of OKX, Bybit or Bitget is  *)
(* a delta exactly when it says it changes the last one, and does not      *)
(* begin anew with update id 1; anything else is ignored; a start book is  *)
(* a quote of the instrument it was fetched for (streams and split_stream, *)
(* args, topics, book::decode, publish_batch, route_rest, Sides).          *)
Rebuilds(v, m) == Family[v] = "bybit" /\ \E f \in Range(m.data.items[1]) : f.key = "u" /\ f.val = 1
IsDelta(v, ch, m) ==
  IF Family[v] \in {"okx", "bybit", "bitget"} THEN m.action \in {"update", "delta"} /\ ~Rebuilds(v, m)
  ELSE ch = "delta"
KindOf(v, ch, m) == IF ch = "trade" THEN "Trade" ELSE IF IsDelta(v, ch, m) THEN "Delta" ELSE "Quote"
StreamsComeBack ==
  /\ call.api = "ingest" =>
       LET in == call.input IN
       \A i \in 1..Len(answer.ring) : /\ in.index # 0
                                      /\ answer.ring[i].inst = in.subs[in.index].inst
                                      /\ answer.ring[i].kind = KindOf(in.venue, in.channel, in.msg)
                                      /\ Validate(answer.ring[i])
  /\ call.api = "rest" => \A i \in 1..Len(answer.ring) :
                             /\ answer.ring[i].inst = call.input.subs[call.index].inst
                             /\ answer.ring[i].kind = "Quote" /\ Validate(answer.ring[i])

-----------------------------------------------------------------------------
(* The form FIX gives a message, its BodyLength padded with zeros to no    *)
(* more digits than parse_u64 takes.                                       *)
WellFormed(m) ==
  /\ m.begin # <<>> /\ SOH \notin Range(m.begin) /\ Len(m.digits) <= NumberLen
  /\ Len(m.body) \in 1..MaxBody /\ m.body[Len(m.body)] = SOH /\ Number(m.digits) = Len(m.body)
  /\ Len(m.sum) = 3 /\ Number(m.sum) # None /\ Number(m.sum) = Checksum(Summed(m))

(* The parts of the bytes b that frame read as f.                          *)
PartsOf(b, f) ==
  [begin |-> f.begin, digits |-> SubSeq(b, Len(f.begin) + 6, Len(b) - Len(f.body) - 8),
   body |-> f.body, sum |-> SubSeq(b, Len(b) - 3, Len(b) - 1)]

(* However the bytes of a connection are cut, what has arrived is a whole  *)
(* message or a wait for the rest of it, never another message; what is    *)
(* accepted is a message byte for byte, its length and its checksum the    *)
(* ones it states; and one that cannot fit ends the connection instead of  *)
(* waiting for ever (frame, FrameBuffer::peek).                            *)
FramesWhole ==
  call.api = "peek" =>
    LET in == call.input
        n == Len(in.bytes)
        first == in.messages[1]
        soon == Len(first.begin) <= MaxBegin /\ Len(first.digits) <= MaxDigits /\ n < BufferLen
    IN /\ Accepted(answer) =>
            LET b == SubSeq(in.bytes, 1, answer.len) IN
            answer.len \in 1..n /\ WellFormed(PartsOf(b, answer)) /\ b = Encode(PartsOf(b, answer))
       /\ ~Accepted(answer) /\ answer.err = "Incomplete" => n < BufferLen
       /\ in.flaw = 0 /\ WellFormed(first) =>
            IF n >= Len(Encode(first))
            THEN answer = [begin |-> first.begin, body |-> first.body, len |-> Len(Encode(first))]
            ELSE ~Accepted(answer) /\ (soon => answer.err = "Incomplete")

-----------------------------------------------------------------------------
(* What a market data message means, from the entries it was made of.      *)
Exact(t, scale) ==   \* the decimal at that scale, <<>> if it has none
  LET n == Len(t.frac)
      value == FoldLeft(LAMBDA a, d : a * 10 + d, 0, t.int \o t.frac)
      cut == 10^(IF n > scale THEN n - scale ELSE 0)
      v == (value \div cut) * 10^(IF n < scale THEN scale - n ELSE 0)
  IN IF t.int \o t.frac = <<>> \/ ~(Range(t.int \o t.frac) \subseteq 0..9) \/ value % cut # 0 \/ v > MaxI64
     THEN <<>> ELSE <<IF t.neg THEN -v ELSE v>>

Leap(y) == y % 4 = 0 /\ (y % 100 # 0 \/ y % 400 = 0)
MonthDays(y, m) == IF m = 2 THEN (IF Leap(y) THEN 29 ELSE 28) ELSE IF m \in {4, 6, 9, 11} THEN 30 ELSE 31
DayOf(t) ==
  365 * (t.y - 1970) + Cardinality({y \in 1970..(t.y - 1) : Leap(y)})
  + MapThenSumSet(LAMBDA m : MonthDays(t.y, m), 1..(t.m - 1)) + t.d - 1
TimeOf(t) == (t.h * 3600 + t.m * 60 + t.s) * 10^NsDigits
             + FoldLeft(LAMBDA a, i : a + t.frac[i] * 10^(NsDigits - i), 0, [i \in 1..Len(t.frac) |-> i])

RealDate(t) == t.y >= 1970 /\ t.m \in 1..12 /\ t.d \in 1..31 /\ DayOf(t) <= LastDay
RealTime(t) ==
  /\ t.h \in 0..23 /\ t.m \in 0..59 /\ t.s \in 0..60
  /\ Len(t.frac) \in (IF t.point THEN 1 ELSE 0)..NsDigits /\ Range(t.frac) \subseteq 0..9

Readable(e, scales) ==
  /\ "price" \in DOMAIN e => Exact(e.price, scales.price) # <<>>
  /\ "size" \in DOMAIN e => Exact(e.size, scales.qty) # <<>> /\ Exact(e.size, scales.qty)[1] >= 0
  /\ "date" \in DOMAIN e => RealDate(e.date)
  /\ "time" \in DOMAIN e => RealTime(e.time)

(* A message gives the records its entries mean: a full refresh one quote, *)
(* each level at the rank it was listed at or the one it names, with its   *)
(* exact price and size; an incremental one its trades in order, those     *)
(* before an entry that is refused included; its times are the ones it     *)
(* names, unless they are past what a u64 holds; a message that is not     *)
(* read to the end, its SendingTime included, gives none                   *)
(* (parse_md_message, push_entry, SnapshotAdapter).  A message with a      *)
(* changed byte is not taken for one (frame).                              *)
FixMessagesComeBack ==
  /\ call.api = "peek" /\ call.input.flaw \in 1..Len(Encode(call.input.messages[1]))
                       /\ Len(call.input.bytes) >= Len(Encode(call.input.messages[1])) => ~Accepted(answer)
  /\ call.api = "fix" =>
       LET in == call.input
           es == in.entries
           all == 1..Len(es)
           price(k) == IF "price" \in DOMAIN es[k] THEN Exact(es[k].price, in.scales.price)[1] ELSE 0
           sized(k) == "size" \in DOMAIN es[k] \/ in.default # None
           size(k) == IF "size" \in DOMAIN es[k] THEN Exact(es[k].size, in.scales.qty)[1] ELSE in.default
           time(k) == IF {"date", "time"} \subseteq DOMAIN es[k] THEN <<DayOf(es[k].date), TimeOf(es[k].time)>> ELSE <<>>
           late(k) == time(k) # <<>> /\ time(k)[1] = LastDay /\ time(k)[2] > LastTime
           symbol(k) == IF "symbol" \in DOMAIN es[k] THEN es[k].symbol ELSE in.symbol
           known(s) == s # "" /\ s \notin LongSymbols
           level(k) == IF "level" \in DOMAIN es[k] THEN Lesser(Max({es[k].level, 1}) - 1, MaxLevel)
                       ELSE Cardinality({j \in 1..(k - 1) : es[j].type = es[k].type})
           shown == {k \in all : es[k].type \in {"bid", "offer"} /\ level(k) < MaxDepth}
           at(side, l) == {k \in shown : es[k].type = side /\ level(k) = l - 1}
           levels(side) == [l \in 1..MaxDepth |->
                              IF at(side, l) = {} THEN <<0, 0>> ELSE <<price(Max(at(side, l))), size(Max(at(side, l)))>>]
           stops == {k \in all : es[k].type # "other" /\ ~(es[k].type = "trade" /\ known(symbol(k)) /\ sized(k))}
           sent == {k \in all : es[k].type = "trade" /\ \A j \in stops : k < j}
           timed == {k \in all : time(k) # <<>>}
       IN /\ \A i \in 1..Len(answer.records) : Validate(answer.records[i])
          /\ IF ~(/\ in.count = Len(es) /\ Len(es) <= MaxEntries /\ RealDate(in.sent.date) /\ RealTime(in.sent.time)
                  /\ \A k \in all : Readable(es[k], in.scales))
             THEN answer.records = <<>> /\ answer.err # ""
             ELSE IF in.type = "X"
             THEN /\ answer.err = "" <=> stops = {}
                  /\ Len(answer.records) = Cardinality(sent)
                  /\ \A k \in sent :
                       LET r == answer.records[Cardinality({j \in sent : j <= k})] IN
                       /\ <<r.symbol, r.price, r.qty>> = <<symbol(k), price(k), size(k)>>
                       /\ ~late(k) => r.time = time(k)
             ELSE IF ~known(in.symbol) \/ \E k \in shown : ~sized(k)
             THEN answer.records = <<>> /\ answer.err # ""
             ELSE /\ Len(answer.records) = 1
                  /\ LET q == answer.records[1] IN
                     /\ q.bids = levels("bid") /\ q.asks = levels("offer") /\ q.symbol = in.symbol
                     /\ q.shape.depth = Max({0} \cup {level(k) + 1 : k \in shown})
                     /\ IF timed = {} THEN q.time = <<>> ELSE ~late(Min(timed)) => q.time = time(Min(timed))

-----------------------------------------------------------------------------
(* A conf that is accepted runs as its rules promise: no feed is refused   *)
(* at its start or dies at its pin, unless the box could not be read and   *)
(* lacks the processor; no two feeds write one ring, run on one processor  *)
(* or join one port; nothing runs beside a feed that spins; no delay that  *)
(* fits its integer is zero (check_placement, validate, start, run).       *)
AcceptedConfStarts ==
  call.api = "main" /\ Accepted(answer) =>
    LET box == call.input.box
        fs == answer.feeds
        ports(f) == {Ports[s] : s \in Range(f.sockets)}
        beside(f) == UNION {box.siblings[c + 1] : c \in Range(f.cores)}
    IN /\ fs # <<>>
       /\ \A i \in 1..Len(fs) :
            \/ answer.started[i] = "runs"
            \/ ~box.known /\ \E c \in Range(fs[i].cores) : c \notin 0..(Len(box.siblings) - 1)
       /\ \A i, j \in 1..Len(fs) : i # j =>
            /\ fs[i].ring # fs[j].ring /\ Range(fs[i].cores) \cap Range(fs[j].cores) = {}
            /\ call.input.family = "krx" => ports(fs[i]) \cap ports(fs[j]) = {}
            /\ box.known /\ fs[i].spin => beside(fs[i]) \cap Range(fs[j].cores) = {}
       /\ call.input.family # "krx" =>
            \A i \in 1..Len(fs) : \A k \in DOMAIN fs[i].timers :
              fs[i].timers[k] \in 1..((Word - 1) \div NsPerSec) => ReceiverConfig(fs[i])[k] # 0
=============================================================================

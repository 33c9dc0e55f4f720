----------------------------- MODULE KrxDecode ------------------------------
(***************************************************************************)
(* The decoders of jeed-krx: one datagram of fixed-width fields to one     *)
(* wire record.                                                            *)
(*                                                                         *)
(* A datagram is [trcode, len, end, fields]: its five leading bytes as     *)
(* <<data class, product, market>>, its length, whether it ends with the   *)
(* end keyword, and the field that starts at each offset.  What a field    *)
(* holds is [kind, of]: "blank", "num" (with `point`, the digits behind    *)
(* the decimal point), "time", "text", or "junk".  A slice that is not     *)
(* exactly a field of the datagram is scraps of its neighbours, which are  *)
(* digits too and may well parse.                                          *)
(***************************************************************************)
EXTENDS Wire, TLC

CONSTANTS
  MaxYield,   \* i32::MAX
  ExtWord     \* 2^32

BlankField == [kind |-> "blank", of |-> " "]
FixedNum(n, point) == [kind |-> "num", point |-> point, of |-> n]
Scraps == FixedNum(-1000, 0)

Slice(p, at, n) ==
  IF at \in DOMAIN p.fields /\ p.fields[at].width = n THEN p.fields[at].value ELSE Scraps

-----------------------------------------------------------------------------
(* The readers of field.rs: an error, None for a blank field, or a value.  *)
Fault == [ok |-> FALSE, has |-> FALSE, of |-> 0]
Absent == [ok |-> TRUE, has |-> FALSE, of |-> 0]
Got(v) == [ok |-> TRUE, has |-> TRUE, of |-> v]
Opt(r) == [has |-> r.has, of |-> r.of]

FieldUint(v) ==
  CASE v.kind = "blank" -> Absent
    [] v.kind = "num" /\ v.point = 0 /\ v.of >= 0 -> Got(v.of)
    [] OTHER -> Fault

(* `reader` is the number of digits it expects behind the point; a point   *)
(* anywhere else is not a number to it.                                    *)
ToI64Checked(reader, v) == IF v.kind = "num" /\ v.point = reader THEN Got(v.of) ELSE Fault
FieldPrice(reader, v) == IF v.kind = "blank" THEN Absent ELSE ToI64Checked(reader, v)

NoTime == [sec |-> 0, ns |-> 0]
TimeOfDay(v, width) ==
  CASE v.kind = "blank" -> [Absent EXCEPT !.of = NoTime]
    [] v.kind = "time" /\ ~ \/ v.h \div 10 > 2
                            \/ v.h \div 10 = 2 /\ v.h % 10 > 3
                            \/ v.m \div 10 > 5
                            \/ v.s \div 10 > 5 ->
         Got([sec |-> v.h * 3600 + v.m * 60 + v.s,
              ns  |-> v.sub * IF width = 12 THEN 1000 ELSE 1000000])
    [] OTHER -> [Fault EXCEPT !.of = NoTime]

IsDerivative(t) == t[3] = "F"
PlainPriceGroups == {"04", "05", "07", "10", "18"}
RiskFreePrefixes == {"KR4169", "KR4A69"}
DerivativePrice(t, isin) ==
  IF t[2] \in PlainPriceGroups THEN 0 ELSE IF isin.of \in RiskFreePrefixes THEN 3 ELSE 2
SecuritiesPrice == 0
BondPrice == 0
BondYield == 6

-----------------------------------------------------------------------------
(* The three headers (common.rs, bond, derivative).                        *)
Header(p, isin, index, time, timeLen) ==
  LET seq == FieldUint(Slice(p, 5, 8))
      idx == IF index = None THEN Absent ELSE FieldUint(Slice(p, index, 6))
      tod == TimeOfDay(Slice(p, time, timeLen), timeLen)
  IN [ok |-> seq.ok /\ idx.ok /\ tod.ok, isin |-> Slice(p, isin, 12), seq |-> seq.of,
      board |-> Slice(p, 13, 2), time |-> Opt(tod)]
HeaderA(p) == Header(p, 17, 29, 35, 12)
HeaderB(p) == Header(p, 17, None, 29, 12)
LimitHeader(p, time, timeLen) == Header(p, 15, 27, time, timeLen)

(* fill_record_header; the date of the time is AbsoluteNs in KrxFeed.      *)
RecordHeader(kind, h, scale) ==
  [kind |-> kind, symbol |-> h.isin, time |-> h.time, scale |-> scale]

Validated(p, len) == p.len = len /\ p.end
Decoded(p, len, ok, record) == IF Validated(p, len) /\ ok THEN record ELSE Refuse("KrxError")

-----------------------------------------------------------------------------
(* Books.  Where each field of a level is, and what its last pair is.      *)
DerivativeLevel ==
  [len |-> 46, price |-> 9, qty |-> 9, last |-> 5, is |-> "count",
   ask |-> [price |-> 0, qty |-> 18, last |-> 36], bid |-> [price |-> 9, qty |-> 27, last |-> 41]]
WithLp ==
  [len |-> 70, price |-> 11, qty |-> 12, last |-> 12, is |-> "lp",
   ask |-> [price |-> 0, qty |-> 22, last |-> 46], bid |-> [price |-> 11, qty |-> 34, last |-> 58]]
Plain == [WithLp EXCEPT !.len = 46, !.is = "none"]
BondLevel ==
  [len |-> 78, price |-> 11, qty |-> 15, last |-> 13, is |-> "yield",
   ask |-> [price |-> 0, qty |-> 22, last |-> 52], bid |-> [price |-> 11, qty |-> 37, last |-> 65]]

NarrowYield(r) == IF r.of \in (-MaxYield - 1)..MaxYield THEN r ELSE Fault
LastPair(L, v) ==
  CASE L.is = "yield" -> NarrowYield(FieldPrice(BondYield, v))
    [] L.is = "lp"    -> LET r == FieldUint(v) IN [r EXCEPT !.of = @ % ExtWord]
    [] L.is = "count" -> FieldUint(v)
    [] OTHER          -> Absent

LevelRead(p, at, L, side, reader) ==
  LET price == FieldPrice(reader, Slice(p, at + side.price, L.price))
      qty == FieldUint(Slice(p, at + side.qty, L.qty))
      last == LastPair(L, Slice(p, at + side.last, L.last))
  IN [ok |-> price.ok /\ qty.ok /\ last.ok, price |-> price.of, qty |-> qty.of, last |-> last.of]
ShownLevel(l) == [price |-> l.price, qty |-> l.qty, last |-> l.last]

(* BookAccum: the deepest level with a quantity.                           *)
AccumDepth(levels) ==
  LET filled == {i \in DOMAIN levels : levels[i].qty > 0} IN
  IF filled = {} THEN 0 ELSE CHOOSE i \in filled : \A j \in filled : j <= i

FillBook(p, first, depth, L, reader) ==
  LET levels(side) == [i \in 1..depth |-> LevelRead(p, first + (i - 1) * L.len, L, side, reader)]
      asks == levels(L.ask)
      bids == levels(L.bid)
      a == AccumDepth(asks)
      b == AccumDepth(bids)
  IN [ok   |-> \A i \in 1..depth : asks[i].ok /\ bids[i].ok,
      book |-> [is |-> L.is, asks |-> [i \in 1..depth |-> ShownLevel(asks[i])],
                bids |-> [i \in 1..depth |-> ShownLevel(bids[i])], depth |-> IF a > b THEN a ELSE b,
                flags |-> (IF a = 0 THEN {"ASK_EMPTY"} ELSE {}) \cup (IF b = 0 THEN {"BID_EMPTY"} ELSE {})]]

FillDerivativeBook(p, first, depth, reader) == FillBook(p, first, depth, DerivativeLevel, reader)
FillSecuritiesBook(p, L) == FillBook(p, 47, 10, L, SecuritiesPrice)
FillBondBook(p, first) == FillBook(p, first, 5, BondLevel, BondPrice)

(* The indicative price of an auction, 0 when there is none.               *)
ExpectedPrice(p, reader, at, n) == FieldPrice(reader, Slice(p, at, n))

-----------------------------------------------------------------------------
(* Trades.                                                                 *)
IsCode(v, c) == v.kind = "text" /\ v.of = c
AggressorCode(v) == CASE IsCode(v, "1") -> "sell" [] IsCode(v, "2") -> "buy" [] OTHER -> "unknown"
NoBand == [has |-> FALSE, upper |-> 0, lower |-> 0]
DynLimits(u, l) ==
  IF u.has /\ l.has /\ u.of > 0 /\ l.of > 0
  THEN [has |-> TRUE, upper |-> u.of, lower |-> l.of] ELSE NoBand
TradeOf(price, qty, cum, side, yield, band) ==
  [price |-> price.of, qty |-> qty.of, cum |-> Opt(cum), side |-> side,
   yield |-> Opt(yield), band |-> band]

DerivativeBandShifted(p, reader) ==   \* mutant: end offsets taken for starts
  << FieldPrice(reader, Slice(p, 163, 9)), FieldPrice(reader, Slice(p, 172, 9)) >>
DerivativeBand(p, reader) ==
  << FieldPrice(reader, Slice(p, 154, 9)), FieldPrice(reader, Slice(p, 163, 9)) >>

FillDerivativeTrade(p, reader) ==
  LET price == FieldPrice(reader, Slice(p, 47, 9))
      qty == FieldUint(Slice(p, 56, 9))
      cum == FieldUint(Slice(p, 119, 12))
      dyn == DerivativeBand(p, reader)
  IN [ok |-> price.ok /\ qty.ok /\ cum.ok /\ dyn[1].ok /\ dyn[2].ok,
      trade |-> TradeOf(price, qty, cum, AggressorCode(Slice(p, 153, 1)), Absent, DynLimits(dyn[1], dyn[2]))]

FillSecuritiesTrade(p) ==
  LET price == FieldPrice(SecuritiesPrice, Slice(p, 59, 11))
      qty == FieldUint(Slice(p, 70, 10))
      cum == FieldUint(Slice(p, 113, 12))
  IN [ok |-> price.ok /\ qty.ok /\ cum.ok,
      trade |-> TradeOf(price, qty, cum, AggressorCode(Slice(p, 147, 1)), Absent, NoBand)]

FillBondTrade(p) ==
  LET price == FieldPrice(BondPrice, Slice(p, 41, 11))
      qty == FieldUint(Slice(p, 52, 10))
      cum == FieldUint(Slice(p, 177, 15))
      yield == NarrowYield(FieldPrice(BondYield, Slice(p, 92, 13)))
  IN [ok |-> price.ok /\ qty.ok /\ cum.ok /\ yield.ok,
      trade |-> TradeOf(price, qty, cum, "none", yield, NoBand)]

-----------------------------------------------------------------------------
(* The decoders.                                                           *)
QuoteRecord(h, scale, read, expected) ==
  RecordHeader("Quote", h, scale) @@ [quote |-> read.book, expected |-> expected.of]
TradeRecord(h, scale, t) == RecordHeader("Trade", h, scale) @@ [trade |-> t.trade]
TradeQuoteRecord(h, scale, t, read) ==
  RecordHeader("TradeQuote", h, scale) @@ [trade |-> t.trade, quote |-> read.book]

DerivativeQuoteLen(depth) == 47 + depth * DerivativeLevel.len + 47
DerivativeQuote(p, depth) ==
  LET h == HeaderA(p)
      reader == DerivativePrice(p.trcode, h.isin)
      book == FillDerivativeBook(p, 47, depth, reader)
      expected == ExpectedPrice(p, reader, 47 + depth * DerivativeLevel.len + 28, 9)
  IN Decoded(p, DerivativeQuoteLen(depth), h.ok /\ book.ok /\ expected.ok,
             QuoteRecord(h, reader, book, expected))

DerivativeTradeLen == 173
DerivativeTrade(p) ==
  LET h == HeaderA(p)
      reader == DerivativePrice(p.trcode, h.isin)
      t == FillDerivativeTrade(p, reader)
  IN Decoded(p, DerivativeTradeLen, h.ok /\ t.ok, TradeRecord(h, reader, t))

DerivativeTradeQuoteLen(depth) == 172 + depth * DerivativeLevel.len + 29
DerivativeTradeQuote(p, depth) ==
  LET h == HeaderA(p)
      reader == DerivativePrice(p.trcode, h.isin)
      book == FillDerivativeBook(p, 172, depth, reader)
      t == FillDerivativeTrade(p, reader)
  IN Decoded(p, DerivativeTradeQuoteLen(depth), h.ok /\ book.ok /\ t.ok,
             TradeQuoteRecord(h, reader, t, book))

LimitLen == 65
LimitRecord(kind, p, h, upper, lower, more) ==
  RecordHeader(kind, h, DerivativePrice(p.trcode, h.isin))
    @@ [applied |-> h.time.of, upper |-> upper.of, lower |-> lower.of, seq |-> h.seq,
        board |-> h.board, category |-> <<p.trcode[2], p.trcode[3]>>] @@ more
Limits(p, h) ==
  LET reader == DerivativePrice(p.trcode, h.isin) IN
  << FieldPrice(reader, Slice(p, 46, 9)), FieldPrice(reader, Slice(p, 55, 9)) >>

DerivativePriceLimit(p) ==
  LET h == LimitHeader(p, 33, 9)
      ul == Limits(p, h)
      us == FieldUint(Slice(p, 42, 2))
      ls == FieldUint(Slice(p, 44, 2))
  IN Decoded(p, LimitLen, h.ok /\ ul[1].ok /\ ul[2].ok /\ us.ok /\ ls.ok,
             LimitRecord("PriceLimit", p, h, ul[1], ul[2],
                         [upperStage |-> us.of, lowerStage |-> ls.of]))

DynAction(v) == CASE IsCode(v, "1") -> "applied" [] IsCode(v, "2") -> "released" [] OTHER -> "unknown"
DerivativeDynamicLimit(p) ==
  LET h == LimitHeader(p, 33, 12)
      ul == Limits(p, h)
  IN Decoded(p, LimitLen, h.ok /\ ul[1].ok /\ ul[2].ok,
             LimitRecord("DynamicPriceLimit", p, h, ul[1], ul[2],
                         [action |-> DynAction(Slice(p, 45, 1))]))

SecuritiesQuoteLen(L) == 47 + 10 * L.len + 83
SecuritiesQuote(p, L) ==
  LET h == HeaderA(p)
      book == FillSecuritiesBook(p, L)
      expected == ExpectedPrice(p, SecuritiesPrice, 47 + 10 * L.len + 24, 11)
  IN Decoded(p, SecuritiesQuoteLen(L), h.ok /\ book.ok /\ expected.ok,
             QuoteRecord(h, SecuritiesPrice, book, expected))
StockQuote(p) == SecuritiesQuote(p, Plain)
EtfQuote(p) == SecuritiesQuote(p, WithLp)

SecuritiesTradeLen == 186
SecuritiesTrade(p) ==
  LET h == HeaderA(p)
      t == FillSecuritiesTrade(p)
  IN Decoded(p, SecuritiesTradeLen, h.ok /\ t.ok, TradeRecord(h, SecuritiesPrice, t))

BondQuoteLen == 41 + 5 * BondLevel.len + 31
BondQuote(p) ==
  LET h == HeaderB(p)
      book == FillBondBook(p, 41)
  IN Decoded(p, BondQuoteLen, h.ok /\ book.ok, QuoteRecord(h, BondPrice, book, Absent))

BondTradeLen == 223
BondTrade(p) ==
  LET h == HeaderB(p)
      t == FillBondTrade(p)
  IN Decoded(p, BondTradeLen, h.ok /\ t.ok, TradeRecord(h, BondPrice, t))

BondTradeQuoteLen == 222 + 5 * BondLevel.len + 31
BondTradeQuote(p) ==
  LET h == HeaderB(p)
      book == FillBondBook(p, 222)
      t == FillBondTrade(p)
  IN Decoded(p, BondTradeQuoteLen, h.ok /\ book.ok /\ t.ok, TradeQuoteRecord(h, BondPrice, t, book))

ScheduleLen == 83
MarketSchedule(p) ==
  LET event == TimeOfDay(Slice(p, 13, 9), 9)
      expected == TimeOfDay(Slice(p, 73, 9), 9)
      group == FieldUint(Slice(p, 22, 5))
      step == FieldUint(Slice(p, 70, 2))
      isin == Slice(p, 31, 12)
  IN Decoded(p, ScheduleLen, event.ok /\ expected.ok /\ group.ok /\ step.ok,
       [kind |-> "MarketSchedule", symbol |-> isin, category |-> <<p.trcode[2], p.trcode[3]>>,
        event |-> event.of, expected |-> expected.of, eventGroup |-> group.of, step |-> step.of,
        scope |-> Slice(p, 5, 3), board |-> Slice(p, 8, 2), eventId |-> Slice(p, 10, 3),
        session |-> <<Slice(p, 27, 2), Slice(p, 29, 2)>>, stock |-> Slice(p, 43, 12),
        product |-> Slice(p, 55, 11), halt |-> <<Slice(p, 66, 3), Slice(p, 69, 1)>>,
        expansion |-> LET c == Slice(p, 72, 1) IN
                      CASE IsCode(c, "1") -> "up" [] IsCode(c, "2") -> "down" [] OTHER -> "none",
        flags |-> (IF isin.kind = "blank" THEN {} ELSE {"INSTRUMENT_SCOPED"})
                  \cup (IF expected.has THEN {"EXPECTED_TIME_VALID"} ELSE {})])

-----------------------------------------------------------------------------
(* dispatch.rs.                                                            *)
DepthForProductGroup(t) == IF t[3] = "F" /\ t[2] \in {"04", "05", "18"} THEN 10 ELSE 5
IsStockGroup(t) == t[2] = "01" /\ t[3] \in {"S", "Q", "X"}
IsLpGroup(t) == t[2] \in {"02", "03", "04", "05"} /\ t[3] = "S"
IsSecuritiesGroup(t) == IsStockGroup(t) \/ IsLpGroup(t)
IsBondGroup(t) == t[2] = "01" /\ t[3] \in {"B", "K"}

UnknownTrCode == Refuse("UnknownTrCode")
DispatchQuote(p) ==
  CASE IsDerivative(p.trcode) -> DerivativeQuote(p, DepthForProductGroup(p.trcode))
    [] IsStockGroup(p.trcode) -> StockQuote(p)
    [] IsBondGroup(p.trcode)  -> BondQuote(p)
    [] OTHER                  -> UnknownTrCode
DispatchTrade(p) ==
  CASE IsDerivative(p.trcode)      -> DerivativeTrade(p)
    [] IsSecuritiesGroup(p.trcode) -> SecuritiesTrade(p)
    [] IsBondGroup(p.trcode)       -> BondTrade(p)
    [] OTHER                       -> UnknownTrCode
DispatchTradeQuote(p) ==
  CASE IsDerivative(p.trcode) -> DerivativeTradeQuote(p, DepthForProductGroup(p.trcode))
    [] IsBondGroup(p.trcode)  -> BondTradeQuote(p)
    [] OTHER                  -> UnknownTrCode
Dispatch(p) ==
  LET t == p.trcode
      c == t[1]
  IN CASE p.len < 5                   -> Refuse("TooShort")
       [] c = "B6"                    -> DispatchQuote(p)
       [] c = "B7" /\ IsLpGroup(t)    -> EtfQuote(p)
       [] c = "A3"                    -> DispatchTrade(p)
       [] c = "G7"                    -> DispatchTradeQuote(p)
       [] c = "V1" /\ IsDerivative(t) -> DerivativePriceLimit(p)
       [] c = "Q2" /\ IsDerivative(t) -> DerivativeDynamicLimit(p)
       [] c = "M4"                    -> MarketSchedule(p)
       [] OTHER                       -> UnknownTrCode

MessageLen(t) ==
  LET c == t[1]
  IN CASE c = "B6" /\ IsDerivative(t)      -> DerivativeQuoteLen(DepthForProductGroup(t))
       [] c = "G7" /\ IsDerivative(t)      -> DerivativeTradeQuoteLen(DepthForProductGroup(t))
       [] c = "A3" /\ IsDerivative(t)      -> DerivativeTradeLen
       [] c \in {"V1", "Q2"} /\ IsDerivative(t) -> LimitLen
       [] c = "B6" /\ IsStockGroup(t)      -> SecuritiesQuoteLen(Plain)
       [] c = "B7" /\ IsLpGroup(t)         -> SecuritiesQuoteLen(WithLp)
       [] c = "A3" /\ IsSecuritiesGroup(t) -> SecuritiesTradeLen
       [] c = "B6" /\ IsBondGroup(t)       -> BondQuoteLen
       [] c = "A3" /\ IsBondGroup(t)       -> BondTradeLen
       [] c = "G7" /\ IsBondGroup(t)       -> BondTradeQuoteLen
       [] c = "M4"                         -> ScheduleLen
       [] OTHER                            -> None

IsinOffset(t) ==
  CASE t[1] \in {"B6", "B7", "A3", "G7"} -> 17
    [] t[1] \in {"V1", "Q2"} -> 15
    [] OTHER -> None

(* Pipeline::ingest behind the trcode filter: the length, the instrument   *)
(* filter, the decoder.                                                    *)
IngestDatagram(p, allowed) ==
  LET t == p.trcode
      at == IsinOffset(t)
  IN IF p.len < 5 THEN Refuse("TooShort")
     ELSE IF MessageLen(t) = None THEN Refuse("UnknownTrCode")
     ELSE IF p.len # MessageLen(t) THEN Refuse("WrongLength")
     ELSE IF at # None /\ Slice(p, at, 12).of \notin allowed THEN Refuse("FilteredIsin")
     ELSE Dispatch(p)
=============================================================================

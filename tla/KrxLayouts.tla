----------------------------- MODULE KrxLayouts -----------------------------
(***************************************************************************)
(* What a KRX datagram means by the tables of documents/krx/layouts.md:    *)
(* every interface is a list of named fields and their widths, an offset   *)
(* is the sum of the widths before it, and the meaning of a message is     *)
(* read by name.  This is the reference KrxDecode is compared with; it     *)
(* shares none of its offsets, lengths or depths.                          *)
(***************************************************************************)
EXTENDS KrxDecode, SequencesExt

-----------------------------------------------------------------------------
(* The tables.  A field is [name, width], a name <<what, level>>.          *)
Named(level, fs) == [i \in 1..Len(fs) |-> [name |-> <<fs[i][1], level>>, width |-> fs[i][2]]]
Rows(fs) == Named(0, fs)
LevelRows(n, fs) == FoldLeft(LAMBDA a, i : a \o Named(i, fs), <<>>, [i \in 1..n |-> i])

HeadA == Rows(<< <<"class", 2>>, <<"group", 3>>, <<"sequence", 8>>, <<"board", 2>>, <<"session", 2>>,
                 <<"isin", 12>>, <<"index", 6>>, <<"time", 12>> >>)
HeadB == Rows(<< <<"class", 2>>, <<"group", 3>>, <<"sequence", 8>>, <<"board", 2>>, <<"session", 2>>,
                 <<"isin", 12>>, <<"time", 12>> >>)
HeadC == Rows(<< <<"class", 2>>, <<"group", 3>>, <<"sequence", 8>>, <<"board", 2>>, <<"isin", 12>>, <<"index", 6>> >>)
End == Rows(<< <<"end", 1>> >>)

DerivativeBook(n) ==
  LevelRows(n, << <<"askPrice", 9>>, <<"bidPrice", 9>>, <<"askQty", 9>>, <<"bidQty", 9>>,
                  <<"askCount", 5>>, <<"bidCount", 5>> >>)
  \o Rows(<< <<"askTotal", 9>>, <<"bidTotal", 9>>, <<"askOrders", 5>>, <<"bidOrders", 5>> >>)
DerivativeBlock ==
  Rows(<< <<"price", 9>>, <<"qty", 9>>, <<"near", 9>>, <<"far", 9>>, <<"open", 9>>, <<"high", 9>>, <<"low", 9>>,
          <<"previous", 9>>, <<"cumulative", 12>>, <<"amount", 22>>, <<"aggressor", 1>>,
          <<"dynUpper", 9>>, <<"dynLower", 9>> >>)
SecuritiesBook(lp) ==
  LevelRows(10, << <<"askPrice", 11>>, <<"bidPrice", 11>>, <<"askQty", 12>>, <<"bidQty", 12>> >>
                \o (IF lp THEN << <<"askLp", 12>>, <<"bidLp", 12>> >> ELSE <<>>))
  \o Rows(<< <<"askTotal", 12>>, <<"bidTotal", 12>>, <<"expected", 11>>, <<"expectedQty", 12>>, <<"middle", 11>>,
             <<"askMiddle", 12>>, <<"bidMiddle", 12>> >>)
BondBook ==
  LevelRows(5, << <<"askPrice", 11>>, <<"bidPrice", 11>>, <<"askQty", 15>>, <<"bidQty", 15>>,
                  <<"askYield", 13>>, <<"bidYield", 13>> >>)
  \o Rows(<< <<"askTotal", 15>>, <<"bidTotal", 15>> >>)
BondBlock ==
  Rows(<< <<"price", 11>>, <<"qty", 10>>, <<"date", 8>>, <<"amount", 22>>, <<"yield", 13>>, <<"open", 11>>,
          <<"high", 11>>, <<"low", 11>>, <<"openYield", 13>>, <<"highYield", 13>>, <<"lowYield", 13>>,
          <<"cumulative", 15>>, <<"dayAmount", 22>>, <<"settles", 8>> >>)
Expected == Rows(<< <<"expected", 9>>, <<"expectedQty", 9>> >>)

Interfaces ==
  [IFMSRPD0002 |-> HeadA \o SecuritiesBook(FALSE) \o End,
   IFMSRPD0003 |-> HeadA \o SecuritiesBook(TRUE) \o End,
   IFMSRPD0004 |-> HeadA \o Rows(<< <<"sign", 1>>, <<"change", 11>>, <<"price", 11>>, <<"qty", 10>>, <<"open", 11>>,
                     <<"high", 11>>, <<"low", 11>>, <<"cumulative", 12>>, <<"amount", 22>>, <<"aggressor", 1>>,
                     <<"lpHeld", 15>>, <<"bestAsk", 11>>, <<"bestBid", 11>> >>) \o End,
   IFMSRPD0019 |-> Rows(<< <<"class", 2>>, <<"group", 3>>, <<"scope", 3>>, <<"board", 2>>, <<"eventId", 3>>,
                     <<"eventTime", 9>>, <<"eventGroup", 5>>, <<"action", 2>>, <<"session", 2>>, <<"isin", 12>>,
                     <<"stock", 12>>, <<"product", 11>>, <<"haltReason", 3>>, <<"haltType", 1>>, <<"step", 2>>,
                     <<"expansion", 1>>, <<"expectedTime", 9>> >>) \o End,
   IFMSRPD0023 |-> HeadB \o BondBook \o End,
   IFMSRPD0027 |-> HeadB \o BondBlock \o End,
   IFMSRPD0029 |-> HeadB \o BondBlock \o BondBook \o End,
   IFMSRPD0034 |-> HeadA \o DerivativeBook(5) \o Expected \o End,
   IFMSRPD0035 |-> HeadA \o DerivativeBook(10) \o Expected \o End,
   IFMSRPD0036 |-> HeadA \o DerivativeBlock \o End,
   IFMSRPD0037 |-> HeadA \o DerivativeBlock \o DerivativeBook(5) \o End,
   IFMSRPD0038 |-> HeadA \o DerivativeBlock \o DerivativeBook(10) \o End,
   IFMSRPD0042 |-> HeadC \o Rows(<< <<"time", 12>>, <<"action", 1>>, <<"upper", 9>>, <<"lower", 9>> >>) \o End,
   IFMSRPD0043 |-> HeadC \o Rows(<< <<"time", 9>>, <<"upperStage", 2>>, <<"lowerStage", 2>>, <<"upper", 9>>,
                     <<"lower", 9>> >>) \o End]

(* Which interface a trcode is sent in, "" for one this build leaves out.  *)
InterfaceOf(t) ==
  LET group == <<t[2], t[3]>>
      deep == group \in {<<"04", "F">>, <<"05", "F">>, <<"18", "F">>}
      stock == group \in {<<"01", "S">>, <<"01", "Q">>, <<"01", "X">>}
      lp == group \in {<<"02", "S">>, <<"03", "S">>, <<"04", "S">>, <<"05", "S">>}
      bond == group \in {<<"01", "B">>, <<"01", "K">>}
      derivative == t[3] = "F"
  IN CASE t[1] = "B6" /\ stock         -> "IFMSRPD0002"
       [] t[1] = "B7" /\ lp            -> "IFMSRPD0003"
       [] t[1] = "A3" /\ (stock \/ lp) -> "IFMSRPD0004"
       [] t[1] = "M4"                  -> "IFMSRPD0019"
       [] t[1] = "B6" /\ bond          -> "IFMSRPD0023"
       [] t[1] = "A3" /\ bond          -> "IFMSRPD0027"
       [] t[1] = "G7" /\ bond          -> "IFMSRPD0029"
       [] t[1] = "B6" /\ derivative    -> IF deep THEN "IFMSRPD0035" ELSE "IFMSRPD0034"
       [] t[1] = "A3" /\ derivative    -> "IFMSRPD0036"
       [] t[1] = "G7" /\ derivative    -> IF deep THEN "IFMSRPD0038" ELSE "IFMSRPD0037"
       [] t[1] = "Q2" /\ derivative    -> "IFMSRPD0042"
       [] t[1] = "V1" /\ derivative    -> "IFMSRPD0043"
       [] OTHER                        -> ""

(* The digits behind the point of a price, by instrument.                  *)
PointOf(t, isin) ==
  IF t[3] # "F" \/ t[2] \in {"04", "05", "07", "10", "18"} THEN 0
  ELSE IF isin.of \in {"KR4169", "KR4A69"} THEN 3 ELSE 2

-----------------------------------------------------------------------------
(* A datagram of an interface: `values` by field name.                     *)
Starts(layout) ==
  LET s[i \in 1..(Len(layout) + 1)] == IF i = 1 THEN 0 ELSE s[i - 1] + layout[i - 1].width IN s
Lengths == [n \in DOMAIN Interfaces |-> Starts(Interfaces[n])[Len(Interfaces[n]) + 1]]
Offsets == [n \in DOMAIN Interfaces |->
              LET starts == [i \in 1..Len(Interfaces[n]) |-> Starts(Interfaces[n])[i]] IN
              [at \in Range(starts) |-> CHOOSE i \in DOMAIN starts : starts[i] = at]]
Datagram(t, interface, values, len, end) ==
  LET layout == Interfaces[interface]
      index == Offsets[interface]
  IN [trcode |-> t, len |-> len, end |-> end,
      fields |-> [at \in DOMAIN index |-> [width |-> layout[index[at]].width,
                                           value |-> values[layout[index[at]].name]]]]

(* What the fields mean: [kind |-> "none"] if one that is read is not what *)
(* its column says.                                                        *)
CountNames == {"sequence", "index", "askQty", "bidQty", "askCount", "bidCount", "askLp", "bidLp", "qty", "cumulative",
               "upperStage", "lowerStage", "eventGroup", "step"}
YieldNames == {"askYield", "bidYield", "yield"}
PriceNames == {"askPrice", "bidPrice", "price", "expected", "dynUpper", "dynLower", "upper", "lower"}
TimeNames == {"time", "eventTime", "expectedTime"}

GoodField(name, v, point) ==
  \/ v.kind = "blank"
  \/ name \in CountNames /\ v.kind = "num" /\ v.point = 0 /\ v.of >= 0
  \/ name \in PriceNames /\ v.kind = "num" /\ v.point = point
  \/ name \in YieldNames /\ v.kind = "num" /\ v.point = 6 /\ v.of \in (-MaxYield - 1)..MaxYield
  \/ name \in TimeNames /\ v.kind = "time" /\ v.h <= 23 /\ v.m <= 59 /\ v.s <= 59

KrxMeaning(t, interface, values) ==
  LET layout == Interfaces[interface]
      has(n) == <<n, 0>> \in DOMAIN values
      f(n) == values[<<n, 0>>]
      int(v) == IF v.kind = "blank" THEN 0 ELSE v.of
      opt(v) == [has |-> v.kind # "blank", of |-> int(v)]
      wide(n) == layout[CHOOSE i \in 1..Len(layout) : layout[i].name = <<n, 0>>].width
      clock(n) == IF f(n).kind = "blank" THEN [sec |-> 0, ns |-> 0]
                  ELSE [sec |-> f(n).h * 3600 + f(n).m * 60 + f(n).s, ns |-> f(n).sub * 10^(15 - wide(n))]
      code(v, one, two, other) == CASE IsCode(v, "1") -> one [] IsCode(v, "2") -> two [] OTHER -> other
      point == PointOf(t, f("isin"))
      header(kind) == [kind |-> kind, symbol |-> f("isin"), scale |-> point,
                       time |-> [has |-> f("time").kind # "blank", of |-> clock("time")]]
      levels == {nm[2] : nm \in DOMAIN values} \ {0}
      is == CASE <<"askCount", 1>> \in DOMAIN values -> "count" [] <<"askLp", 1>> \in DOMAIN values -> "lp"
              [] <<"askYield", 1>> \in DOMAIN values -> "yield" [] OTHER -> "none"
      last(a, i) == CASE is = "count" -> int(values[<<a[1], i>>]) [] is = "yield" -> int(values[<<a[3], i>>])
                         [] is = "lp" -> int(values[<<a[2], i>>]) % ExtWord  \* a level has one word for it
                         [] OTHER -> 0
      side(price, qty, lasts) == [i \in levels |-> [price |-> int(values[<<price, i>>]), qty |-> int(values[<<qty, i>>]),
                                                    last |-> last(lasts, i)]]
      resting(qty) == {i \in levels : int(values[<<qty, i>>]) > 0}
      book == [is |-> is, asks |-> side("askPrice", "askQty", <<"askCount", "askLp", "askYield">>),
               bids |-> side("bidPrice", "bidQty", <<"bidCount", "bidLp", "bidYield">>),
               depth |-> Max({0} \cup resting("askQty") \cup resting("bidQty")),
               flags |-> {x \in {"ASK_EMPTY", "BID_EMPTY"} :
                            resting(IF x = "ASK_EMPTY" THEN "askQty" ELSE "bidQty") = {}}]
      banded == has("dynUpper") /\ int(f("dynUpper")) > 0 /\ int(f("dynLower")) > 0
      trade == [price |-> int(f("price")), qty |-> int(f("qty")), cum |-> opt(f("cumulative")),
                side |-> IF has("aggressor") THEN code(f("aggressor"), "sell", "buy", "unknown") ELSE "none",
                yield |-> IF has("yield") THEN opt(f("yield")) ELSE [has |-> FALSE, of |-> 0],
                band |-> IF banded THEN [has |-> TRUE, upper |-> int(f("dynUpper")), lower |-> int(f("dynLower"))]
                         ELSE [has |-> FALSE, upper |-> 0, lower |-> 0]]
      limit == [applied |-> clock("time"), upper |-> int(f("upper")), lower |-> int(f("lower")),
                seq |-> int(f("sequence")), board |-> f("board"), category |-> <<t[2], t[3]>>]
  IN IF \E nm \in DOMAIN values : /\ nm[1] \in CountNames \cup PriceNames \cup YieldNames \cup TimeNames
                                  /\ ~GoodField(nm[1], values[nm], point)
     THEN [kind |-> "none"]
     ELSE CASE levels # {} /\ has("price") -> header("TradeQuote") @@ [trade |-> trade, quote |-> book]
            [] levels # {}  -> header("Quote")
                                 @@ [quote |-> book, expected |-> IF has("expected") THEN int(f("expected")) ELSE 0]
            [] has("price") -> header("Trade") @@ [trade |-> trade]
            [] has("upperStage") -> header("PriceLimit") @@ limit
                                      @@ [upperStage |-> int(f("upperStage")), lowerStage |-> int(f("lowerStage"))]
            [] has("upper") -> header("DynamicPriceLimit") @@ limit
                                 @@ [action |-> code(f("action"), "applied", "released", "unknown")]
            [] OTHER ->
                 [kind |-> "MarketSchedule", symbol |-> f("isin"), category |-> <<t[2], t[3]>>,
                  event |-> clock("eventTime"), expected |-> clock("expectedTime"), eventGroup |-> int(f("eventGroup")),
                  step |-> int(f("step")), scope |-> f("scope"), board |-> f("board"), eventId |-> f("eventId"),
                  session |-> <<f("action"), f("session")>>, stock |-> f("stock"), product |-> f("product"),
                  halt |-> <<f("haltReason"), f("haltType")>>, expansion |-> code(f("expansion"), "up", "down", "none"),
                  flags |-> {x \in {"INSTRUMENT_SCOPED", "EXPECTED_TIME_VALID"} :
                               f(IF x = "INSTRUMENT_SCOPED" THEN "isin" ELSE "expectedTime").kind # "blank"}]
=============================================================================

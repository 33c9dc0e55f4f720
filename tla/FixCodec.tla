------------------------------ MODULE FixCodec ------------------------------
(***************************************************************************)
(* FIX from bytes to records: framing (frame.rs), field values             *)
(* (tagvalue.rs), market data messages (market_data.rs) and the adapter    *)
(* that publishes them (SnapshotAdapter).                                  *)
(*                                                                         *)
(* Framing works on bytes.  Behind it a message is the sequence of its     *)
(* fields, each a tag, by name, and its text: a decimal is its sign and its *)
(* digits before and after the point, a date and a time are their numbers, *)
(* and a character that is no digit is the digit NotADigit.                *)
(***************************************************************************)
EXTENDS Wire, FiniteSets, SequencesExt, FiniteSetsExt

CONSTANTS
  MaxBegin,     \* the longest BeginString frame() waits for
  MaxDigits,    \* the most digits of BodyLength frame() waits for
  NumberLen,    \* the most digits parse_u64 reads
  MaxBody,      \* FIX_MAX_BODY_LENGTH
  BufferLen,    \* the N of FrameBuffer
  MaxEntries,   \* MD_MAX_ENTRIES
  MaxI64,       \* i64::MAX
  NsDigits,     \* digits of a fraction of a second
  LastDay,      \* the last day whose midnight fits u64 nanoseconds, and
  LastTime,     \* the last time of that day that does
  MaxLevel,     \* u8::MAX
  LongSymbols   \* symbols longer than SYMBOL_LEN

ASSUME FixCodecAssumption ==
  /\ MaxBegin \in Nat \ {0} /\ MaxDigits \in Nat \ {0} /\ NumberLen \in Nat \ {0} /\ MaxBody \in Nat \ {0}
  /\ BufferLen \in Nat \ {0} /\ MaxEntries \in Nat \ {0} /\ MaxI64 \in Nat \ {0} /\ NsDigits \in Nat \ {0}
  /\ MaxLevel \in Nat /\ LastDay \in Nat /\ LastTime \in Nat

-----------------------------------------------------------------------------
(* Framing.  Bytes are their ASCII codes.                                  *)
SOH == 1
Zero == 48
EqualSign == 61
TrailerLen == 7

Find(buf, from, b) ==
  LET at == {i \in from..Len(buf) : buf[i] = b} IN IF at = {} THEN 0 ELSE Min(at)

(* parse_u64: digits only, and no more than NumberLen of them.             *)
Number(bytes) ==
  IF bytes = <<>> \/ Len(bytes) > NumberLen \/ \E i \in DOMAIN bytes : bytes[i] - Zero \notin 0..9 THEN None
  ELSE FoldLeft(LAMBDA v, b : v * 10 + b - Zero, 0, bytes)
Checksum(bytes) == FoldLeft(LAMBDA v, b : (v + b) % 256, 0, bytes)
At(buf, from, bytes) == SubSeq(buf, from, from + Len(bytes) - 1) = bytes

(* frame: the first message of the buffer, and how many bytes it took.     *)
Frame(buf) ==
  LET n == Len(buf)
      bs == Find(buf, 3, SOH)            \* ends BeginString
      ds == Find(buf, bs + 3, SOH)       \* ends BodyLength
      len == Number(SubSeq(buf, bs + 3, ds - 1))
      trailer == ds + 1 + len
      total == trailer + TrailerLen - 1
      sum == Number(SubSeq(buf, trailer + 3, trailer + 5))
  IN IF n = 0 THEN Refuse("Incomplete")
     ELSE IF n = 1 THEN Refuse(IF buf[1] = Zero + 8 THEN "Incomplete" ELSE "BeginString")
     ELSE IF ~At(buf, 1, <<Zero + 8, EqualSign>>) THEN Refuse("BeginString")
     ELSE IF bs = 0 THEN Refuse(IF n > 2 + MaxBegin THEN "BeginString" ELSE "Incomplete")
     ELSE IF bs = 3 THEN Refuse("BeginString")
     ELSE IF n < bs + 2 THEN Refuse("Incomplete")
     ELSE IF ~At(buf, bs + 1, <<Zero + 9, EqualSign>>) THEN Refuse("BodyLength")
     ELSE IF ds = 0 THEN Refuse(IF n - bs > 2 + MaxDigits THEN "BodyLength" ELSE "Incomplete")
     ELSE IF len \notin 1..MaxBody THEN Refuse("BodyLength")
     ELSE IF n < total THEN Refuse("Incomplete")
     ELSE IF buf[trailer - 1] # SOH THEN Refuse("BodyLength")
     ELSE IF ~At(buf, trailer, <<Zero + 1, Zero, EqualSign>>) \/ buf[total] # SOH \/ sum = None
     THEN Refuse("Trailer")
     ELSE IF sum # Checksum(SubSeq(buf, 1, trailer - 1)) THEN Refuse("CheckSum")
     ELSE [begin |-> SubSeq(buf, 3, bs - 1), body |-> SubSeq(buf, ds + 1, trailer - 1), len |-> total]

(* FrameBuffer::peek: a message longer than the buffer can never complete. *)
PeekPatient(buf) == Frame(buf)   \* mutant: a full buffer waits for more
Peek(buf) ==
  LET f == Frame(buf) IN
  IF ~Accepted(f) /\ f.err = "Incomplete" /\ Len(buf) = BufferLen THEN Refuse("BodyLength") ELSE f

-----------------------------------------------------------------------------
(* Field values: [val, err], err "" for a value that was read.             *)
Ok(v) == [val |-> v, err |-> ""]
Err(e) == [val |-> 0, err |-> e]

Digits(v, ds) ==
  FoldLeft(LAMBDA a, d : IF a = None \/ d \notin 0..9 \/ a * 10 + d > MaxI64 THEN None ELSE a * 10 + d,
           v, ds)

(* parse_scaled_decimal: digits the scale cannot keep must be zeros.       *)
ParseScaled(t, scale) ==
  LET kept == FirstOf(t.frac, scale)
      over == SubSeq(t.frac, scale + 1, Len(t.frac))
      wrong == {i \in 1..Len(over) : over[i] # 0}
      v == Digits(Digits(0, t.int), kept)
      w == Digits(v, [i \in 1..(scale - Len(kept)) |-> 0])
  IN IF (t.int = <<>> /\ t.frac = <<>>) \/ v = None THEN Err("Malformed")
     ELSE IF wrong # {} THEN Err(IF over[Min(wrong)] \in 1..9 THEN "Precision" ELSE "Malformed")
     ELSE IF w = None THEN Err("Malformed")
     ELSE Ok(IF t.neg THEN -w ELSE w)

Unsigned(r) == IF r.err = "" /\ r.val < 0 THEN Err("BadValue") ELSE r

(* days_from_civil: days since 1970-01-01, of years that begin in March.   *)
DaysFromCivil(y, m, d) ==
  LET yy == IF m <= 2 THEN y - 1 ELSE y
      era == yy \div 400
      yoe == yy - era * 400
      doy == (153 * ((m + 9) % 12) + 2) \div 5 + d - 1
  IN era * 146097 + yoe * 365 + yoe \div 4 - yoe \div 100 + doy - 719468

(* parse_utc_date: a day before 1970, or one whose nanoseconds overflow a  *)
(* u64, is refused.                                                        *)
UtcDate(t) ==
  IF t.m \notin 1..12 \/ t.d \notin 1..31 \/ DaysFromCivil(t.y, t.m, t.d) \notin 0..LastDay THEN Err("BadValue")
  ELSE Ok(DaysFromCivil(t.y, t.m, t.d))

(* 60 seconds is a leap second.                                            *)
UtcTime(t) ==
  LET n == Len(t.frac) IN
  IF t.h \notin 0..23 \/ t.m \notin 0..59 \/ t.s \notin 0..60 \/ n > NsDigits \/ (t.point /\ n = 0)
     \/ Digits(0, t.frac) = None
  THEN Err("BadValue")
  ELSE Ok((t.h * 3600 + t.m * 60 + t.s) * 10^NsDigits + Digits(0, t.frac) * 10^(NsDigits - n))

-----------------------------------------------------------------------------
(* Market data messages.  An entry holds what its tags said; `has` are the *)
(* tags that were there.                                                   *)
GroupTags == {"type", "action", "price", "size", "date", "time", "orders", "level"}
EntryTypes == {"bid", "offer", "trade", "other"}
UpdateActions == {"New", "Change", "Delete"}
NewEntry == [type |-> "none", action |-> "New", price |-> 0, size |-> 0, date |-> 0, time |-> 0,
             orders |-> 0, level |-> 0, symbol |-> "", has |-> {}]
NewMessage == [err |-> "", type |-> "", symbol |-> "", count |-> 0, seq |-> 0, have |-> {},
               entries |-> <<>>, cur |-> <<>>, seen |-> [s \in {"bid", "offer"} |-> 0]]

FieldValue(f, scales) ==
  CASE f.tag = "price" -> ParseScaled(f.text, scales.price)
    [] f.tag = "size"  -> Unsigned(ParseScaled(f.text, scales.qty))
    [] f.tag = "date"  -> UtcDate(f.text)
    [] f.tag = "time"  -> UtcTime(f.text)
    [] f.tag = "type"  -> IF f.text \in EntryTypes THEN Ok(f.text) ELSE Err("BadValue")
    [] f.tag = "action" -> IF f.text \in UpdateActions THEN Ok(f.text) ELSE Err("UnknownUpdateAction")
    [] f.tag = "level" -> IF f.text < 0 THEN Err("BadValue")
                          ELSE Ok(Lesser(IF f.text = 0 THEN 0 ELSE f.text - 1, MaxLevel))
    [] OTHER -> IF f.text < 0 THEN Err("BadValue") ELSE Ok(f.text)

(* push_entry: an entry without MDPriceLevel has the rank it came at.      *)
PushEntryRanked(s, e) ==   \* mutant: an explicit level takes no rank
  IF e.type = "none" THEN [s EXCEPT !.err = "MissingTag"]
  ELSE IF Len(s.entries) = MaxEntries THEN [s EXCEPT !.err = "TooManyEntries"]
  ELSE LET side == e.type \in DOMAIN s.seen
           level == IF "level" \in e.has THEN e.level ELSE IF side THEN s.seen[e.type] ELSE 0
       IN [s EXCEPT !.entries = Append(@, [e EXCEPT !.level = level]),
                    !.seen = IF side /\ "level" \notin e.has THEN [@ EXCEPT ![e.type] = @ + 1] ELSE @]

PushEntry(s, e) ==
  IF e.type = "none" THEN [s EXCEPT !.err = "MissingTag"]
  ELSE IF Len(s.entries) = MaxEntries THEN [s EXCEPT !.err = "TooManyEntries"]
  ELSE LET side == e.type \in DOMAIN s.seen
           level == IF "level" \in e.has THEN e.level ELSE IF side THEN s.seen[e.type] ELSE 0
       IN [s EXCEPT !.entries = Append(@, [e EXCEPT !.level = level]),
                    !.seen = IF side THEN [@ EXCEPT ![e.type] = @ + 1] ELSE @]

CloseEntry(s) == IF s.cur = <<>> THEN s ELSE PushEntry([s EXCEPT !.cur = <<>>], s.cur[1])

(* The delimiter opens an entry, and so does a field the entry has.        *)
Opens(s, tag) ==
  \/ tag = IF s.type = "X" THEN "action" ELSE "type"
  \/ s.cur # <<>> /\ tag # "action" /\ tag \in s.cur[1].has

ReadGroupTag(s0, f, scales) ==
  LET s == IF Opens(s0, f.tag) THEN [CloseEntry(s0) EXCEPT !.cur = <<NewEntry>>] ELSE s0
      v == FieldValue(f, scales)
  IN IF s.err # "" THEN s
     ELSE IF s.cur = <<>> THEN [s EXCEPT !.err = "GroupTagOutsideEntry"]
     ELSE IF v.err # "" THEN [s EXCEPT !.err = v.err]
     ELSE [s EXCEPT !.cur = <<[@[1] EXCEPT ![f.tag] = v.val, !.has = @ \cup {f.tag}]>>]

(* One field.  SendingTime must be a time though nobody uses it;           *)
(* PossDupFlag and MDReqID play no part here.                              *)
ReadField(s, f, scales) ==
  IF s.err # "" THEN s
  ELSE IF f.tag \in GroupTags THEN ReadGroupTag(s, f, scales)
  ELSE IF f.tag = "msgtype"
  THEN IF f.text \in {"W", "X"} THEN [s EXCEPT !.type = f.text, !.have = @ \cup {f.tag}]
       ELSE [s EXCEPT !.err = "UnexpectedMsgType"]
  ELSE IF f.tag \in {"seq", "count"}
  THEN IF f.text < 0 THEN [s EXCEPT !.err = "BadValue"]
       ELSE [s EXCEPT ![f.tag] = f.text, !.have = @ \cup {f.tag}]
  ELSE IF f.tag = "sent"
  THEN IF UtcDate(f.text.date).err # "" \/ UtcTime(f.text.time).err # "" THEN [s EXCEPT !.err = "BadValue"]
       ELSE s
  ELSE IF f.tag = "symbol"
  THEN IF s.cur = <<>> THEN [s EXCEPT !.symbol = f.text]
       ELSE [s EXCEPT !.cur = <<[@[1] EXCEPT !.symbol = f.text]>>]
  ELSE s

ParseMessage(fields, scales) ==
  LET s == CloseEntry(FoldLeft(LAMBDA a, f : ReadField(a, f, scales), NewMessage, fields)) IN
  IF s.err # "" THEN Refuse(s.err)
  ELSE IF ~({"msgtype", "seq"} \subseteq s.have) THEN Refuse("MissingTag")
  ELSE IF s.count # Len(s.entries) THEN Refuse("EntryCount")
  ELSE [type |-> s.type, symbol |-> s.symbol, seq |-> s.seq, entries |-> s.entries]

-----------------------------------------------------------------------------
(* The adapter.  A venue time is <<day, time of day>>, <<>> for none.  The  *)
(* sum of the two is not checked: past the last instant a u64 holds, a      *)
(* release build begins again at 1970.                                     *)
Instant(day, time) ==
  IF day = LastDay /\ time > LastTime THEN <<0, time - LastTime - 1>> ELSE <<day, time>>
EntryTime(e) == IF {"date", "time"} \subseteq e.has THEN Instant(e.date, e.time) ELSE <<>>
MessageTime(msg) ==
  LET timed == SelectSeq(msg.entries, LAMBDA e : EntryTime(e) # <<>>) IN
  IF timed = <<>> THEN <<>> ELSE EntryTime(timed[1])
SizeOf(e, default) == IF "size" \in e.has THEN e.size ELSE default
WireSymbolErr(symbol) ==
  IF symbol = "" THEN "NoSymbol" ELSE IF symbol \in LongSymbols THEN "SymbolTooLong" ELSE ""

(* snapshot: the book sides of a full refresh, at the levels they name.    *)
Snapshot(msg, default) ==
  LET book == SelectSeq(msg.entries, LAMBDA e : e.type \in {"bid", "offer"} /\ e.level < MaxDepth)
      side(t) == [l \in 1..MaxDepth |->
                    LET at == {i \in 1..Len(book) : book[i].type = t /\ book[i].level = l - 1} IN
                    IF at = {} THEN <<0, 0>> ELSE <<book[Max(at)].price, SizeOf(book[Max(at)], default)>>]
      flags == {x \in {<<"bid", "BID_EMPTY">>, <<"offer", "ASK_EMPTY">>} :
                  \A i \in 1..Len(msg.entries) : msg.entries[i].type # x[1]}
      err == WireSymbolErr(msg.symbol)
  IN IF err # "" THEN [records |-> <<>>, err |-> err]
     ELSE IF \E i \in 1..Len(book) : SizeOf(book[i], default) = None
     THEN [records |-> <<>>, err |-> "NoSize"]
     ELSE [records |-> <<[kind |-> "Quote", symbol |-> msg.symbol, bids |-> side("bid"), asks |-> side("offer"),
                          shape |-> [depth |-> Max({0} \cup {book[i].level + 1 : i \in 1..Len(book)}),
                                     flags |-> {x[2] : x \in flags}],
                          time |-> MessageTime(msg)]>>,
           err |-> ""]

(* incremental: trades, until an entry that moves the book.                *)
Incremental(msg, default) ==
  FoldLeft(LAMBDA a, e :
    LET symbol == IF e.symbol = "" THEN msg.symbol ELSE e.symbol IN
    IF a.err # "" \/ e.type = "other" THEN a
    ELSE IF e.type # "trade" THEN [a EXCEPT !.err = "IncrementalBook"]
    ELSE IF WireSymbolErr(symbol) # "" THEN [a EXCEPT !.err = WireSymbolErr(symbol)]
    ELSE IF SizeOf(e, default) = None THEN [a EXCEPT !.err = "NoSize"]
    ELSE [a EXCEPT !.records = Append(@, [kind |-> "Trade", symbol |-> symbol, price |-> e.price,
                                          qty |-> SizeOf(e, default), side |-> "none",
                                          time |-> EntryTime(e)])],
    [records |-> <<>>, err |-> ""], msg.entries)

Adapt(msg, default) == IF msg.type = "W" THEN Snapshot(msg, default) ELSE Incremental(msg, default)

(* Pipeline::market_data with this adapter: decode, then publish.          *)
Publish(fields, scales, default) ==
  LET msg == ParseMessage(fields, scales) IN
  IF Accepted(msg) THEN Adapt(msg, default) ELSE [records |-> <<>>, err |-> msg.err]
=============================================================================

-------------------------------- MODULE Wire --------------------------------
(***************************************************************************)
(* The wire record as its readers see it: the limits of the two payloads   *)
(* that hold levels, the views a reader takes of them, and the validation  *)
(* a record read from bytes has to pass.                                   *)
(***************************************************************************)
EXTENDS Integers, Sequences

CONSTANTS
  MaxDepth,   \* WIRE_MAX_DEPTH
  MaxDelta    \* WIRE_MAX_DELTA_LEVELS

ASSUME WireAssumption == {MaxDepth, MaxDelta} \subseteq Nat \ {0}

None == -1            \* an Option that is None
Bad == -2             \* a text that is not exactly a number of the expected scale
Refuse(e) == [err |-> e]
Accepted(r) == DOMAIN r # {"err"}

Lesser(a, b) == IF a < b THEN a ELSE b
FirstOf(ls, n) == SubSeq(ls, 1, Lesser(n, Len(ls)))

(* SnapshotDeltaPayload::bids and ::asks: bids first, asks behind them.    *)
DeltaBids(r) == SubSeq(r.levels, 1, Lesser(r.bidCount, MaxDelta))
DeltaAsks(r) == SubSeq(r.levels, Lesser(r.bidCount, MaxDelta) + 1,
                       Lesser(Lesser(r.bidCount, MaxDelta) + r.askCount, MaxDelta))

(* The header's depth, then what the kind of payload asks for.             *)
ValidHeader(r) == r.kind = "Quote" => r.shape.depth <= MaxDepth
Validate(r) ==
  /\ ValidHeader(r)
  /\ r.kind = "Trade" => r.side \in {"none", "sell", "buy", "unknown"}
  /\ r.kind = "Delta" => r.bidCount + r.askCount <= MaxDelta
=============================================================================

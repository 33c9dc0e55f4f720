---------------------------- MODULE CodecsProofs ----------------------------
(***************************************************************************)
(* What the pure code promises, proved for every input: an accepted conf   *)
(* runs, a FIX connection is cut into its messages, and a crypto message   *)
(* becomes records of the stream that was asked for.  Each theorem has the *)
(* same shape: an answer is the function of its input (ConfInv, PeekInv,   *)
(* RouteInv), and the function is as promised.                             *)
(***************************************************************************)
EXTENDS Codecs, SequenceTheorems, WellFoundedInduction, TLAPS

-----------------------------------------------------------------------------
(* What check_placement has seen of the list when it comes to a feed.      *)
LEMMA EarlierOnes ==
  ASSUME NEW s, IsList(s), NEW i \in 1..Len(s)
  PROVE  /\ DOMAIN SubSeq(s, 1, i - 1) = 1..(i - 1)
         /\ \A j \in 1..(i - 1) : SubSeq(s, 1, i - 1)[j] = s[j]
<1>1. s \in Seq(Range(s))
  BY DEF IsList, Range
<1>2. i - 1 \in 1-1..Len(s)
  BY DEF IsList
<1> QED BY <1>1, <1>2, SubSeqProperties DEF IsList

(* The feed before is among the ones it has seen.                          *)
LEMMA Earlier ==
  ASSUME NEW s, IsList(s), NEW i \in 1..Len(s), NEW j \in 1..(i - 1)
  PROVE  s[j] \in Range(SubSeq(s, 1, i - 1))
<1>1. j \in DOMAIN SubSeq(s, 1, i - 1) /\ SubSeq(s, 1, i - 1)[j] = s[j]
  BY EarlierOnes
<1> QED BY <1>1 DEF Range

(* Two feeds of a list check_placement passed differ in name and ring, and *)
(* share no processor.                                                     *)
LEMMA PlacedApart ==
  ASSUME NEW feeds, NEW siblings, IsList(feeds), CheckPlacement(feeds, siblings),
         NEW i \in 1..Len(feeds), NEW j \in 1..Len(feeds), i # j
  PROVE  /\ feeds[i].name # feeds[j].name
         /\ feeds[i].ring # feeds[j].ring
         /\ Range(feeds[i].cores) \cap Range(feeds[j].cores) = {}
<1>1. ASSUME NEW a \in 1..Len(feeds), NEW b \in 1..(a - 1)
      PROVE  /\ feeds[a].name # feeds[b].name
             /\ feeds[a].ring # feeds[b].ring
             /\ Range(feeds[a].cores) \cap Range(feeds[b].cores) = {}
  <2>1. feeds[b] \in Range(SubSeq(feeds, 1, a - 1))
    BY <1>1, Earlier
  <2> QED BY <2>1 DEF CheckPlacement
<1>2. CASE i < j
  <2>1. i \in 1..(j - 1)  BY <1>2 DEF IsList
  <2> QED BY <1>1, <2>1
<1>3. CASE j < i
  <2>1. j \in 1..(i - 1)  BY <1>3 DEF IsList
  <2> QED BY <1>1, <2>1
<1> QED BY <1>2, <1>3 DEF IsList

(* Nothing runs beside a feed that spins, on a box that is known.          *)
LEMMA NobodyBeside ==
  ASSUME NEW feeds, NEW siblings, IsList(feeds), CheckPlacement(feeds, siblings), siblings # <<>>,
         NEW i \in 1..Len(feeds), NEW j \in 1..Len(feeds), i # j, feeds[i].spin
  PROVE  (UNION {siblings[c + 1] : c \in Range(feeds[i].cores)}) \cap Range(feeds[j].cores) = {}
<1>1. feeds[i] \in Range(feeds) /\ feeds[j] \in Range(feeds)
  BY DEF IsList, Range
<1>2. feeds[i].name # feeds[j].name /\ Range(feeds[i].cores) \cap Range(feeds[j].cores) = {}
  BY PlacedApart
<1>3. Range(feeds[j].cores) \cap SiblingsOutside(siblings, Range(feeds[i].cores)) = {}
  BY <1>1, <1>2 DEF CheckPlacement
<1> DEFINE beside == UNION {siblings[c + 1] : c \in Range(feeds[i].cores)}
<1>4. SiblingsOutside(siblings, Range(feeds[i].cores)) = beside \ Range(feeds[i].cores)
  BY DEF SiblingsOutside
<1> HIDE DEF beside
<1>5. beside \cap Range(feeds[j].cores) = {}
  BY <1>2, <1>3, <1>4
<1> QED BY <1>5 DEF beside

(* A feed check_placement passed gets its ring and its pin, except on a    *)
(* box nobody could read that lacks one of its processors.                 *)
LEMMA PlacedRuns ==
  ASSUME NEW feeds, NEW box, IsList(feeds), IsList(box.siblings),
         box.known => Len(box.siblings) \in 1..MaxLogical,
         CheckPlacement(feeds, IF box.known THEN box.siblings ELSE <<>>),
         NEW i \in 1..Len(feeds), IsList(feeds[i].cores), Range(feeds[i].cores) \subseteq Nat
  PROVE  /\ CreateRing(feeds[i])
         /\ \/ Ran(feeds[i], box) = "runs"
            \/ ~box.known /\ \E c \in Range(feeds[i].cores) : c \notin 0..(Len(box.siblings) - 1)
<1> DEFINE f == feeds[i]
           siblings == IF box.known THEN box.siblings ELSE <<>>
           logical == IF siblings = <<>> THEN MaxLogical ELSE Len(siblings)
<1>1. /\ f.ring \in RingNames /\ IsPowerOfTwo(f.slots) /\ f.cores # <<>>
      /\ \A c \in Range(f.cores) : c < logical
  BY DEF CheckPlacement
<1>2. MaxLogical \in Nat
  BY ConfAssumption
<1>3. Len(box.siblings) \in Nat
  BY DEF IsList
<1>4. \A k \in 1..Len(f.cores) : f.cores[k] \in Range(f.cores)
  BY DEF IsList, Range
<1> HIDE DEF f
<1>5. CASE box.known
  <2>1. siblings = box.siblings /\ siblings # <<>>
    BY <1>5
  <2>2. logical = Len(box.siblings) /\ logical <= MaxLogical
    BY <1>2, <1>3, <1>5, <2>1
  <2> HIDE DEF logical, siblings
  <2>3. \A c \in Range(f.cores) : c < Len(box.siblings) /\ c < MaxLogical
    BY <1>1, <1>2, <1>3, <2>2 DEF f
  <2>4. PinCurrentThread(f, box)
    BY <1>1, <1>4, <2>3 DEF PinCurrentThread, MaskOf
  <2> QED BY <1>1, <2>4 DEF CreateRing, Ran, f
<1>6. CASE ~box.known
  <2>1. logical = MaxLogical
    BY <1>6
  <2> HIDE DEF logical, siblings
  <2>2. MaskOf(f.cores)
    BY <1>1, <1>4, <2>1 DEF MaskOf
  <2>3. CASE \A c \in Range(f.cores) : c < Len(box.siblings)
    <3>1. PinCurrentThread(f, box)
      BY <1>1, <2>2, <2>3 DEF PinCurrentThread
    <3> QED BY <1>1, <3>1 DEF CreateRing, Ran, f
  <2>4. CASE \E c \in Range(f.cores) : ~(c < Len(box.siblings))
    <3>1. \E c \in Range(f.cores) : c \notin 0..(Len(box.siblings) - 1)
      BY <1>3, <2>4 DEF f
    <3> QED BY <1>1, <1>6, <3>1 DEF CreateRing, f
  <2> QED BY <2>3, <2>4
<1> QED BY <1>5, <1>6

(* No two feeds validate passed join one port.                             *)
LEMMA PortsApart ==
  ASSUME NEW feeds, NEW siblings, IsList(feeds), KrxValidate(feeds, siblings),
         \A k \in 1..Len(feeds) : IsList(feeds[k].sockets),
         NEW i \in 1..Len(feeds), NEW j \in 1..Len(feeds), i # j
  PROVE  {Ports[s] : s \in Range(feeds[i].sockets)} \cap {Ports[s] : s \in Range(feeds[j].sockets)} = {}
<1>1. ASSUME NEW a \in 1..Len(feeds), NEW b \in 1..(a - 1),
             NEW s \in Range(feeds[a].sockets), NEW t \in Range(feeds[b].sockets)
      PROVE  Ports[s] # Ports[t]
  <2>1. PICK k \in 1..Len(feeds[a].sockets) : s = feeds[a].sockets[k]
    BY <1>1 DEF IsList, Range
  <2>2. t \in UNION {Range(feeds[m].sockets) : m \in 1..(a - 1)}
    BY <1>1
  <2> QED BY <2>1, <2>2 DEF KrxValidate
<1>2. CASE i < j
  <2>1. i \in 1..(j - 1)  BY <1>2 DEF IsList
  <2> QED BY <1>1, <2>1
<1>3. CASE j < i
  <2>1. j \in 1..(i - 1)  BY <1>3 DEF IsList
  <2> QED BY <1>1, <2>1
<1>4. i < j \/ j < i
  BY DEF IsList
<1> QED BY <1>2, <1>3, <1>4

(* A delay of at least a second that fits its integer is not turned into   *)
(* none at all by the unchecked multiplication of the receiver's config.   *)
LEMMA DelayKept ==
  ASSUME NEW secs \in 1..((Word - 1) \div NsPerSec)
  PROVE  Nanos(secs) # 0
<1>1. Word \in Nat \ {0} /\ NsPerSec \in Nat \ {0}
  BY ConfAssumption
<1> DEFINE most == (Word - 1) \div NsPerSec
<1>2. most \in Nat /\ most * NsPerSec <= Word - 1
  BY <1>1
<1>3. secs \in Nat /\ secs >= 1 /\ secs <= most
  BY <1>2
<1>4. secs * NsPerSec <= most * NsPerSec /\ secs * NsPerSec >= 1 /\ secs * NsPerSec \in Nat
  BY <1>1, <1>2, <1>3
<1> HIDE DEF most
<1> DEFINE ns == secs * NsPerSec
<1>5. ns \in 1..(Word - 1)
  <2>1. most * NsPerSec \in Int
    BY <1>1, <1>2
  <2> QED BY <1>1, <1>2, <1>4, <2>1
<1> HIDE DEF ns
<1>6. ns % Word = ns
  BY <1>1, <1>5
<1>7. Nanos(secs) = ns % Word
  BY DEF Nanos, ns
<1> QED BY <1>5, <1>6, <1>7

-----------------------------------------------------------------------------
(* What is read of a feed's table, whatever else the family adds to it.    *)
LEMMA ItemsList ==
  ASSUME NEW t, NEW k \in DOMAIN t, IsTable(t), t[k].kind = "arr"
  PROVE  IsList(Items(t, k)) /\ Len(Items(t, k)) = Len(t[k].of)
         /\ \A i \in 1..Len(t[k].of) : Items(t, k)[i] = t[k].of[i].of
<1>1. Len(t[k].of) \in Nat
  BY DEF IsTable, IsList
<1>2. Items(t, k) = [i \in 1..Len(t[k].of) |-> t[k].of[i].of]
  BY DEF Items, Get
<1> QED BY <1>1, <1>2 DEF IsList

(* The cores of a table are naturals.                                      *)
LEMMA CoresRead ==
  ASSUME NEW t, IsTable(t), PlacementReads(t)
  PROVE  IsList(Items(t, "cores")) /\ Range(Items(t, "cores")) \subseteq Nat
<1>1. "cores" \in DOMAIN t /\ t["cores"].kind = "arr"
      /\ \A i \in 1..Len(t["cores"].of) : t["cores"].of[i].of \in 0..MaxU16
  BY DEF PlacementReads, RequiredU16s, ArrayOf
<1>2. IsList(Items(t, "cores")) /\ Len(Items(t, "cores")) = Len(t["cores"].of)
      /\ \A i \in 1..Len(t["cores"].of) : Items(t, "cores")[i] = t["cores"].of[i].of
  BY <1>1, ItemsList
<1>3. MaxU16 \in Nat
  BY ConfAssumption
<1>4. \A i \in 1..Len(Items(t, "cores")) : Items(t, "cores")[i] \in Nat
  BY <1>1, <1>2, <1>3
<1>5. DOMAIN Items(t, "cores") = 1..Len(Items(t, "cores"))
  BY <1>2 DEF IsList
<1> QED BY <1>2, <1>4, <1>5 DEF Range

(* The keys every feed has come before the family's own.                   *)
LEMMA PlacementKept ==
  ASSUME NEW t, NEW own
  PROVE  WithPlacement(t, own).cores = Items(t, "cores")
<1>1. "cores" \in DOMAIN Placement(t) /\ Placement(t).cores = Items(t, "cores")
  BY DEF Placement
<1> QED BY <1>1 DEF WithPlacement

(* ... and hide none of them.                                              *)
LEMMA OwnKept ==
  ASSUME NEW t, NEW own, NEW k \in DOMAIN own, k \notin {"name", "spin", "cores", "ring", "slots"}
  PROVE  WithPlacement(t, own)[k] = own[k]
<1>1. k \notin DOMAIN Placement(t)
  BY DEF Placement
<1> QED BY <1>1 DEF WithPlacement

(* What loading a conf gives validate and start to work with.              *)
LEMMA FeedsLoaded ==
  ASSUME NEW c \in Confs, Loads(c.family, c.root),
         FeedConfs(c.family, c.root) # <<>>
  PROVE  LET fs == FeedConfs(c.family, c.root) IN
         /\ IsList(fs)
         /\ \A i \in 1..Len(fs) :
              /\ IsList(fs[i].cores) /\ Range(fs[i].cores) \subseteq Nat
              /\ c.family = "krx" => IsList(fs[i].sockets)
              /\ c.family = "fix" => FromDecimals(fs[i].price) /\ FromDecimals(fs[i].qty)
<1> DEFINE root == c.root
           ts == Items(root, "feed")
           fs == FeedConfs(c.family, root)
<1>1. /\ c.family \in {"krx", "crypto", "fix"} /\ IsTable(root)
      /\ SubTables(root, "feed") => \A t \in Range(ts) : IsTable(t)
  BY ConfsAssumption
<1>2. /\ SubTables(root, "feed")
      /\ c.family = "krx" => \A t \in Range(ts) : KrxFeedReads(t)
      /\ c.family = "crypto" => \A t \in Range(ts) : CryptoFeedReads(t)
      /\ c.family = "fix" => \A t \in Range(ts) : FixFeedReads(t)
  BY <1>1 DEF Loads, KrxFromTable, CryptoFromTable, FixFromTable
<1>3. CASE "feed" \notin DOMAIN root
  <2>1. ts = [i \in 1..Len(<<>>) |-> <<>>[i].of]
    BY <1>3 DEF Items, Get
  <2>2. ts = <<>>
    BY <2>1
  <2>3. fs = <<>>
    BY <2>2 DEF FeedConfs
  <2> QED BY <2>3
<1>4. CASE "feed" \in DOMAIN root
  <2>1. IsList(ts)
    BY <1>1, <1>2, <1>4, ItemsList DEF SubTables, ArrayOf
  <2>2. Len(ts) \in Nat /\ \A i \in 1..Len(ts) : ts[i] \in Range(ts)
    BY <2>1 DEF IsList, Range
  <2> HIDE DEF ts, root
  <2>3. fs = [i \in 1..Len(ts) |->
                CASE c.family = "krx" -> KrxFeedConf(ts[i]) [] c.family = "crypto" -> CryptoFeedConf(ts[i])
                  [] c.family = "fix" -> FixFeedConf(ts[i])]
    BY DEF FeedConfs, ts, root
  <2> HIDE DEF fs
  <2>4. IsList(fs) /\ Len(fs) = Len(ts)
    <3> DEFINE conf(i) == CASE c.family = "krx" -> KrxFeedConf(ts[i])
                            [] c.family = "crypto" -> CryptoFeedConf(ts[i])
                            [] c.family = "fix" -> FixFeedConf(ts[i])
    <3>1. fs = [i \in 1..Len(ts) |-> conf(i)]
      BY <2>3
    <3> HIDE DEF conf
    <3> QED BY <2>2, <3>1 DEF IsList
  <2>5. ASSUME NEW i \in 1..Len(fs)
        PROVE  /\ IsList(fs[i].cores) /\ Range(fs[i].cores) \subseteq Nat
               /\ c.family = "krx" => IsList(fs[i].sockets)
               /\ c.family = "fix" => FromDecimals(fs[i].price) /\ FromDecimals(fs[i].qty)
    <3> DEFINE t == ts[i]
    <3>1. t \in Range(ts) /\ IsTable(t)
      BY <1>1, <1>2, <2>2, <2>4, <2>5 DEF ts
    <3> HIDE DEF t
    <3>2. CASE c.family = "krx"
      <4>1. KrxFeedReads(t) /\ fs[i] = KrxFeedConf(t)
        BY <1>2, <2>3, <2>4, <3>1, <3>2 DEF t, ts
      <4>2. fs[i].cores = Items(t, "cores")
        BY <4>1, PlacementKept DEF KrxFeedConf
      <4>3. fs[i].sockets = Items(t, "sockets")
        BY <4>1, OwnKept DEF KrxFeedConf
      <4>4. IsList(Items(t, "cores")) /\ Range(Items(t, "cores")) \subseteq Nat
        BY <3>1, <4>1, CoresRead DEF KrxFeedReads
      <4>5. IsList(Items(t, "sockets"))
        BY <3>1, <4>1, ItemsList DEF KrxFeedReads, RequiredStrs, ArrayOf
      <4> QED BY <3>2, <4>2, <4>3, <4>4, <4>5
    <3>3. CASE c.family = "crypto"
      <4>1. CryptoFeedReads(t) /\ fs[i] = CryptoFeedConf(t)
        BY <1>2, <2>3, <2>4, <3>1, <3>3 DEF t, ts
      <4>2. fs[i].cores = Items(t, "cores")
        BY <4>1, PlacementKept DEF CryptoFeedConf
      <4>3. IsList(Items(t, "cores")) /\ Range(Items(t, "cores")) \subseteq Nat
        BY <3>1, <4>1, CoresRead DEF CryptoFeedReads
      <4> QED BY <3>3, <4>2, <4>3
    <3>4. CASE c.family = "fix"
      <4>1. FixFeedReads(t) /\ fs[i] = FixFeedConf(t)
        BY <1>2, <2>3, <2>4, <3>1, <3>4 DEF t, ts
      <4>2. fs[i].cores = Items(t, "cores")
        BY <4>1, PlacementKept DEF FixFeedConf
      <4>3. fs[i].price = t["price_decimals"].of /\ fs[i].qty = t["qty_decimals"].of
        BY <4>1, OwnKept DEF FixFeedConf
      <4>4. IsList(Items(t, "cores")) /\ Range(Items(t, "cores")) \subseteq Nat
        BY <3>1, <4>1, CoresRead DEF FixFeedReads
      <4>5. FromDecimals(t["price_decimals"].of) /\ FromDecimals(t["qty_decimals"].of)
        <5>1. ASSUME NEW k, DecimalsRead(t, k) PROVE FromDecimals(t[k].of)
          BY <3>1, <5>1 DEF DecimalsRead, RequiredU64, OptionalU64, FromDecimals, IsTable
        <5> QED BY <4>1, <5>1 DEF FixFeedReads
      <4> QED BY <3>4, <4>2, <4>3, <4>4, <4>5
    <3> QED BY <1>1, <3>2, <3>3, <3>4
  <2> QED BY <2>4, <2>5 DEF fs, root
<1> QED BY <1>3, <1>4

(* A conf main accepted has been loaded and validated, and every feed of   *)
(* it has been started.                                                    *)
LEMMA MainAccepts ==
  ASSUME NEW c \in Confs, Accepted(Main(c.family, c.root, c.box))
  PROVE  LET fs == FeedConfs(c.family, c.root)
             m == Main(c.family, c.root, c.box)
         IN /\ Loads(c.family, c.root)
            /\ Validates(c.family, fs, IF c.box.known THEN c.box.siblings ELSE <<>>)
            /\ m.feeds = fs
            /\ \A i \in 1..Len(fs) : m.started[i] = Start(c.family, fs[i], c.box)
<1> DEFINE fs == FeedConfs(c.family, c.root)
           siblings == IF c.box.known THEN c.box.siblings ELSE <<>>
           begun == [i \in 1..Len(fs) |-> Start(c.family, fs[i], c.box)]
<1>1. Main(c.family, c.root, c.box) =
        IF ~Loads(c.family, c.root) THEN Refuse("ConfError")
        ELSE IF ~Validates(c.family, fs, siblings) THEN Refuse("RuleError")
        ELSE [feeds |-> fs, started |-> begun]
  BY DEF Main
<1>2. \A e : ~Accepted(Refuse(e))
  BY DEF Accepted, Refuse
<1>3. Loads(c.family, c.root) /\ Validates(c.family, fs, siblings)
  <2> HIDE DEF fs, siblings, begun
  <2> QED BY <1>1, <1>2
<1>4. Main(c.family, c.root, c.box) = [feeds |-> fs, started |-> begun]
  <2> HIDE DEF fs, siblings, begun
  <2> QED BY <1>1, <1>3
<1>5. Main(c.family, c.root, c.box).feeds = fs /\ Main(c.family, c.root, c.box).started = begun
  <2> HIDE DEF fs, siblings, begun
  <2> QED BY <1>4
<1> QED BY <1>3, <1>5

(* Every start ends where the pin does.                                    *)
LEMMA StartEndsAtPin ==
  ASSUME NEW c \in Confs, NEW f, CreateRing(f),
         c.family = "crypto" => RouterNew(f),
         c.family = "fix" => FromDecimals(f.price) /\ FromDecimals(f.qty)
  PROVE  Start(c.family, f, c.box) = Ran(f, c.box)
<1>1. c.family \in {"krx", "crypto", "fix"}
  BY ConfsAssumption
<1> QED BY <1>1 DEF Start, KrxStart, CryptoStart, FixStart

(* The answers to the calls of main.                                       *)
ConfInv ==
  call.api = "main" =>
    /\ call.input \in Confs
    /\ answer = Main(call.input.family, call.input.root, call.input.box)

(* Every answer of main is main of its conf.                               *)
LEMMA ConfAnswers == CodecsSpec => []ConfInv
<1>1. CodecsInit => ConfInv
  BY DEF CodecsInit, ConfInv, Idle
<1>2. ConfInv /\ [CodecsNext]_codecVars => ConfInv'
  <2> SUFFICES ASSUME ConfInv, [CodecsNext]_codecVars PROVE ConfInv'
    OBVIOUS
  <2>1. CASE CallMain
    <3>1. PICK c \in Confs : /\ call' = [api |-> "main", input |-> c]
                             /\ answer' = Main(c.family, c.root, c.box)
      BY <2>1 DEF CallMain, Returns
    <3>2. call'.input = c
      BY <3>1
    <3> QED BY <3>1, <3>2 DEF ConfInv
  <2>2. CASE CallDecode
    BY <2>2 DEF CallDecode, Returns, ConfInv
  <2>3. CASE CallIngest
    BY <2>3 DEF CallIngest, Returns, ConfInv
  <2>4. CASE CallIngestRest
    BY <2>4 DEF CallIngestRest, Returns, ConfInv
  <2>5. CASE CallPeek
    BY <2>5 DEF CallPeek, Returns, ConfInv
  <2>6. CASE CallFix
    BY <2>6 DEF CallFix, Returns, ConfInv
  <2>7. CASE CallKrx
    BY <2>7 DEF CallKrx, Returns, ConfInv
  <2>8. CASE Done
    BY <2>8 DEF Done, Idle, ConfInv
  <2>9. CASE UNCHANGED codecVars
    BY <2>9 DEF codecVars, ConfInv
  <2> QED BY <2>1, <2>2, <2>3, <2>4, <2>5, <2>6, <2>7, <2>8, <2>9 DEF CodecsNext
<1> QED BY <1>1, <1>2, PTL DEF CodecsSpec

(* A conf that main accepts runs as its rules promise, whatever the conf,  *)
(* the box and the width of the integers: every feed starts and gets its   *)
(* pin unless the box could not be read and lacks the processor, no two    *)
(* share a ring, a processor or a port, nothing runs beside a feed that    *)
(* spins, and no delay that fits becomes zero (check_placement, validate,  *)
(* the start functions, pin_current_thread).                               *)
THEOREM AcceptedConfsStart == CodecsSpec => []AcceptedConfStarts
<1>1. ConfInv => AcceptedConfStarts
  <2> SUFFICES ASSUME ConfInv, call.api = "main", Accepted(answer) PROVE AcceptedConfStarts
    BY DEF AcceptedConfStarts
  <2> DEFINE c == call.input
             box == c.box
             fs == FeedConfs(c.family, c.root)
             siblings == IF box.known THEN box.siblings ELSE <<>>
             beside(f) == UNION {box.siblings[k + 1] : k \in Range(f.cores)}
             ports(f) == {Ports[s] : s \in Range(f.sockets)}
  <2>1. c \in Confs /\ answer = Main(c.family, c.root, c.box)
    BY DEF ConfInv
  <2>2. /\ Loads(c.family, c.root) /\ Validates(c.family, fs, siblings)
        /\ answer.feeds = fs
        /\ \A i \in 1..Len(fs) : answer.started[i] = Start(c.family, fs[i], box)
    BY <2>1, MainAccepts
  <2>3. /\ c.family \in {"krx", "crypto", "fix"} /\ IsList(box.siblings)
        /\ box.known => Len(box.siblings) \in 1..MaxLogical
    BY <2>1, ConfsAssumption
  <2> HIDE DEF c, fs, siblings
  <2>4. /\ CheckPlacement(fs, siblings)
        /\ c.family = "krx" => KrxValidate(fs, siblings)
        /\ c.family = "crypto" => \A f \in Range(fs) : RouterNew(f)
    BY <2>2, <2>3 DEF Validates, KrxValidate, CryptoValidate, FixValidate
  <2>5. fs # <<>>
    BY <2>4 DEF CheckPlacement
  <2>6. /\ IsList(fs)
        /\ \A i \in 1..Len(fs) :
             /\ IsList(fs[i].cores) /\ Range(fs[i].cores) \subseteq Nat
             /\ c.family = "krx" => IsList(fs[i].sockets)
             /\ c.family = "fix" => FromDecimals(fs[i].price) /\ FromDecimals(fs[i].qty)
    BY <2>1, <2>2, <2>5, FeedsLoaded DEF fs
  <2>7. ASSUME NEW i \in 1..Len(fs)
        PROVE  \/ answer.started[i] = "runs"
               \/ ~box.known /\ \E k \in Range(fs[i].cores) : k \notin 0..(Len(box.siblings) - 1)
    <3>1. /\ CreateRing(fs[i])
          /\ \/ Ran(fs[i], box) = "runs"
             \/ ~box.known /\ \E k \in Range(fs[i].cores) : k \notin 0..(Len(box.siblings) - 1)
      BY <2>3, <2>4, <2>6, <2>7, PlacedRuns DEF siblings
    <3>2. c.family = "crypto" => RouterNew(fs[i])
      BY <2>4, <2>6, <2>7 DEF IsList, Range
    <3>3. Start(c.family, fs[i], box) = Ran(fs[i], box)
      BY <2>1, <2>6, <2>7, <3>1, <3>2, StartEndsAtPin
    <3> QED BY <2>2, <2>7, <3>1, <3>3
  <2>8. ASSUME NEW i \in 1..Len(fs), NEW j \in 1..Len(fs), i # j
        PROVE  /\ fs[i].ring # fs[j].ring /\ Range(fs[i].cores) \cap Range(fs[j].cores) = {}
               /\ c.family = "krx" => ports(fs[i]) \cap ports(fs[j]) = {}
               /\ box.known /\ fs[i].spin => beside(fs[i]) \cap Range(fs[j].cores) = {}
    <3>1. fs[i].ring # fs[j].ring /\ Range(fs[i].cores) \cap Range(fs[j].cores) = {}
      BY <2>4, <2>6, <2>8, PlacedApart
    <3>2. c.family = "krx" => ports(fs[i]) \cap ports(fs[j]) = {}
      BY <2>4, <2>6, <2>8, PortsApart
    <3>3. ASSUME box.known, fs[i].spin
          PROVE  beside(fs[i]) \cap Range(fs[j].cores) = {}
      <4>1. siblings = box.siblings /\ siblings # <<>>
        BY <2>3, <3>3 DEF siblings
      <4>2. (UNION {siblings[k + 1] : k \in Range(fs[i].cores)}) \cap Range(fs[j].cores) = {}
        BY <2>4, <2>6, <2>8, <3>3, <4>1, NobodyBeside
      <4> QED BY <4>1, <4>2
    <3> HIDE DEF beside, ports
    <3> QED BY <3>1, <3>2, <3>3
  <2>9. \A i \in 1..Len(fs) : \A k \in DOMAIN fs[i].timers :
          fs[i].timers[k] \in 1..((Word - 1) \div NsPerSec) => ReceiverConfig(fs[i])[k] # 0
    BY DelayKept DEF ReceiverConfig
  <2> HIDE DEF beside, ports
  <2> DEFINE Runs(xs) ==
        /\ xs # <<>>
        /\ \A i \in 1..Len(xs) :
             \/ answer.started[i] = "runs"
             \/ ~box.known /\ \E k \in Range(xs[i].cores) : k \notin 0..(Len(box.siblings) - 1)
        /\ \A i, j \in 1..Len(xs) : i # j =>
             /\ xs[i].ring # xs[j].ring /\ Range(xs[i].cores) \cap Range(xs[j].cores) = {}
             /\ c.family = "krx" => ports(xs[i]) \cap ports(xs[j]) = {}
             /\ box.known /\ xs[i].spin => beside(xs[i]) \cap Range(xs[j].cores) = {}
        /\ c.family # "krx" =>
             \A i \in 1..Len(xs) : \A k \in DOMAIN xs[i].timers :
               xs[i].timers[k] \in 1..((Word - 1) \div NsPerSec) => ReceiverConfig(xs[i])[k] # 0
  <2>10. Runs(fs)
    BY <2>5, <2>7, <2>8, <2>9
  <2>11. Runs(answer.feeds)
    <3> HIDE DEF Runs
    <3> QED BY <2>2, <2>10
  <2> QED BY <2>11 DEF AcceptedConfStarts, beside, ports, c
<1> QED BY <1>1, ConfAnswers, PTL

-----------------------------------------------------------------------------
(* A non-empty set of positions has a first one.                           *)
LEMMA FirstPosition ==
  ASSUME NEW S, S \subseteq Nat, S # {}
  PROVE  Min(S) \in S /\ \A y \in S : Min(S) <= y
<1> DEFINE Below == OpToRel(<, Nat)
<1>1. IsWellFoundedOn(Below, Nat)
  BY NatLessThanWellFounded
<1>2. ASSUME NEW x \in Nat, NEW y \in Nat, <<y, x>> \notin Below PROVE x <= y
  BY <1>2 DEF OpToRel
<1> HIDE DEF Below
<1>3. PICK x \in S : \A y \in S : ~(<<y, x>> \in Below)
  BY <1>1, WFMin
<1>4. \A y \in S : x <= y
  BY <1>2, <1>3
<1> QED BY <1>4 DEF Min

(* What find answers: the first place of the byte, or 0.                   *)
LEMMA FindFirst ==
  ASSUME NEW buf \in Seq(Byte), NEW from \in Nat, NEW b, Find(buf, from, b) # 0
  PROVE  /\ Find(buf, from, b) \in from..Len(buf) /\ buf[Find(buf, from, b)] = b
         /\ \A i \in from..Len(buf) : i < Find(buf, from, b) => buf[i] # b
<1> DEFINE places == {i \in from..Len(buf) : buf[i] = b}
<1>1. Len(buf) \in Nat  OBVIOUS
<1>2. places # {} /\ Find(buf, from, b) = Min(places)
  BY DEF Find
<1>3. places \subseteq Nat
  BY <1>1
<1>4. Min(places) \in places /\ \A y \in places : Min(places) <= y
  <2> HIDE DEF places
  <2> QED BY <1>2, <1>3, FirstPosition
<1> DEFINE m == Find(buf, from, b)
<1>5. m \in places /\ \A y \in places : m <= y
  BY <1>2, <1>4
<1> HIDE DEF m
<1>6. /\ m \in from..Len(buf) /\ buf[m] = b
      /\ \A i \in from..Len(buf) : i < m => buf[i] # b
  BY <1>1, <1>5
<1> QED BY <1>6 DEF m

(* The first place of a byte is what find answers.                         *)
LEMMA FindAt ==
  ASSUME NEW buf \in Seq(Byte), NEW from \in Nat \ {0}, NEW b, NEW k \in from..Len(buf), buf[k] = b,
         \A i \in from..Len(buf) : i < k => buf[i] # b
  PROVE  Find(buf, from, b) = k
<1> DEFINE places == {i \in from..Len(buf) : buf[i] = b}
<1>1. Len(buf) \in Nat  OBVIOUS
<1>2. k \in places
  OBVIOUS
<1>3. places \subseteq Nat
  BY <1>1
<1>4. Min(places) \in places /\ \A y \in places : Min(places) <= y
  <2> HIDE DEF places
  <2> QED BY <1>2, <1>3, FirstPosition
<1>5. Min(places) = k
  BY <1>1, <1>2, <1>4
<1>6. Find(buf, from, b) = Min(places)
  BY <1>2 DEF Find
<1> QED BY <1>5, <1>6

(* A byte that is not there is not found.                                  *)
LEMMA FindNone ==
  ASSUME NEW buf \in Seq(Byte), NEW from, NEW b, \A i \in from..Len(buf) : buf[i] # b
  PROVE  Find(buf, from, b) = 0
BY DEF Find

(* Text that is a number is made of digits, and not of too many.           *)
LEMMA NumberDigits ==
  ASSUME NEW s, Number(s) # None
  PROVE  s # <<>> /\ ~(Len(s) > NumberLen) /\ \A i \in DOMAIN s : s[i] - Zero \in 0..9
BY DEF Number

(* Two sequences one behind the other.                                     *)
LEMMA Joined ==
  ASSUME NEW a \in Seq(Byte), NEW b \in Seq(Byte)
  PROVE  /\ a \o b \in Seq(Byte) /\ Len(a \o b) = Len(a) + Len(b)
         /\ \A i \in 1..Len(a) : (a \o b)[i] = a[i]
         /\ \A i \in 1..Len(b) : (a \o b)[Len(a) + i] = b[i]
<1>1. Len(a) \in Nat /\ Len(b) \in Nat
  OBVIOUS
<1>2. /\ a \o b \in Seq(Byte) /\ Len(a \o b) = Len(a) + Len(b)
      /\ \A i \in 1..Len(a) + Len(b) : (a \o b)[i] = IF i <= Len(a) THEN a[i] ELSE b[i - Len(a)]
  BY ConcatProperties
<1>3. ASSUME NEW i \in 1..Len(b) PROVE (a \o b)[Len(a) + i] = b[i]
  <2>1. Len(a) + i \in 1..Len(a) + Len(b) /\ ~(Len(a) + i <= Len(a)) /\ Len(a) + i - Len(a) = i
    BY <1>1
  <2> QED BY <1>2, <2>1
<1>4. ASSUME NEW i \in 1..Len(a) PROVE (a \o b)[i] = a[i]
  <2>1. i \in 1..Len(a) + Len(b) /\ i <= Len(a)
    BY <1>1
  <2> QED BY <1>2, <2>1
<1> QED BY <1>2, <1>3, <1>4

(* A part of a buffer, from what it holds.                                 *)
LEMMA PartIs ==
  ASSUME NEW buf \in Seq(Byte), NEW s \in Seq(Byte), NEW from \in Nat \ {0}, NEW to \in Int,
         to = from + Len(s) - 1, to <= Len(buf), \A i \in 1..Len(s) : buf[from + i - 1] = s[i]
  PROVE  SubSeq(buf, from, to) = s
<1> DEFINE t == SubSeq(buf, from, to)
<1>1. Len(s) \in Nat /\ Len(buf) \in Nat
  OBVIOUS
<1>2. \A i \in from..to : buf[i] \in Byte
  BY <1>1
<1>3. /\ t \in Seq(Byte) /\ Len(t) = IF from <= to THEN to - from + 1 ELSE 0
      /\ \A i \in 1..to - from + 1 : t[i] = buf[from + i - 1]
  BY <1>1, <1>2, SubSeqProperties
<1> HIDE DEF t
<1>4. Len(t) = Len(s) /\ \A i \in 1..Len(s) : t[i] = s[i]
  BY <1>1, <1>3
<1>5. t = s
  BY <1>3, <1>4, SeqEqual
<1> QED BY <1>5 DEF t

(* The same for a part of n bytes behind place k.                          *)
LEMMA PieceIs ==
  ASSUME NEW buf \in Seq(Byte), NEW s \in Seq(Byte), NEW from \in Nat \ {0}, NEW to \in Int, NEW n, NEW k,
         n = Len(s), k = from - 1, to = k + n, to <= Len(buf), \A i \in 1..n : buf[k + i] = s[i]
  PROVE  SubSeq(buf, from, to) = s
<1>1. n \in Nat /\ k \in Int
  OBVIOUS
<1>2. to = from + n - 1 /\ \A i \in 1..n : from + i - 1 = k + i
  BY <1>1
<1>3. \A i \in 1..n : buf[from + i - 1] = s[i]
  BY <1>2
<1>4. to = from + Len(s) - 1 /\ \A i \in 1..Len(s) : buf[from + i - 1] = s[i]
  BY <1>2, <1>3
<1> QED BY <1>4, PartIs

(* What a part of a buffer holds.                                          *)
LEMMA PartOf ==
  ASSUME NEW buf \in Seq(Byte), NEW from \in Nat \ {0}, NEW to \in Int, from - 1 <= to, to <= Len(buf)
  PROVE  /\ SubSeq(buf, from, to) \in Seq(Byte)
         /\ Len(SubSeq(buf, from, to)) = to - from + 1
         /\ \A i \in 1..(to - from + 1) : SubSeq(buf, from, to)[i] = buf[from + i - 1]
<1>1. Len(buf) \in Nat
  OBVIOUS
<1>2. \A i \in from..to : buf[i] \in Byte
  BY <1>1
<1> QED BY <1>1, <1>2, SubSeqProperties

(* The same for a part of n bytes behind place k.                          *)
LEMMA PieceOf ==
  ASSUME NEW buf \in Seq(Byte), NEW from \in Nat \ {0}, NEW to \in Int, NEW n \in Nat, NEW k \in Int,
         to = from + n - 1, k = from - 1, to <= Len(buf)
  PROVE  /\ SubSeq(buf, from, to) \in Seq(Byte) /\ Len(SubSeq(buf, from, to)) = n
         /\ \A i \in 1..n : SubSeq(buf, from, to)[i] = buf[k + i]
<1>1. from - 1 <= to /\ to - from + 1 = n
  OBVIOUS
<1> DEFINE t == SubSeq(buf, from, to)
<1>2. t \in Seq(Byte) /\ Len(t) = n /\ \A i \in 1..n : t[i] = buf[from + i - 1]
  BY <1>1, PartOf
<1> HIDE DEF t
<1>3. \A i \in 1..n : from + i - 1 = k + i
  OBVIOUS
<1>4. \A i \in 1..n : t[i] = buf[k + i]
  BY <1>2, <1>3
<1> QED BY <1>2, <1>4 DEF t

(* Two bytes at a place.                                                   *)
LEMMA TwoAt ==
  ASSUME NEW buf \in Seq(Byte), NEW x \in Byte, NEW y \in Byte, NEW from \in Nat \ {0}, from + 1 <= Len(buf)
  PROVE  At(buf, from, <<x, y>>) <=> buf[from] = x /\ buf[from + 1] = y
<1> DEFINE t == SubSeq(buf, from, from + 1)
<1>0. /\ t \in Seq(Byte) /\ Len(t) = from + 1 - from + 1
      /\ \A i \in 1..(from + 1 - from + 1) : t[i] = buf[from + i - 1]
  <2>1. from + 1 \in Int /\ from - 1 <= from + 1
    OBVIOUS
  <2> QED BY <2>1, PartOf
<1>1. t \in Seq(Byte) /\ Len(t) = 2 /\ t[1] = buf[from] /\ t[2] = buf[from + 1]
  <2> HIDE DEF t
  <2> QED BY <1>0
<1>2. <<x, y>> \in Seq(Byte) /\ Len(<<x, y>>) = 2
  OBVIOUS
<1>3. At(buf, from, <<x, y>>) <=> t = <<x, y>>
  BY <1>2 DEF At
<1> HIDE DEF t
<1>4. ASSUME t[1] = x, t[2] = y PROVE t = <<x, y>>
  BY <1>1, <1>2, <1>4, SeqEqual
<1> QED BY <1>1, <1>3, <1>4

(* Three bytes at a place.                                                 *)
LEMMA ThreeAt ==
  ASSUME NEW buf \in Seq(Byte), NEW x \in Byte, NEW y \in Byte, NEW z \in Byte, NEW from \in Nat \ {0},
         from + 2 <= Len(buf)
  PROVE  At(buf, from, <<x, y, z>>) <=> buf[from] = x /\ buf[from + 1] = y /\ buf[from + 2] = z
<1> DEFINE t == SubSeq(buf, from, from + 2)
<1>0. /\ t \in Seq(Byte) /\ Len(t) = from + 2 - from + 1
      /\ \A i \in 1..(from + 2 - from + 1) : t[i] = buf[from + i - 1]
  <2> DEFINE to == from + 2
  <2>1. to \in Int /\ from - 1 <= to /\ to <= Len(buf)
    OBVIOUS
  <2> HIDE DEF to
  <2>2. /\ SubSeq(buf, from, to) \in Seq(Byte) /\ Len(SubSeq(buf, from, to)) = to - from + 1
        /\ \A i \in 1..(to - from + 1) : SubSeq(buf, from, to)[i] = buf[from + i - 1]
    BY <2>1, PartOf
  <2> QED BY <2>2 DEF to
<1>1. t \in Seq(Byte) /\ Len(t) = 3 /\ t[1] = buf[from] /\ t[2] = buf[from + 1] /\ t[3] = buf[from + 2]
  <2> HIDE DEF t
  <2> QED BY <1>0
<1>2. <<x, y, z>> \in Seq(Byte) /\ Len(<<x, y, z>>) = 3
  OBVIOUS
<1>3. At(buf, from, <<x, y, z>>) <=> t = <<x, y, z>>
  BY <1>2 DEF At
<1> HIDE DEF t
<1>4. ASSUME t[1] = x, t[2] = y, t[3] = z PROVE t = <<x, y, z>>
  BY <1>1, <1>2, <1>4, SeqEqual
<1> QED BY <1>1, <1>3, <1>4

(* The bytes of a message, place by place.                                 *)
Parts(m) == {m.begin, m.digits, m.body, m.sum} \subseteq Seq(Byte) /\ Len(m.sum) = 3
Laid(e, m) ==
  LET p == Len(m.begin)
      q == p + Len(m.digits)
      r == q + Len(m.body)
  IN /\ Len(e) >= r + 13
     /\ e[1] = Zero + 8 /\ e[2] = EqualSign
     /\ \A i \in 1..Len(m.begin) : e[2 + i] = m.begin[i]
     /\ e[p + 3] = SOH /\ e[p + 4] = Zero + 9 /\ e[p + 5] = EqualSign
     /\ \A i \in 1..Len(m.digits) : e[p + 5 + i] = m.digits[i]
     /\ e[q + 6] = SOH
     /\ \A i \in 1..Len(m.body) : e[q + 6 + i] = m.body[i]
     /\ e[r + 7] = Zero + 1 /\ e[r + 8] = Zero /\ e[r + 9] = EqualSign
     /\ \A i \in 1..3 : e[r + 9 + i] = m.sum[i]
     /\ e[r + 13] = SOH

(* A message on the wire has each of its parts at its place.               *)
LEMMA EncodeLaid ==
  ASSUME NEW m, Parts(m)
  PROVE  /\ Encode(m) \in Seq(Byte) /\ Laid(Encode(m), m)
         /\ Len(Encode(m)) = Len(m.begin) + Len(m.digits) + Len(m.body) + 13
         /\ Summed(m) \in Seq(Byte) /\ Len(Summed(m)) = Len(m.begin) + Len(m.digits) + Len(m.body) + 6
         /\ \A i \in 1..Len(Summed(m)) : Encode(m)[i] = Summed(m)[i]
<1> DEFINE q1 == <<Zero + 8, EqualSign>>
           k3 == <<SOH, Zero + 9, EqualSign>>
           k5 == <<SOH>>
           k7 == <<Zero + 1, Zero, EqualSign>>
           q2 == q1 \o m.begin
           q3 == q2 \o k3
           q4 == q3 \o m.digits
           q5 == q4 \o k5
           q6 == q5 \o m.body
           q7 == q6 \o k7
           q8 == q7 \o m.sum
           q9 == q8 \o k5
<1>1. /\ m.begin \in Seq(Byte) /\ m.digits \in Seq(Byte) /\ m.body \in Seq(Byte) /\ m.sum \in Seq(Byte)
      /\ Len(m.begin) \in Nat /\ Len(m.digits) \in Nat /\ Len(m.body) \in Nat /\ Len(m.sum) = 3
  BY DEF Parts
<1>2. /\ q1 \in Seq(Byte) /\ Len(q1) = 2 /\ q1[1] = Zero + 8 /\ q1[2] = EqualSign
      /\ k5 \in Seq(Byte) /\ Len(k5) = 1 /\ k5[1] = SOH
  BY DEF Byte, Zero, EqualSign, SOH
<1>3. /\ k3 \in Seq(Byte) /\ Len(k3) = 3 /\ k3[1] = SOH /\ k3[2] = Zero + 9 /\ k3[3] = EqualSign
      /\ k7 \in Seq(Byte) /\ Len(k7) = 3 /\ k7[1] = Zero + 1 /\ k7[2] = Zero /\ k7[3] = EqualSign
  BY DEF Byte, Zero, EqualSign, SOH
<1>4. Summed(m) = q6 /\ Encode(m) = q9
  BY DEF Summed, Encode
<1> DEFINE p == Len(m.begin)
           d == Len(m.digits)
           l == Len(m.body)
           q == p + d
           r == q + l
<1>5. /\ p \in Nat /\ q \in Nat /\ r \in Nat /\ p <= q /\ q <= r
      /\ Len(m.begin) = p /\ Len(m.digits) = q - p /\ Len(m.body) = r - q
  <2>1. p \in Nat /\ d \in Nat /\ l \in Nat
    BY <1>1
  <2> HIDE DEF p, d, l
  <2>2. q \in Nat /\ r \in Nat /\ p <= q /\ q <= r /\ d = q - p /\ l = r - q
    BY <2>1
  <2> QED BY <2>1, <2>2 DEF p, d, l
<1> HIDE DEF q1, k3, k5, k7, p, d, l, q, r
<1>10. /\ q2 \in Seq(Byte) /\ Len(q2) = p + 2
       /\ \A i \in 1..(2) : q2[i] = q1[i]
       /\ \A i \in 1..p : q2[2 + i] = m.begin[i]
  <2>1. /\ q2 \in Seq(Byte) /\ Len(q2) = 2 + p
        /\ \A i \in 1..(2) : q2[i] = q1[i]
        /\ \A i \in 1..p : q2[2 + i] = m.begin[i]
    <3>1. /\ q1 \in Seq(Byte) /\ m.begin \in Seq(Byte) /\ 2 \in Nat /\ p \in Nat
          /\ Len(q1) = 2 /\ Len(m.begin) = p
      BY <1>1, <1>5, <1>2
    <3>2. /\ q2 \in Seq(Byte) /\ Len(q2) = Len(q1) + Len(m.begin)
          /\ \A i \in 1..Len(q1) : q2[i] = q1[i]
          /\ \A i \in 1..Len(m.begin) : q2[Len(q1) + i] = m.begin[i]
      BY <3>1, Joined
    <3> HIDE DEF q2
    <3> QED BY <3>1, <3>2
  <2>2. 2 + p = p + 2
    BY <1>5
  <2> QED BY <2>1, <2>2
<1> HIDE DEF q2
<1>11. /\ q3 \in Seq(Byte) /\ Len(q3) = p + 5
       /\ \A i \in 1..(p + 2) : q3[i] = q2[i]
       /\ \A i \in 1..3 : q3[p + 2 + i] = k3[i]
  <2>1. /\ q3 \in Seq(Byte) /\ Len(q3) = p + 2 + 3
        /\ \A i \in 1..(p + 2) : q3[i] = q2[i]
        /\ \A i \in 1..3 : q3[p + 2 + i] = k3[i]
    <3>1. /\ q2 \in Seq(Byte) /\ k3 \in Seq(Byte) /\ p + 2 \in Nat /\ 3 \in Nat
          /\ Len(q2) = p + 2 /\ Len(k3) = 3
      BY <1>2, <1>3, <1>5, <1>10
    <3>2. /\ q3 \in Seq(Byte) /\ Len(q3) = Len(q2) + Len(k3)
          /\ \A i \in 1..Len(q2) : q3[i] = q2[i]
          /\ \A i \in 1..Len(k3) : q3[Len(q2) + i] = k3[i]
      BY <3>1, Joined
    <3> HIDE DEF q3
    <3> QED BY <3>1, <3>2
  <2>2. p + 2 + 3 = p + 5
    BY <1>5
  <2> QED BY <2>1, <2>2
<1> HIDE DEF q3
<1>12. /\ q4 \in Seq(Byte) /\ Len(q4) = q + 5
       /\ \A i \in 1..(p + 5) : q4[i] = q3[i]
       /\ \A i \in 1..(q - p) : q4[p + 5 + i] = m.digits[i]
  <2>1. /\ q4 \in Seq(Byte) /\ Len(q4) = p + 5 + (q - p)
        /\ \A i \in 1..(p + 5) : q4[i] = q3[i]
        /\ \A i \in 1..(q - p) : q4[p + 5 + i] = m.digits[i]
    <3>1. /\ q3 \in Seq(Byte) /\ m.digits \in Seq(Byte) /\ p + 5 \in Nat /\ q - p \in Nat
          /\ Len(q3) = p + 5 /\ Len(m.digits) = q - p
      BY <1>1, <1>5, <1>11
    <3>2. /\ q4 \in Seq(Byte) /\ Len(q4) = Len(q3) + Len(m.digits)
          /\ \A i \in 1..Len(q3) : q4[i] = q3[i]
          /\ \A i \in 1..Len(m.digits) : q4[Len(q3) + i] = m.digits[i]
      BY <3>1, Joined
    <3> HIDE DEF q4
    <3> QED BY <3>1, <3>2
  <2>2. p + 5 + (q - p) = q + 5
    BY <1>5
  <2> QED BY <2>1, <2>2
<1> HIDE DEF q4
<1>13. /\ q5 \in Seq(Byte) /\ Len(q5) = q + 6
       /\ \A i \in 1..(q + 5) : q5[i] = q4[i]
       /\ \A i \in 1..(1) : q5[q + 5 + i] = k5[i]
  <2>1. /\ q5 \in Seq(Byte) /\ Len(q5) = q + 5 + (1)
        /\ \A i \in 1..(q + 5) : q5[i] = q4[i]
        /\ \A i \in 1..(1) : q5[q + 5 + i] = k5[i]
    <3>1. /\ q4 \in Seq(Byte) /\ k5 \in Seq(Byte) /\ q + 5 \in Nat /\ 1 \in Nat
          /\ Len(q4) = q + 5 /\ Len(k5) = 1
      BY <1>2, <1>3, <1>5, <1>12
    <3>2. /\ q5 \in Seq(Byte) /\ Len(q5) = Len(q4) + Len(k5)
          /\ \A i \in 1..Len(q4) : q5[i] = q4[i]
          /\ \A i \in 1..Len(k5) : q5[Len(q4) + i] = k5[i]
      BY <3>1, Joined
    <3> HIDE DEF q5
    <3> QED BY <3>1, <3>2
  <2>2. q + 5 + (1) = q + 6
    BY <1>5
  <2> QED BY <2>1, <2>2
<1> HIDE DEF q5
<1>14. /\ q6 \in Seq(Byte) /\ Len(q6) = r + 6
       /\ \A i \in 1..(q + 6) : q6[i] = q5[i]
       /\ \A i \in 1..(r - q) : q6[q + 6 + i] = m.body[i]
  <2>1. /\ q6 \in Seq(Byte) /\ Len(q6) = q + 6 + (r - q)
        /\ \A i \in 1..(q + 6) : q6[i] = q5[i]
        /\ \A i \in 1..(r - q) : q6[q + 6 + i] = m.body[i]
    <3>1. /\ q5 \in Seq(Byte) /\ m.body \in Seq(Byte) /\ q + 6 \in Nat /\ r - q \in Nat
          /\ Len(q5) = q + 6 /\ Len(m.body) = r - q
      BY <1>1, <1>5, <1>13
    <3>2. /\ q6 \in Seq(Byte) /\ Len(q6) = Len(q5) + Len(m.body)
          /\ \A i \in 1..Len(q5) : q6[i] = q5[i]
          /\ \A i \in 1..Len(m.body) : q6[Len(q5) + i] = m.body[i]
      BY <3>1, Joined
    <3> HIDE DEF q6
    <3> QED BY <3>1, <3>2
  <2>2. q + 6 + (r - q) = r + 6
    BY <1>5
  <2> QED BY <2>1, <2>2
<1> HIDE DEF q6
<1>15. /\ q7 \in Seq(Byte) /\ Len(q7) = r + 9
       /\ \A i \in 1..(r + 6) : q7[i] = q6[i]
       /\ \A i \in 1..3 : q7[r + 6 + i] = k7[i]
  <2>1. /\ q7 \in Seq(Byte) /\ Len(q7) = r + 6 + 3
        /\ \A i \in 1..(r + 6) : q7[i] = q6[i]
        /\ \A i \in 1..3 : q7[r + 6 + i] = k7[i]
    <3>1. /\ q6 \in Seq(Byte) /\ k7 \in Seq(Byte) /\ r + 6 \in Nat /\ 3 \in Nat
          /\ Len(q6) = r + 6 /\ Len(k7) = 3
      BY <1>2, <1>3, <1>5, <1>14
    <3>2. /\ q7 \in Seq(Byte) /\ Len(q7) = Len(q6) + Len(k7)
          /\ \A i \in 1..Len(q6) : q7[i] = q6[i]
          /\ \A i \in 1..Len(k7) : q7[Len(q6) + i] = k7[i]
      BY <3>1, Joined
    <3> HIDE DEF q7
    <3> QED BY <3>1, <3>2
  <2>2. r + 6 + 3 = r + 9
    BY <1>5
  <2> QED BY <2>1, <2>2
<1> HIDE DEF q7
<1>16. /\ q8 \in Seq(Byte) /\ Len(q8) = r + 12
       /\ \A i \in 1..(r + 9) : q8[i] = q7[i]
       /\ \A i \in 1..3 : q8[r + 9 + i] = m.sum[i]
  <2>1. /\ q8 \in Seq(Byte) /\ Len(q8) = r + 9 + 3
        /\ \A i \in 1..(r + 9) : q8[i] = q7[i]
        /\ \A i \in 1..3 : q8[r + 9 + i] = m.sum[i]
    <3>1. /\ q7 \in Seq(Byte) /\ m.sum \in Seq(Byte) /\ r + 9 \in Nat /\ 3 \in Nat
          /\ Len(q7) = r + 9 /\ Len(m.sum) = 3
      BY <1>1, <1>5, <1>15
    <3>2. /\ q8 \in Seq(Byte) /\ Len(q8) = Len(q7) + Len(m.sum)
          /\ \A i \in 1..Len(q7) : q8[i] = q7[i]
          /\ \A i \in 1..Len(m.sum) : q8[Len(q7) + i] = m.sum[i]
      BY <3>1, Joined
    <3> HIDE DEF q8
    <3> QED BY <3>1, <3>2
  <2>2. r + 9 + 3 = r + 12
    BY <1>5
  <2> QED BY <2>1, <2>2
<1> HIDE DEF q8
<1>17. /\ q9 \in Seq(Byte) /\ Len(q9) = r + 13
       /\ \A i \in 1..(r + 12) : q9[i] = q8[i]
       /\ \A i \in 1..(1) : q9[r + 12 + i] = k5[i]
  <2>1. /\ q9 \in Seq(Byte) /\ Len(q9) = r + 12 + (1)
        /\ \A i \in 1..(r + 12) : q9[i] = q8[i]
        /\ \A i \in 1..(1) : q9[r + 12 + i] = k5[i]
    <3>1. /\ q8 \in Seq(Byte) /\ k5 \in Seq(Byte) /\ r + 12 \in Nat /\ 1 \in Nat
          /\ Len(q8) = r + 12 /\ Len(k5) = 1
      BY <1>2, <1>3, <1>5, <1>16
    <3>2. /\ q9 \in Seq(Byte) /\ Len(q9) = Len(q8) + Len(k5)
          /\ \A i \in 1..Len(q8) : q9[i] = q8[i]
          /\ \A i \in 1..Len(k5) : q9[Len(q8) + i] = k5[i]
      BY <3>1, Joined
    <3> HIDE DEF q9
    <3> QED BY <3>1, <3>2
  <2>2. r + 12 + (1) = r + 13
    BY <1>5
  <2> QED BY <2>1, <2>2
<1> HIDE DEF q9
<1>22. \A i \in 1..(r + 12) : q9[i] = q8[i]
  BY <1>17
<1>23. \A i \in 1..(r + 9) : q9[i] = q7[i]
  <2>1. ASSUME NEW i \in 1..(r + 9) PROVE q9[i] = q7[i]
    <3>1. i \in 1..(r + 12)
      BY <1>5
    <3> QED BY <1>16, <1>22, <3>1
  <2> QED BY <2>1
<1>24. \A i \in 1..(r + 6) : q9[i] = q6[i]
  <2>1. ASSUME NEW i \in 1..(r + 6) PROVE q9[i] = q6[i]
    <3>1. i \in 1..(r + 9)
      BY <1>5
    <3> QED BY <1>15, <1>23, <3>1
  <2> QED BY <2>1
<1>25. \A i \in 1..(q + 6) : q9[i] = q5[i]
  <2>1. ASSUME NEW i \in 1..(q + 6) PROVE q9[i] = q5[i]
    <3>1. i \in 1..(r + 6)
      BY <1>5
    <3> QED BY <1>14, <1>24, <3>1
  <2> QED BY <2>1
<1>26. \A i \in 1..(q + 5) : q9[i] = q4[i]
  <2>1. ASSUME NEW i \in 1..(q + 5) PROVE q9[i] = q4[i]
    <3>1. i \in 1..(q + 6)
      BY <1>5
    <3> QED BY <1>13, <1>25, <3>1
  <2> QED BY <2>1
<1>27. \A i \in 1..(p + 5) : q9[i] = q3[i]
  <2>1. ASSUME NEW i \in 1..(p + 5) PROVE q9[i] = q3[i]
    <3>1. i \in 1..(q + 5)
      BY <1>5
    <3> QED BY <1>12, <1>26, <3>1
  <2> QED BY <2>1
<1>28. \A i \in 1..(p + 2) : q9[i] = q2[i]
  <2>1. ASSUME NEW i \in 1..(p + 2) PROVE q9[i] = q2[i]
    <3>1. i \in 1..(p + 5)
      BY <1>5
    <3> QED BY <1>11, <1>27, <3>1
  <2> QED BY <2>1
<1>29. \A i \in 1..(2) : q9[i] = q1[i]
  <2>1. ASSUME NEW i \in 1..(2) PROVE q9[i] = q1[i]
    <3>1. i \in 1..(p + 2)
      BY <1>5
    <3> QED BY <1>10, <1>28, <3>1
  <2> QED BY <2>1
<1>30. q9[1] = Zero + 8 /\ q9[2] = EqualSign
  BY <1>2, <1>29
<1>31. \A i \in 1..Len(m.begin) : q9[2 + i] = m.begin[i]
  <2>1. ASSUME NEW i \in 1..p PROVE q9[2 + i] = m.begin[i]
    <3>1. 2 + i \in 1..(p + 2)
      BY <1>5
    <3> QED BY <1>10, <1>28, <3>1
  <2> QED BY <1>5, <2>1
<1>32. q9[p + 3] = SOH /\ q9[p + 4] = Zero + 9 /\ q9[p + 5] = EqualSign
  <2>1. q3[p + 2 + 1] = SOH /\ q3[p + 2 + 2] = Zero + 9 /\ q3[p + 2 + 3] = EqualSign
    BY <1>3, <1>11
  <2> QED BY <1>5, <1>27, <2>1
<1>33. \A i \in 1..Len(m.digits) : q9[p + 5 + i] = m.digits[i]
  <2>1. ASSUME NEW i \in 1..(q - p) PROVE q9[p + 5 + i] = m.digits[i]
    <3>1. p + 5 + i \in 1..(q + 5)
      BY <1>5
    <3> QED BY <1>12, <1>26, <3>1
  <2> QED BY <1>5, <2>1
<1>34. q9[q + 6] = SOH
  <2>1. q5[q + 5 + 1] = SOH
    BY <1>2, <1>13
  <2> QED BY <1>5, <1>25, <2>1
<1>35. \A i \in 1..Len(m.body) : q9[q + 6 + i] = m.body[i]
  <2>1. ASSUME NEW i \in 1..(r - q) PROVE q9[q + 6 + i] = m.body[i]
    <3>1. q + 6 + i \in 1..(r + 6)
      BY <1>5
    <3> QED BY <1>14, <1>24, <3>1
  <2> QED BY <1>5, <2>1
<1>36. q9[r + 7] = Zero + 1 /\ q9[r + 8] = Zero /\ q9[r + 9] = EqualSign
  <2>1. q7[r + 6 + 1] = Zero + 1 /\ q7[r + 6 + 2] = Zero /\ q7[r + 6 + 3] = EqualSign
    BY <1>3, <1>15
  <2> QED BY <1>5, <1>23, <2>1
<1>37. \A i \in 1..3 : q9[r + 9 + i] = m.sum[i]
  <2>1. ASSUME NEW i \in 1..3 PROVE q9[r + 9 + i] = m.sum[i]
    <3>1. r + 9 + i \in 1..(r + 12)
      BY <1>5
    <3> QED BY <1>16, <1>22, <3>1
  <2> QED BY <2>1
<1>38. q9[r + 13] = SOH
  <2>1. q9[r + 12 + 1] = SOH
    BY <1>2, <1>17
  <2> QED BY <1>5, <2>1
<1>39. Laid(q9, m)
  <2>1. Len(q9) >= r + 13
    BY <1>5, <1>17
  <2> QED BY <1>30, <1>31, <1>32, <1>33, <1>34, <1>35, <1>36, <1>37, <1>38, <2>1 DEF Laid, p, d, l, q, r
<1>40. \A i \in 1..Len(q6) : q9[i] = q6[i]
  BY <1>14, <1>24
<1>41. Len(q9) = Len(m.begin) + Len(m.digits) + Len(m.body) + 13
       /\ Len(q6) = Len(m.begin) + Len(m.digits) + Len(m.body) + 6
  BY <1>14, <1>17 DEF p, d, l, q, r
<1> QED BY <1>4, <1>14, <1>17, <1>39, <1>40, <1>41

(* The conditions of frame, one after the other, for the bytes it accepts: *)
(* bs and ds end BeginString and BodyLength, trailer is where CheckSum     *)
(* starts and total where it ends.                                         *)
Passes(buf, bs, ds, len, trailer, total) ==
  /\ Len(buf) # 0 /\ Len(buf) # 1 /\ At(buf, 1, <<Zero + 8, EqualSign>>)
  /\ bs # 0 /\ bs # 3 /\ ~(Len(buf) < bs + 2) /\ At(buf, bs + 1, <<Zero + 9, EqualSign>>)
  /\ ds # 0 /\ len \in 1..MaxBody /\ ~(Len(buf) < total) /\ buf[trailer - 1] = SOH
  /\ At(buf, trailer, <<Zero + 1, Zero, EqualSign>>) /\ buf[total] = SOH
  /\ Number(SubSeq(buf, trailer + 3, trailer + 5)) # None
  /\ Number(SubSeq(buf, trailer + 3, trailer + 5)) = Checksum(SubSeq(buf, 1, trailer - 1))

(* frame accepts what passes its conditions, and nothing else.             *)
LEMMA FrameAccepts ==
  ASSUME NEW buf, NEW bs, NEW ds, NEW len, NEW trailer, NEW total,
         bs = Find(buf, 3, SOH), ds = Find(buf, bs + 3, SOH), len = Number(SubSeq(buf, bs + 3, ds - 1)),
         trailer = ds + 1 + len, total = trailer + TrailerLen - 1
  PROVE  /\ Passes(buf, bs, ds, len, trailer, total) =>
              Frame(buf) = [begin |-> SubSeq(buf, 3, bs - 1), body |-> SubSeq(buf, ds + 1, trailer - 1), len |-> total]
         /\ ~Passes(buf, bs, ds, len, trailer, total) => ~Accepted(Frame(buf))
<1>1. \A e : ~Accepted(Refuse(e))
  BY DEF Accepted, Refuse
<1> QED BY <1>1 DEF Frame, Passes

(* Frame reads a message that stands at the head of the buffer.            *)
LEMMA FrameReads ==
  ASSUME NEW buf \in Seq(Byte), NEW m, Parts(m), WellFormed(m), Laid(buf, m),
         SubSeq(buf, 1, Len(Summed(m))) = Summed(m)
  PROVE  Frame(buf) = [begin |-> m.begin, body |-> m.body, len |-> Len(Encode(m))]
<1> DEFINE p == Len(m.begin)
           d == Len(m.digits)
           l == Len(m.body)
           q == p + d
           r == q + l
<1>1. /\ m.begin \in Seq(Byte) /\ m.digits \in Seq(Byte) /\ m.body \in Seq(Byte) /\ m.sum \in Seq(Byte)
      /\ Len(m.sum) = 3
  BY DEF Parts
<1>2. /\ p \in Nat /\ d \in Nat /\ l \in Nat /\ p > 0 /\ d > 0 /\ l > 0 /\ l \in 1..MaxBody
  <2>1. p \in Nat /\ d \in Nat /\ l \in Nat
    BY <1>1
  <2>2. m.begin # <<>> /\ m.digits # <<>> /\ l \in 1..MaxBody
    <3>1. Number(m.digits) = Len(m.body) /\ Len(m.body) \in 1..MaxBody /\ m.begin # <<>>
      BY DEF WellFormed
    <3>2. Number(m.digits) # None
      BY <2>1, <3>1 DEF None
    <3> QED BY <3>1, <3>2, NumberDigits
  <2>3. p # 0 /\ d # 0
    BY <1>1, <2>2, EmptySeq
  <2>4. l > 0
    <3> HIDE DEF l
    <3> QED BY <2>1, <2>2
  <2> QED BY <2>1, <2>2, <2>3, <2>4
<1>3. Len(buf) >= r + 13
  BY DEF Laid
<1>20. /\ buf[1] = Zero + 8 /\ buf[2] = EqualSign
       /\ buf[p + 3] = SOH /\ buf[p + 4] = Zero + 9 /\ buf[p + 5] = EqualSign /\ buf[q + 6] = SOH
       /\ buf[r + 7] = Zero + 1 /\ buf[r + 8] = Zero /\ buf[r + 9] = EqualSign /\ buf[r + 13] = SOH
  BY DEF Laid
<1>21. \A i \in 1..p : buf[2 + i] = m.begin[i]
  BY DEF Laid
<1>22. \A i \in 1..d : buf[p + 5 + i] = m.digits[i]
  BY DEF Laid
<1>23. \A i \in 1..l : buf[q + 6 + i] = m.body[i]
  BY DEF Laid
<1>24. \A i \in 1..3 : buf[r + 9 + i] = m.sum[i]
  BY DEF Laid
<1>4. /\ \A i \in 1..p : m.begin[i] # SOH
      /\ \A i \in 1..d : m.digits[i] # SOH
      /\ m.body[l] = SOH
      /\ Number(m.digits) = l /\ Number(m.sum) # None /\ Number(m.sum) = Checksum(Summed(m))
  <2>1. SOH \notin Range(m.begin) /\ m.body[Len(m.body)] = SOH /\ Number(m.digits) = Len(m.body)
        /\ Number(m.sum) # None /\ Number(m.sum) = Checksum(Summed(m))
    BY DEF WellFormed
  <2>2. ASSUME NEW i \in 1..p PROVE m.begin[i] # SOH
    BY <1>1, <2>1, <2>2 DEF Range
  <2>3. ASSUME NEW i \in 1..d PROVE m.digits[i] # SOH
    <3>1. Number(m.digits) # None
      BY <1>2, <2>1 DEF None
    <3>2. i \in DOMAIN m.digits
      BY <1>1, <2>3
    <3>3. m.digits[i] - Zero \in 0..9
      BY <3>1, <3>2, NumberDigits
    <3> QED BY <3>3 DEF SOH, Zero
  <2> QED BY <2>1, <2>2, <2>3
<1>5. Len(Summed(m)) = r + 6 /\ Len(Encode(m)) = r + 13
  BY EncodeLaid
<1>6. Len(buf) \in Nat
  OBVIOUS
<1> DEFINE dig == m.digits
           bdy == m.body
           bgn == m.begin
           sm == m.sum
<1>7. /\ bgn \in Seq(Byte) /\ dig \in Seq(Byte) /\ bdy \in Seq(Byte) /\ sm \in Seq(Byte)
      /\ Len(bgn) = p /\ Len(dig) = d /\ Len(bdy) = l /\ Len(sm) = 3
  BY <1>1
<1> HIDE DEF p, d, l
<1>25. q \in Nat /\ r \in Nat /\ q = p + d /\ r = q + l
  BY <1>2
<1> HIDE DEF q, r
<1>8. Find(buf, 3, SOH) = p + 3
  <2>1. p + 3 \in 3..Len(buf)
    BY <1>2, <1>3, <1>6, <1>25
  <2>2. ASSUME NEW i \in 3..Len(buf), i < p + 3 PROVE buf[i] # SOH
    <3>1. PICK j \in 1..p : i = 2 + j
      <4>1. i - 2 \in 1..p /\ i = 2 + (i - 2)
        BY <1>2, <2>2
      <4> QED BY <4>1
    <3>2. buf[2 + j] = m.begin[j] /\ m.begin[j] # SOH
      BY <1>4, <1>21
    <3> QED BY <3>1, <3>2
  <2>3. buf[p + 3] = SOH
    BY <1>20
  <2> QED BY <2>1, <2>2, <2>3, FindAt
<1>9. Find(buf, p + 6, SOH) = q + 6
  <2>1. q + 6 \in (p + 6)..Len(buf) /\ p + 6 \in Nat \ {0}
    BY <1>2, <1>3, <1>6, <1>25
  <2>2. ASSUME NEW i \in (p + 6)..Len(buf), i < q + 6 PROVE buf[i] # SOH
    <3>1. PICK j \in 1..d : i = p + 5 + j
      <4>1. i - p - 5 \in 1..d /\ i = p + 5 + (i - p - 5)
        BY <1>2, <1>25, <2>2
      <4> QED BY <4>1
    <3>2. buf[p + 5 + j] = m.digits[j] /\ m.digits[j] # SOH
      BY <1>4, <1>22
    <3> QED BY <3>1, <3>2
  <2>3. buf[q + 6] = SOH
    BY <1>20
  <2> DEFINE from == p + 6
             k == q + 6
  <2>4. /\ from \in Nat \ {0} /\ k \in from..Len(buf) /\ buf[k] = SOH
        /\ \A i \in from..Len(buf) : i < k => buf[i] # SOH
    BY <2>1, <2>2, <2>3
  <2> HIDE DEF from, k
  <2>5. Find(buf, from, SOH) = k
    BY <2>4, FindAt
  <2> QED BY <2>5 DEF from, k
<1>10. SubSeq(buf, p + 6, q + 5) = dig
  <2> DEFINE from == p + 6
             to == q + 5
             k == p + 5
  <2>1. from \in Nat \ {0} /\ to \in Int /\ k = from - 1 /\ to = k + d /\ to <= Len(buf)
    BY <1>2, <1>3, <1>6, <1>25
  <2>2. dig \in Seq(Byte) /\ d = Len(dig) /\ \A i \in 1..d : buf[k + i] = dig[i]
    BY <1>7, <1>22
  <2> HIDE DEF from, to, k, dig
  <2>3. SubSeq(buf, from, to) = dig
    BY <2>1, <2>2, PieceIs
  <2> QED BY <2>3 DEF from, to
<1>11. SubSeq(buf, q + 7, r + 6) = bdy
  <2> DEFINE from == q + 7
             to == r + 6
             k == q + 6
  <2>1. from \in Nat \ {0} /\ to \in Int /\ k = from - 1 /\ to = k + l /\ to <= Len(buf)
    BY <1>2, <1>3, <1>6, <1>25
  <2>2. bdy \in Seq(Byte) /\ l = Len(bdy) /\ \A i \in 1..l : buf[k + i] = bdy[i]
    BY <1>7, <1>23
  <2> HIDE DEF from, to, k, bdy
  <2>3. SubSeq(buf, from, to) = bdy
    BY <2>1, <2>2, PieceIs
  <2> QED BY <2>3 DEF from, to
<1>12. SubSeq(buf, 3, p + 2) = bgn
  <2> DEFINE from == 3
             to == p + 2
             k == 2
  <2>1. from \in Nat \ {0} /\ to \in Int /\ k = from - 1 /\ to = k + p /\ to <= Len(buf)
    BY <1>2, <1>3, <1>6, <1>25
  <2>2. bgn \in Seq(Byte) /\ p = Len(bgn) /\ \A i \in 1..p : buf[k + i] = bgn[i]
    BY <1>7, <1>21
  <2> HIDE DEF from, to, k, bgn
  <2>3. SubSeq(buf, from, to) = bgn
    BY <2>1, <2>2, PieceIs
  <2> QED BY <2>3 DEF from, to
<1>13. SubSeq(buf, r + 10, r + 12) = sm
  <2> DEFINE from == r + 10
             to == r + 12
             k == r + 9
  <2>1. from \in Nat \ {0} /\ to \in Int /\ k = from - 1 /\ to = k + 3 /\ to <= Len(buf)
    BY <1>2, <1>3, <1>6, <1>25
  <2>2. sm \in Seq(Byte) /\ 3 = Len(sm) /\ \A i \in 1..3 : buf[k + i] = sm[i]
    BY <1>7, <1>24
  <2> HIDE DEF from, to, k, sm
  <2>3. SubSeq(buf, from, to) = sm
    BY <2>1, <2>2, PieceIs
  <2> QED BY <2>3 DEF from, to
<1>14. buf[r + 6] = SOH
  <2>1. l \in 1..l /\ q + 6 + l = r + 6
    BY <1>2, <1>25
  <2> QED BY <1>4, <1>23, <2>1
<1>15. /\ At(buf, 1, <<Zero + 8, EqualSign>>) /\ At(buf, p + 4, <<Zero + 9, EqualSign>>)
       /\ At(buf, r + 7, <<Zero + 1, Zero, EqualSign>>)
  <2>1. /\ Zero + 8 \in Byte /\ Zero + 9 \in Byte /\ Zero + 1 \in Byte /\ Zero \in Byte /\ EqualSign \in Byte
    BY DEF Byte, Zero, EqualSign
  <2>2. /\ 1 \in Nat \ {0} /\ 1 + 1 <= Len(buf) /\ p + 4 \in Nat \ {0} /\ p + 4 + 1 <= Len(buf)
        /\ r + 7 \in Nat \ {0} /\ r + 7 + 2 <= Len(buf)
    BY <1>2, <1>3, <1>6, <1>25
  <2>3. buf[1 + 1] = EqualSign /\ buf[p + 4 + 1] = EqualSign /\ buf[r + 7 + 1] = Zero /\ buf[r + 7 + 2] = EqualSign
    <3>1. /\ buf[2] = EqualSign /\ buf[p + 5] = EqualSign /\ buf[r + 8] = Zero /\ buf[r + 9] = EqualSign
      BY <1>20
    <3>2. 1 + 1 = 2 /\ p + 4 + 1 = p + 5 /\ r + 7 + 1 = r + 8 /\ r + 7 + 2 = r + 9
      BY <1>2, <1>25
    <3> QED BY <3>1, <3>2
  <2>4. At(buf, 1, <<Zero + 8, EqualSign>>)
    BY <1>20, <2>1, <2>2, <2>3, TwoAt
  <2>5. At(buf, p + 4, <<Zero + 9, EqualSign>>)
    BY <1>20, <2>1, <2>2, <2>3, TwoAt
  <2>6. At(buf, r + 7, <<Zero + 1, Zero, EqualSign>>)
    BY <1>20, <2>1, <2>2, <2>3, ThreeAt
  <2> QED BY <2>4, <2>5, <2>6
<1>16. /\ p + 3 + 3 = p + 6 /\ q + 6 - 1 = q + 5 /\ q + 6 + 1 + l = r + 7 /\ r + 7 + TrailerLen - 1 = r + 13
       /\ p + 3 + 1 = p + 4 /\ r + 7 - 1 = r + 6 /\ r + 7 + 3 = r + 10 /\ r + 7 + 5 = r + 12 /\ p + 3 - 1 = p + 2
       /\ q + 6 + 1 = q + 7 /\ p + 3 # 0 /\ p + 3 # 3 /\ q + 6 # 0
       /\ Len(buf) # 0 /\ Len(buf) # 1 /\ ~(Len(buf) < p + 3 + 2) /\ ~(Len(buf) < r + 13)
  <2>1. q \in Nat /\ r \in Nat /\ q + l = r /\ q >= p /\ r >= q
    BY <1>2, <1>25
  <2>3. q + 6 + 1 + l = r + 7 /\ r + 7 + TrailerLen - 1 = r + 13
    BY <1>2, <2>1 DEF TrailerLen
  <2>4. /\ p + 3 + 3 = p + 6 /\ q + 6 - 1 = q + 5 /\ p + 3 + 1 = p + 4 /\ r + 7 - 1 = r + 6
        /\ r + 7 + 3 = r + 10 /\ r + 7 + 5 = r + 12 /\ p + 3 - 1 = p + 2 /\ q + 6 + 1 = q + 7
    BY <1>2, <2>1
  <2>5. /\ p + 3 # 0 /\ p + 3 # 3 /\ q + 6 # 0
        /\ Len(buf) # 0 /\ Len(buf) # 1 /\ ~(Len(buf) < p + 3 + 2) /\ ~(Len(buf) < r + 13)
    <3>1. p + 3 # 0 /\ p + 3 # 3 /\ q + 6 # 0
      BY <1>2, <2>1
    <3> DEFINE n == Len(buf)
    <3>2. n \in Nat /\ n >= r + 13
      BY <1>3, <1>6
    <3> HIDE DEF n
    <3>3. n # 0 /\ n # 1 /\ ~(n < p + 3 + 2) /\ ~(n < r + 13)
      BY <1>2, <2>1, <3>2
    <3> QED BY <3>1, <3>3 DEF n
  <2> QED BY <2>3, <2>4, <2>5
<1> HIDE DEF dig, bdy, bgn, sm
<1> DEFINE bs == p + 3
           ds == q + 6
           trailer == r + 7
           total == r + 13
<1>17. /\ bs = p + 3 /\ ds = q + 6 /\ trailer = r + 7 /\ total = r + 13
       /\ bs + 3 = p + 6 /\ bs + 1 = p + 4 /\ bs - 1 = p + 2 /\ ds - 1 = q + 5 /\ ds + 1 = q + 7
       /\ trailer - 1 = r + 6 /\ trailer + 3 = r + 10 /\ trailer + 5 = r + 12
       /\ trailer = ds + 1 + l /\ total = trailer + TrailerLen - 1 /\ bs # 0 /\ bs # 3 /\ ds # 0
       /\ Len(buf) # 0 /\ Len(buf) # 1 /\ ~(Len(buf) < bs + 2) /\ ~(Len(buf) < total)
  <2>1. bs = p + 3 /\ ds = q + 6 /\ trailer = r + 7 /\ total = r + 13
    OBVIOUS
  <2>2. bs # 0 /\ bs # 3 /\ ds # 0 /\ ~(Len(buf) < bs + 2) /\ ~(Len(buf) < total)
    BY <1>16
  <2>3. Len(buf) # 0 /\ Len(buf) # 1
    BY <1>16
  <2>4. /\ bs + 3 = p + 6 /\ bs + 1 = p + 4 /\ bs - 1 = p + 2 /\ ds - 1 = q + 5 /\ ds + 1 = q + 7
        /\ trailer - 1 = r + 6 /\ trailer + 3 = r + 10 /\ trailer + 5 = r + 12
    BY <1>2, <1>25
  <2>5. trailer = ds + 1 + l /\ total = trailer + TrailerLen - 1
    BY <1>16
  <2> HIDE DEF bs, ds, trailer, total
  <2> QED BY <2>1, <2>2, <2>3, <2>4, <2>5
<1> HIDE DEF bs, ds, trailer, total
<1>18. bs = Find(buf, 3, SOH) /\ ds = Find(buf, bs + 3, SOH)
  BY <1>8, <1>9, <1>17
<1>31. l = Number(SubSeq(buf, bs + 3, ds - 1))
  <2>1. SubSeq(buf, bs + 3, ds - 1) = dig
    BY <1>10, <1>17
  <2> QED BY <1>4, <2>1 DEF dig
<1>26. /\ At(buf, 1, <<Zero + 8, EqualSign>>) /\ At(buf, bs + 1, <<Zero + 9, EqualSign>>)
       /\ At(buf, trailer, <<Zero + 1, Zero, EqualSign>>)
  BY <1>15, <1>17
<1>32. buf[trailer - 1] = SOH /\ buf[total] = SOH /\ l \in 1..MaxBody
  BY <1>2, <1>14, <1>17, <1>20
<1>27. /\ Number(SubSeq(buf, trailer + 3, trailer + 5)) # None
       /\ Number(SubSeq(buf, trailer + 3, trailer + 5)) = Checksum(SubSeq(buf, 1, trailer - 1))
  <2>1. SubSeq(buf, trailer + 3, trailer + 5) = sm
    BY <1>13, <1>17
  <2>2. SubSeq(buf, 1, trailer - 1) = Summed(m)
    BY <1>5, <1>17
  <2> QED BY <1>4, <2>1, <2>2 DEF sm
<1>28. SubSeq(buf, 3, bs - 1) = bgn /\ SubSeq(buf, ds + 1, trailer - 1) = bdy /\ total = Len(Encode(m))
  BY <1>5, <1>11, <1>12, <1>17
<1>29. Passes(buf, bs, ds, l, trailer, total)
  BY <1>17, <1>26, <1>27, <1>32, Zenon DEF Passes
<1>30. Frame(buf) = [begin |-> SubSeq(buf, 3, bs - 1), body |-> SubSeq(buf, ds + 1, trailer - 1), len |-> total]
  BY <1>17, <1>18, <1>29, <1>31, FrameAccepts
<1> QED BY <1>28, <1>30 DEF bdy, bgn

(* The places leave nothing open: bytes laid as a message are its bytes.   *)
LEMMA LaidSame ==
  ASSUME NEW buf \in Seq(Byte), NEW m, Parts(m), Laid(buf, m)
  PROVE  /\ SubSeq(buf, 1, Len(Encode(m))) = Encode(m)
         /\ SubSeq(buf, 1, Len(Summed(m))) = Summed(m)
<1> DEFINE e == Encode(m)
           p == Len(m.begin)
           d == Len(m.digits)
           l == Len(m.body)
           q == p + d
           r == q + l
<1>1. p \in Nat /\ d \in Nat /\ l \in Nat
  BY DEF Parts
<1>2. /\ e \in Seq(Byte) /\ Laid(e, m) /\ Len(e) = r + 13
      /\ Summed(m) \in Seq(Byte) /\ Len(Summed(m)) = r + 6
      /\ \A i \in 1..Len(Summed(m)) : e[i] = Summed(m)[i]
  BY EncodeLaid
<1>3. Len(buf) >= r + 13
  BY DEF Laid
<1> HIDE DEF e
<1>4. /\ buf[1] = e[1] /\ buf[2] = e[2] /\ buf[p + 3] = e[p + 3] /\ buf[p + 4] = e[p + 4] /\ buf[p + 5] = e[p + 5]
      /\ buf[q + 6] = e[q + 6] /\ buf[r + 7] = e[r + 7] /\ buf[r + 8] = e[r + 8] /\ buf[r + 9] = e[r + 9]
      /\ buf[r + 13] = e[r + 13]
  BY <1>2 DEF Laid
<1>5. \A i \in 1..p : buf[2 + i] = e[2 + i]
  BY <1>2 DEF Laid
<1>6. \A i \in 1..d : buf[p + 5 + i] = e[p + 5 + i]
  BY <1>2 DEF Laid
<1>7. \A i \in 1..l : buf[q + 6 + i] = e[q + 6 + i]
  BY <1>2 DEF Laid
<1>8. \A i \in 1..3 : buf[r + 9 + i] = e[r + 9 + i]
  BY <1>2 DEF Laid
<1> HIDE DEF p, d, l
<1>9. q \in Nat /\ r \in Nat /\ q = p + d /\ r = q + l
  BY <1>1
<1> HIDE DEF q, r
<1>10. ASSUME NEW i \in 1..(r + 13) PROVE buf[i] = e[i]
  <2>1. \/ i \in {1, 2, p + 3, p + 4, p + 5, q + 6, r + 7, r + 8, r + 9, r + 13}
        \/ i - 2 \in 1..p \/ i - p - 5 \in 1..d \/ i - q - 6 \in 1..l \/ i - r - 9 \in 1..3
    BY <1>1, <1>9
  <2>2. CASE i \in {1, 2, p + 3, p + 4, p + 5, q + 6, r + 7, r + 8, r + 9, r + 13}
    BY <1>4, <2>2
  <2>3. CASE i - 2 \in 1..p
    <3>1. i = 2 + (i - 2)
      BY <1>9
    <3> QED BY <1>5, <2>3, <3>1
  <2>4. CASE i - p - 5 \in 1..d
    <3>1. i = p + 5 + (i - p - 5)
      BY <1>1, <1>9
    <3> QED BY <1>6, <2>4, <3>1
  <2>5. CASE i - q - 6 \in 1..l
    <3>1. i = q + 6 + (i - q - 6)
      BY <1>9
    <3> QED BY <1>7, <2>5, <3>1
  <2>6. CASE i - r - 9 \in 1..3
    <3>1. i = r + 9 + (i - r - 9)
      BY <1>9
    <3> QED BY <1>8, <2>6, <3>1
  <2> QED BY <2>1, <2>2, <2>3, <2>4, <2>5, <2>6
<1>11. Len(buf) \in Nat
  OBVIOUS
<1>12. ASSUME NEW s \in Seq(Byte), NEW k \in 0..(r + 13), Len(s) = k, \A i \in 1..k : e[i] = s[i]
       PROVE  SubSeq(buf, 1, k) = s
  <2>1. 1 \in Nat \ {0} /\ k \in Int /\ k = 1 + Len(s) - 1 /\ k <= Len(buf)
    BY <1>3, <1>9, <1>11, <1>12
  <2>2. ASSUME NEW i \in 1..Len(s) PROVE buf[1 + i - 1] = s[i]
    <3>1. i \in 1..k /\ i \in 1..(r + 13) /\ 1 + i - 1 = i
      BY <1>9, <1>12
    <3> QED BY <1>10, <1>12, <3>1
  <2> QED BY <2>1, <2>2, PartIs
<1>13. SubSeq(buf, 1, Len(e)) = e
  <2>1. r + 13 \in 0..(r + 13)
    BY <1>9
  <2> QED BY <1>2, <1>12, <2>1
<1>14. SubSeq(buf, 1, Len(Summed(m))) = Summed(m)
  <2>1. r + 6 \in 0..(r + 13)
    BY <1>9
  <2> QED BY <1>2, <1>12, <2>1
<1> QED BY <1>13, <1>14 DEF e

(* What frame accepts is a message, and all of it is there.                *)
LEMMA FrameIsMessage ==
  ASSUME NEW buf \in Seq(Byte), Accepted(Frame(buf))
  PROVE  LET f == Frame(buf)
             b == SubSeq(buf, 1, f.len)
             m == PartsOf(b, f)
         IN f.len \in 1..Len(buf) /\ Parts(m) /\ WellFormed(m) /\ Laid(buf, m) /\ b = Encode(m)
<1> DEFINE bs == Find(buf, 3, SOH)
           ds == Find(buf, bs + 3, SOH)
           len == Number(SubSeq(buf, bs + 3, ds - 1))
           trailer == ds + 1 + len
           total == trailer + TrailerLen - 1
           f == Frame(buf)
<1>1. Passes(buf, bs, ds, len, trailer, total)
  BY FrameAccepts
<1>2. f = [begin |-> SubSeq(buf, 3, bs - 1), body |-> SubSeq(buf, ds + 1, trailer - 1), len |-> total]
  BY <1>1, FrameAccepts
<1>3. Len(buf) \in Nat
  OBVIOUS
<1>4. bs \in 3..Len(buf) /\ bs # 3 /\ buf[bs] = SOH /\ \A i \in 3..Len(buf) : i < bs => buf[i] # SOH
  <2>1. bs # 0 /\ bs # 3
    BY <1>1 DEF Passes
  <2> QED BY <2>1, FindFirst
<1>5. bs \in Nat
  BY <1>4
<1> HIDE DEF bs
<1>6. ds \in (bs + 3)..Len(buf) /\ buf[ds] = SOH
  <2>1. ds # 0 /\ bs + 3 \in Nat
    BY <1>1, <1>5 DEF Passes
  <2> QED BY <2>1, FindFirst
<1>7. ds \in Nat
  BY <1>5, <1>6
<1>8. len = Number(SubSeq(buf, bs + 3, ds - 1)) /\ len \in 1..MaxBody
  BY <1>1 DEF Passes
<1>9. MaxBody \in Nat
  BY FixCodecAssumption
<1> HIDE DEF ds, len
<1>10. len \in Nat /\ len > 0
  BY <1>8, <1>9
<1>11. trailer = ds + 1 + len /\ total = trailer + 6 /\ trailer \in Nat /\ total \in Nat
  BY <1>7, <1>10 DEF TrailerLen
<1> HIDE DEF trailer, total
<1>12. /\ At(buf, 1, <<Zero + 8, EqualSign>>) /\ At(buf, bs + 1, <<Zero + 9, EqualSign>>)
       /\ At(buf, trailer, <<Zero + 1, Zero, EqualSign>>) /\ buf[trailer - 1] = SOH /\ buf[total] = SOH
  BY <1>1 DEF Passes
<1>13. total <= Len(buf)
  <2>1. ~(Len(buf) < total)
    BY <1>1 DEF Passes
  <2> QED BY <1>3, <1>11, <2>1
<1>14. /\ Number(SubSeq(buf, trailer + 3, trailer + 5)) # None
       /\ Number(SubSeq(buf, trailer + 3, trailer + 5)) = Checksum(SubSeq(buf, 1, trailer - 1))
  BY <1>1 DEF Passes
<1> DEFINE b == SubSeq(buf, 1, total)
           bgn == SubSeq(buf, 3, bs - 1)
           dig == SubSeq(buf, bs + 3, ds - 1)
           bdy == SubSeq(buf, ds + 1, trailer - 1)
           sm == SubSeq(buf, trailer + 3, trailer + 5)
<1>15. b \in Seq(Byte) /\ Len(b) = total /\ \A i \in 1..total : b[i] = buf[i]
  <2>1. 1 - 1 <= total /\ 1 \in Nat \ {0} /\ total \in Int
    BY <1>11
  <2>2. b \in Seq(Byte) /\ Len(b) = total - 1 + 1 /\ \A i \in 1..(total - 1 + 1) : b[i] = buf[1 + i - 1]
    BY <1>13, <2>1, PartOf
  <2> HIDE DEF b
  <2> QED BY <1>11, <2>2
<1>16. bgn \in Seq(Byte) /\ Len(bgn) = bs - 3 /\ \A i \in 1..(bs - 3) : bgn[i] = buf[2 + i]
  <2>1. 3 - 1 <= bs - 1 /\ 3 \in Nat \ {0} /\ bs - 1 \in Int /\ bs - 1 <= Len(buf)
    BY <1>3, <1>4
  <2>2. bgn \in Seq(Byte) /\ Len(bgn) = bs - 1 - 3 + 1 /\ \A i \in 1..(bs - 1 - 3 + 1) : bgn[i] = buf[3 + i - 1]
    BY <2>1, PartOf
  <2> HIDE DEF bgn
  <2> QED BY <1>5, <2>2
<1>17. dig \in Seq(Byte) /\ Len(dig) = ds - bs - 3 /\ \A i \in 1..(ds - bs - 3) : dig[i] = buf[bs + 2 + i]
  <2> DEFINE from == bs + 3
             to == ds - 1
             n == ds - bs - 3
             k == bs + 2
  <2>1. from \in Nat \ {0} /\ to \in Int /\ n \in Nat /\ k \in Int /\ to = from + n - 1 /\ k = from - 1 /\ to <= Len(buf)
    BY <1>3, <1>5, <1>6
  <2> HIDE DEF from, to, n, k
  <2>2. /\ SubSeq(buf, from, to) \in Seq(Byte) /\ Len(SubSeq(buf, from, to)) = n
        /\ \A i \in 1..n : SubSeq(buf, from, to)[i] = buf[k + i]
    BY <2>1, PieceOf
  <2> QED BY <2>2 DEF from, to, n, k
<1>18. bdy \in Seq(Byte) /\ Len(bdy) = len /\ \A i \in 1..len : bdy[i] = buf[ds + i]
  <2> DEFINE from == ds + 1
             to == trailer - 1
             n == len
             k == ds
  <2>1. from \in Nat \ {0} /\ to \in Int /\ n \in Nat /\ k \in Int /\ to = from + n - 1 /\ k = from - 1 /\ to <= Len(buf)
    BY <1>3, <1>7, <1>10, <1>11, <1>13
  <2> HIDE DEF from, to, n, k
  <2>2. /\ SubSeq(buf, from, to) \in Seq(Byte) /\ Len(SubSeq(buf, from, to)) = n
        /\ \A i \in 1..n : SubSeq(buf, from, to)[i] = buf[k + i]
    BY <2>1, PieceOf
  <2> QED BY <2>2 DEF from, to, n, k
<1>19. sm \in Seq(Byte) /\ Len(sm) = 3 /\ \A i \in 1..3 : sm[i] = buf[trailer + 2 + i]
  <2> DEFINE from == trailer + 3
             to == trailer + 5
             n == 3
             k == trailer + 2
  <2>1. from \in Nat \ {0} /\ to \in Int /\ n \in Nat /\ k \in Int /\ to = from + n - 1 /\ k = from - 1 /\ to <= Len(buf)
    BY <1>3, <1>11, <1>13
  <2> HIDE DEF from, to, n, k
  <2>2. /\ SubSeq(buf, from, to) \in Seq(Byte) /\ Len(SubSeq(buf, from, to)) = n
        /\ \A i \in 1..n : SubSeq(buf, from, to)[i] = buf[k + i]
    BY <2>1, PieceOf
  <2> QED BY <2>2 DEF from, to, n, k
<1> DEFINE m == PartsOf(b, f)
<1>20. SubSeq(b, bs + 3, ds - 1) = dig
  <2>1. bs + 3 \in Nat \ {0} /\ ds - 1 \in Int /\ ds - 1 = bs + 3 + (ds - bs - 3) - 1 /\ ds - 1 <= total
    BY <1>5, <1>7, <1>10, <1>11
  <2>2. ASSUME NEW i \in 1..(ds - bs - 3) PROVE b[bs + 3 + i - 1] = dig[i]
    <3>1. bs + 3 + i - 1 = bs + 2 + i /\ bs + 2 + i \in 1..total
      BY <1>5, <1>7, <1>10, <1>11
    <3> HIDE DEF b, dig
    <3> QED BY <1>15, <1>17, <3>1
  <2> DEFINE from == bs + 3
             to == ds - 1
  <2>3. /\ b \in Seq(Byte) /\ dig \in Seq(Byte) /\ from \in Nat \ {0} /\ to \in Int
        /\ to = from + Len(dig) - 1 /\ to <= Len(b)
        /\ \A i \in 1..Len(dig) : b[from + i - 1] = dig[i]
    <3> HIDE DEF b, dig
    <3> QED BY <1>15, <1>17, <2>1, <2>2
  <2> HIDE DEF b, dig, from, to
  <2>4. SubSeq(b, from, to) = dig
    BY <2>3, PartIs
  <2> QED BY <2>4 DEF from, to
<1>21. SubSeq(b, total - 3, total - 1) = sm
  <2>1. total - 3 \in Nat \ {0} /\ total - 1 \in Int /\ total - 1 = total - 3 + 3 - 1 /\ total - 1 <= total
    BY <1>7, <1>10, <1>11
  <2>2. ASSUME NEW i \in 1..3 PROVE b[total - 3 + i - 1] = sm[i]
    <3>1. total - 3 + i - 1 = trailer + 2 + i /\ trailer + 2 + i \in 1..total
      BY <1>11
    <3> HIDE DEF b, sm
    <3> QED BY <1>15, <1>19, <3>1
  <2> DEFINE from == total - 3
             to == total - 1
  <2>3. /\ b \in Seq(Byte) /\ sm \in Seq(Byte) /\ from \in Nat \ {0} /\ to \in Int
        /\ to = from + Len(sm) - 1 /\ to <= Len(b)
        /\ \A i \in 1..Len(sm) : b[from + i - 1] = sm[i]
    <3> HIDE DEF b, sm
    <3> QED BY <1>15, <1>19, <2>1, <2>2
  <2> HIDE DEF b, sm, from, to
  <2>4. SubSeq(b, from, to) = sm
    BY <2>3, PartIs
  <2> QED BY <2>4 DEF from, to
<1>22. m = [begin |-> bgn, digits |-> dig, body |-> bdy, sum |-> sm]
  <2>1. f.begin = bgn /\ f.body = bdy
    <3> HIDE DEF f
    <3> QED BY <1>2
  <2>2. Len(bgn) + 6 = bs + 3 /\ Len(b) - Len(bdy) - 8 = ds - 1 /\ Len(b) - 3 = total - 3 /\ Len(b) - 1 = total - 1
    <3> HIDE DEF b, bgn, bdy
    <3>1. Len(bgn) = bs - 3 /\ Len(b) = total /\ Len(bdy) = len
      BY <1>15, <1>16, <1>18
    <3>2. bs - 3 + 6 = bs + 3 /\ total - len - 8 = ds - 1
      BY <1>5, <1>7, <1>10, <1>11
    <3> QED BY <3>1, <3>2
  <2> HIDE DEF b, bgn, bdy, dig, sm, f
  <2> QED BY <1>20, <1>21, <2>1, <2>2 DEF PartsOf
<1>23. f.len = total
  <2> HIDE DEF f
  <2> QED BY <1>2
<1> HIDE DEF b, bgn, dig, bdy, sm, m, f
<1>24. m.begin = bgn /\ m.digits = dig /\ m.body = bdy /\ m.sum = sm
  BY <1>22
<1>25. Parts(m)
  BY <1>16, <1>17, <1>18, <1>19, <1>24 DEF Parts
<1>26. /\ buf[1] = Zero + 8 /\ buf[2] = EqualSign /\ buf[bs + 1] = Zero + 9 /\ buf[bs + 2] = EqualSign
       /\ buf[trailer] = Zero + 1 /\ buf[trailer + 1] = Zero /\ buf[trailer + 2] = EqualSign
  <2>1. /\ Zero + 8 \in Byte /\ Zero + 9 \in Byte /\ Zero + 1 \in Byte /\ Zero \in Byte /\ EqualSign \in Byte
    BY DEF Byte, Zero, EqualSign
  <2>2. /\ 1 \in Nat \ {0} /\ 1 + 1 <= Len(buf) /\ bs + 1 \in Nat \ {0} /\ bs + 1 + 1 <= Len(buf)
        /\ trailer \in Nat \ {0} /\ trailer + 2 <= Len(buf) /\ 1 + 1 = 2 /\ bs + 1 + 1 = bs + 2
    BY <1>3, <1>5, <1>6, <1>7, <1>10, <1>11, <1>13
  <2>3. buf[1] = Zero + 8 /\ buf[1 + 1] = EqualSign
    BY <1>12, <2>1, <2>2, TwoAt
  <2>4. buf[bs + 1] = Zero + 9 /\ buf[bs + 1 + 1] = EqualSign
    BY <1>12, <2>1, <2>2, TwoAt
  <2>5. buf[trailer] = Zero + 1 /\ buf[trailer + 1] = Zero /\ buf[trailer + 2] = EqualSign
    BY <1>12, <2>1, <2>2, ThreeAt
  <2> QED BY <2>2, <2>3, <2>4, <2>5
<1>27. Laid(buf, m)
  <2> DEFINE p == Len(m.begin)
             q == p + Len(m.digits)
             r == q + Len(m.body)
  <2>2. /\ Len(m.begin) = bs - 3 /\ Len(m.digits) = ds - bs - 3 /\ Len(m.body) = len
    BY <1>16, <1>17, <1>18, <1>24
  <2>1. p = bs - 3 /\ q = ds - 6 /\ r = trailer - 7
    <3>1. bs - 3 + (ds - bs - 3) = ds - 6 /\ ds - 6 + len = trailer - 7
      BY <1>5, <1>7, <1>10, <1>11
    <3> QED BY <2>2, <3>1
  <2> HIDE DEF p, q, r
  <2>3. /\ p + 3 = bs /\ p + 4 = bs + 1 /\ p + 5 = bs + 2 /\ q + 6 = ds
        /\ r + 7 = trailer /\ r + 8 = trailer + 1 /\ r + 9 = trailer + 2 /\ r + 13 = total
    BY <1>5, <1>7, <1>11, <2>1, SMTT(30)
  <2>4. Len(buf) >= r + 13
    BY <1>3, <1>11, <1>13, <2>3
  <2>5. \A i \in 1..Len(m.begin) : buf[2 + i] = m.begin[i]
    BY <1>16, <1>24, <2>2
  <2>6. \A i \in 1..Len(m.digits) : buf[p + 5 + i] = m.digits[i]
    BY <1>17, <1>24, <2>2, <2>3
  <2>7. \A i \in 1..Len(m.body) : buf[q + 6 + i] = m.body[i]
    BY <1>18, <1>24, <2>2, <2>3
  <2>8. \A i \in 1..3 : buf[r + 9 + i] = m.sum[i]
    BY <1>19, <1>24, <2>3
  <2>9. /\ buf[p + 3] = SOH /\ buf[p + 4] = Zero + 9 /\ buf[p + 5] = EqualSign /\ buf[q + 6] = SOH
        /\ buf[r + 7] = Zero + 1 /\ buf[r + 8] = Zero /\ buf[r + 9] = EqualSign /\ buf[r + 13] = SOH
    BY <1>4, <1>6, <1>12, <1>26, <2>3
  <2> QED BY <1>26, <2>4, <2>5, <2>6, <2>7, <2>8, <2>9 DEF Laid, p, q, r
<1>28. Len(Encode(m)) = total /\ Len(Summed(m)) = trailer - 1
  <2>1. /\ Len(Encode(m)) = Len(m.begin) + Len(m.digits) + Len(m.body) + 13
        /\ Len(Summed(m)) = Len(m.begin) + Len(m.digits) + Len(m.body) + 6
    BY <1>25, EncodeLaid
  <2>2. bs - 3 + (ds - bs - 3) + len + 13 = total /\ bs - 3 + (ds - bs - 3) + len + 6 = trailer - 1
    BY <1>5, <1>7, <1>10, <1>11
  <2> QED BY <1>16, <1>17, <1>18, <1>24, <2>1, <2>2
<1>29. SubSeq(buf, 1, total) = Encode(m) /\ SubSeq(buf, 1, trailer - 1) = Summed(m)
  BY <1>25, <1>27, <1>28, LaidSame
<1>30. WellFormed(m)
  <2>1. bgn # <<>>
    <3>1. Len(bgn) > 0
      BY <1>4, <1>5, <1>16
    <3> QED BY <3>1, EmptySeq
  <2>2. SOH \notin Range(bgn)
    <3>1. ASSUME NEW i \in 1..(bs - 3) PROVE bgn[i] # SOH
      <4>1. 2 + i \in 3..Len(buf) /\ 2 + i < bs
        BY <1>3, <1>4, <1>5
      <4> QED BY <1>4, <1>16, <4>1
    <3>2. DOMAIN bgn = 1..(bs - 3)
      BY <1>16
    <3> QED BY <3>1, <3>2 DEF Range
  <2>3. bdy[Len(bdy)] = SOH
    <3>1. len \in 1..len /\ ds + len = trailer - 1
      BY <1>7, <1>10, <1>11
    <3> QED BY <1>12, <1>18, <3>1
  <2>4. Number(dig) = len /\ Number(sm) # None /\ Number(sm) = Checksum(Summed(m))
    BY <1>8, <1>14, <1>29 DEF dig, sm
  <2>5. Len(dig) <= NumberLen
    <3>1. Number(dig) # None
      BY <1>8, <2>4 DEF None
    <3>2. ~(Len(dig) > NumberLen)
      BY <3>1, NumberDigits
    <3>3. Len(dig) \in Nat /\ NumberLen \in Nat
      BY <1>17, FixCodecAssumption
    <3> QED BY <3>2, <3>3
  <2> QED BY <1>8, <1>18, <1>19, <1>24, <2>1, <2>2, <2>3, <2>4, <2>5 DEF WellFormed
<1>31. f.len \in 1..Len(buf)
  BY <1>3, <1>11, <1>13, <1>23
<1>32. b = Encode(m) /\ b = SubSeq(buf, 1, f.len)
  BY <1>23, <1>29 DEF b
<1> QED BY <1>23, <1>25, <1>27, <1>30, <1>31, <1>32 DEF m, f, b

(* Other bytes that agree with a message's are laid the same.              *)
LEMMA LaidCarries ==
  ASSUME NEW a \in Seq(Byte), NEW b \in Seq(Byte), NEW m, Parts(m), Laid(a, m),
         Len(b) >= Len(m.begin) + Len(m.digits) + Len(m.body) + 13,
         \A i \in 1..(Len(m.begin) + Len(m.digits) + Len(m.body) + 13) : b[i] = a[i]
  PROVE  Laid(b, m)
<1> DEFINE p == Len(m.begin)
           d == Len(m.digits)
           l == Len(m.body)
           q == p + d
           r == q + l
<1>1. p \in Nat /\ d \in Nat /\ l \in Nat
  BY DEF Parts
<1>2. \A i \in 1..(r + 13) : b[i] = a[i]
  OBVIOUS
<1>3. Len(b) >= r + 13
  OBVIOUS
<1>4. /\ a[1] = Zero + 8 /\ a[2] = EqualSign
      /\ a[p + 3] = SOH /\ a[p + 4] = Zero + 9 /\ a[p + 5] = EqualSign /\ a[q + 6] = SOH
      /\ a[r + 7] = Zero + 1 /\ a[r + 8] = Zero /\ a[r + 9] = EqualSign /\ a[r + 13] = SOH
  BY DEF Laid
<1>5. \A i \in 1..p : a[2 + i] = m.begin[i]
  BY DEF Laid
<1>6. \A i \in 1..d : a[p + 5 + i] = m.digits[i]
  BY DEF Laid
<1>7. \A i \in 1..l : a[q + 6 + i] = m.body[i]
  BY DEF Laid
<1>8. \A i \in 1..3 : a[r + 9 + i] = m.sum[i]
  BY DEF Laid
<1> HIDE DEF p, d, l
<1>9. q \in Nat /\ r \in Nat /\ q = p + d /\ r = q + l
  BY <1>1
<1> HIDE DEF q, r
<1>10. /\ b[1] = Zero + 8 /\ b[2] = EqualSign
       /\ b[p + 3] = SOH /\ b[p + 4] = Zero + 9 /\ b[p + 5] = EqualSign /\ b[q + 6] = SOH
       /\ b[r + 7] = Zero + 1 /\ b[r + 8] = Zero /\ b[r + 9] = EqualSign /\ b[r + 13] = SOH
  <2>1. {1, 2, p + 3, p + 4, p + 5, q + 6, r + 7, r + 8, r + 9, r + 13} \subseteq 1..(r + 13)
    BY <1>1, <1>9
  <2> QED BY <1>2, <1>4, <2>1
<1>11. \A i \in 1..p : b[2 + i] = m.begin[i]
  <2>1. \A i \in 1..p : 2 + i \in 1..(r + 13)
    BY <1>1, <1>9
  <2> QED BY <1>2, <1>5, <2>1
<1>12. \A i \in 1..d : b[p + 5 + i] = m.digits[i]
  <2>1. \A i \in 1..d : p + 5 + i \in 1..(r + 13)
    BY <1>1, <1>9
  <2> QED BY <1>2, <1>6, <2>1
<1>13. \A i \in 1..l : b[q + 6 + i] = m.body[i]
  <2>1. \A i \in 1..l : q + 6 + i \in 1..(r + 13)
    BY <1>1, <1>9
  <2> QED BY <1>2, <1>7, <2>1
<1>14. \A i \in 1..3 : b[r + 9 + i] = m.sum[i]
  <2>1. \A i \in 1..3 : r + 9 + i \in 1..(r + 13)
    BY <1>9
  <2> QED BY <1>2, <1>8, <2>1
<1> QED BY <1>3, <1>10, <1>11, <1>12, <1>13, <1>14 DEF Laid, p, d, l, q, r

(* The conditions under which frame asks for more.                         *)
Waits(buf, bs, ds, len, total) ==
  \/ Len(buf) = 0
  \/ Len(buf) = 1 /\ buf[1] = Zero + 8
  \/ /\ Len(buf) # 0 /\ Len(buf) # 1 /\ At(buf, 1, <<Zero + 8, EqualSign>>)
     /\ \/ bs = 0 /\ ~(Len(buf) > 2 + MaxBegin)
        \/ bs # 0 /\ bs # 3 /\ Len(buf) < bs + 2
        \/ /\ bs # 0 /\ bs # 3 /\ ~(Len(buf) < bs + 2) /\ At(buf, bs + 1, <<Zero + 9, EqualSign>>)
           /\ \/ ds = 0 /\ ~(Len(buf) - bs > 2 + MaxDigits)
              \/ ds # 0 /\ len \in 1..MaxBody /\ Len(buf) < total

(* Under these conditions it does.                                         *)
LEMMA FrameWaits ==
  ASSUME NEW buf, NEW bs, NEW ds, NEW len, NEW total,
         bs = Find(buf, 3, SOH), ds = Find(buf, bs + 3, SOH), len = Number(SubSeq(buf, bs + 3, ds - 1)),
         total = ds + 1 + len + TrailerLen - 1, Waits(buf, bs, ds, len, total)
  PROVE  Frame(buf) = Refuse("Incomplete")
BY DEF Frame, Waits

(* A message that has arrived in part is waited for.                       *)
LEMMA CutMessageWaits ==
  ASSUME NEW buf \in Seq(Byte), NEW m, Parts(m), WellFormed(m),
         Len(m.begin) <= MaxBegin, Len(m.digits) <= MaxDigits, Len(buf) < Len(Encode(m)),
         \A i \in 1..Len(buf) : buf[i] = Encode(m)[i]
  PROVE  Frame(buf) = Refuse("Incomplete")
<1> DEFINE e == Encode(m)
           n == Len(buf)
           p == Len(m.begin)
           d == Len(m.digits)
           l == Len(m.body)
           q == p + d
           r == q + l
           bs == Find(buf, 3, SOH)
           from == bs + 3
           ds == Find(buf, from, SOH)
           len == Number(SubSeq(buf, from, ds - 1))
           total == ds + 1 + len + TrailerLen - 1
<1>1. /\ p \in Nat /\ d \in Nat /\ l \in Nat /\ n \in Nat /\ p # 0 /\ l \in 1..MaxBody
      /\ MaxBegin \in Nat /\ MaxDigits \in Nat /\ MaxBody \in Nat /\ p <= MaxBegin /\ d <= MaxDigits
  <2>1. m.begin \in Seq(Byte) /\ m.digits \in Seq(Byte) /\ m.body \in Seq(Byte) /\ m.begin # <<>>
    BY DEF Parts, WellFormed
  <2>2. p # 0
    BY <2>1, EmptySeq
  <2>3. l \in 1..MaxBody
    BY DEF WellFormed
  <2>4. p \in Nat /\ d \in Nat /\ l \in Nat /\ n \in Nat /\ p <= MaxBegin /\ d <= MaxDigits
    BY <2>1
  <2> HIDE DEF p, d, l, n
  <2> QED BY <2>2, <2>3, <2>4, FixCodecAssumption
<1>2. e \in Seq(Byte) /\ Laid(e, m) /\ Len(e) = r + 13
  BY EncodeLaid
<1>3. n < r + 13 /\ \A i \in 1..n : buf[i] = e[i]
  BY <1>2
<1>4. Waits(buf, bs, ds, len, total) => Frame(buf) = Refuse("Incomplete")
  BY FrameWaits
<1>5. /\ e[1] = Zero + 8 /\ e[2] = EqualSign
      /\ e[p + 3] = SOH /\ e[p + 4] = Zero + 9 /\ e[p + 5] = EqualSign /\ e[q + 6] = SOH
  BY <1>2 DEF Laid
<1>6. \A i \in 1..p : e[2 + i] = m.begin[i]
  BY <1>2 DEF Laid
<1>7. \A i \in 1..d : e[p + 5 + i] = m.digits[i]
  BY <1>2 DEF Laid
<1>8. \A i \in 1..p : m.begin[i] # SOH
  <2>1. m.begin \in Seq(Byte) /\ SOH \notin Range(m.begin)
    BY DEF Parts, WellFormed
  <2> QED BY <2>1 DEF Range
<1>9. \A i \in 1..d : m.digits[i] # SOH
  <2>1. m.digits \in Seq(Byte) /\ Number(m.digits) # None
    <3>1. Number(m.digits) = l /\ m.digits \in Seq(Byte)
      BY DEF WellFormed, Parts
    <3> QED BY <1>1, <3>1 DEF None
  <2>2. \A i \in DOMAIN m.digits : m.digits[i] - Zero \in 0..9
    BY <2>1, NumberDigits
  <2>3. ASSUME NEW i \in 1..d PROVE m.digits[i] # SOH
    <3>1. i \in DOMAIN m.digits /\ m.digits[i] \in Byte
      BY <2>1
    <3>2. m.digits[i] - Zero \in 0..9
      BY <2>2, <3>1
    <3> QED BY <3>1, <3>2, SMTT(30) DEF Zero, SOH, Byte
  <2> QED BY <2>3
<1>10. Number(m.digits) = l /\ m.digits \in Seq(Byte) /\ Len(m.digits) = d
  BY DEF WellFormed, Parts
<1> HIDE DEF e, n, p, d, l
<1>11. q \in Nat /\ r \in Nat /\ q = p + d /\ r = q + l
  BY <1>1
<1> HIDE DEF q, r
<1>12. n = Len(buf)
  BY DEF n
<1>13. /\ Zero + 8 \in Byte /\ Zero + 9 \in Byte /\ EqualSign \in Byte
  BY DEF Byte, Zero, EqualSign
<1>14. CASE n = 0
  BY <1>4, <1>12, <1>14 DEF Waits
<1>15. CASE n = 1
  <2>1. buf[1] = Zero + 8
    BY <1>3, <1>5, <1>15
  <2> QED BY <1>4, <1>12, <1>15, <2>1 DEF Waits
<1>16. ASSUME n >= 2 PROVE Len(buf) # 0 /\ Len(buf) # 1 /\ At(buf, 1, <<Zero + 8, EqualSign>>)
  <2>1. buf[1] = Zero + 8 /\ buf[2] = EqualSign
    BY <1>1, <1>3, <1>5, <1>16
  <2>2. 1 \in Nat \ {0} /\ 1 + 1 <= Len(buf) /\ 1 + 1 = 2
    BY <1>1, <1>12, <1>16
  <2>3. At(buf, 1, <<Zero + 8, EqualSign>>)
    BY <1>13, <2>1, <2>2, TwoAt
  <2> QED BY <1>1, <1>12, <1>16, <2>3
<1>17. ASSUME NEW i \in 3..n, i < p + 3 PROVE buf[i] # SOH
  <2>1. i - 2 \in 1..p /\ i = 2 + (i - 2) /\ i \in 1..n
    BY <1>1, <1>17
  <2> QED BY <1>3, <1>6, <1>8, <2>1
<1>18. CASE n \in 2..(p + 2)
  <2>1. \A i \in 3..Len(buf) : buf[i] # SOH
    BY <1>1, <1>12, <1>17, <1>18
  <2>2. bs = 0
    BY <2>1, FindNone
  <2>3. ~(Len(buf) > 2 + MaxBegin) /\ n >= 2
    BY <1>1, <1>12, <1>18
  <2> QED BY <1>4, <1>16, <2>2, <2>3 DEF Waits
<1>19. ASSUME n >= p + 3 PROVE bs = p + 3 /\ bs # 0 /\ bs # 3
  <2> DEFINE k == p + 3
  <2>1. k \in 3..Len(buf) /\ 3 \in Nat \ {0}
    BY <1>1, <1>12, <1>19
  <2>2. buf[k] = SOH
    BY <1>1, <1>3, <1>5, <1>19
  <2>3. \A i \in 3..Len(buf) : i < k => buf[i] # SOH
    BY <1>12, <1>17
  <2>4. k # 0 /\ k # 3
    BY <1>1
  <2> HIDE DEF k
  <2>5. bs = k
    BY <2>1, <2>2, <2>3, FindAt
  <2> QED BY <2>4, <2>5 DEF k
<1>20. CASE n \in (p + 3)..(p + 4)
  <2>1. n >= p + 3 /\ n >= 2 /\ Len(buf) < p + 3 + 2
    BY <1>1, <1>12, <1>20
  <2>2. Len(buf) < bs + 2
    BY <1>19, <2>1
  <2> HIDE DEF bs, ds, len, total, from
  <2> QED BY <1>4, <1>16, <1>19, <2>1, <2>2 DEF Waits
<1>21. ASSUME n >= p + 5 PROVE ~(Len(buf) < bs + 2) /\ At(buf, bs + 1, <<Zero + 9, EqualSign>>) /\ from = p + 6
  <2>1. bs = p + 3
    BY <1>1, <1>19, <1>21
  <2> DEFINE k == p + 4
  <2>2. k \in Nat \ {0} /\ k + 1 <= Len(buf) /\ k + 1 = p + 5 /\ k \in 1..n /\ p + 5 \in 1..n /\ k = bs + 1
        /\ ~(Len(buf) < bs + 2) /\ from = p + 6
    BY <1>1, <1>12, <1>21, <2>1
  <2>3. buf[k] = Zero + 9 /\ buf[k + 1] = EqualSign
    BY <1>3, <1>5, <2>2
  <2> HIDE DEF k, bs, from
  <2>4. At(buf, k, <<Zero + 9, EqualSign>>)
    BY <1>13, <2>2, <2>3, TwoAt
  <2> QED BY <2>2, <2>4
<1>22. ASSUME NEW i \in (p + 6)..n, i < q + 6 PROVE buf[i] # SOH
  <2>1. i - p - 5 \in 1..d /\ i = p + 5 + (i - p - 5) /\ i \in 1..n
    BY <1>1, <1>11, <1>22
  <2> QED BY <1>3, <1>7, <1>9, <2>1
<1>23. CASE n \in (p + 5)..(q + 5)
  <2>1. n >= p + 5 /\ n >= p + 3 /\ n >= 2 /\ ~(n - (p + 3) > 2 + MaxDigits)
    BY <1>1, <1>11, <1>23
  <2>2. \A i \in (p + 6)..Len(buf) : buf[i] # SOH
    BY <1>1, <1>11, <1>12, <1>22, <1>23
  <2>3. bs = p + 3 /\ from = p + 6
    BY <1>19, <1>21, <2>1
  <2> HIDE DEF bs, from
  <2>4. ds = 0
    BY <2>2, <2>3, FindNone
  <2>5. ~(Len(buf) - bs > 2 + MaxDigits)
    BY <1>12, <2>1, <2>3
  <2> HIDE DEF ds, len, total
  <2> QED BY <1>4, <1>16, <1>19, <1>21, <2>1, <2>4, <2>5 DEF Waits
<1>24. CASE n >= q + 6
  <2>1. n >= p + 5 /\ n >= p + 3 /\ n >= 2
    BY <1>1, <1>11, <1>24
  <2>2. bs = p + 3 /\ from = p + 6
    BY <1>19, <1>21, <2>1
  <2> DEFINE k == q + 6
  <2>3. /\ from \in Nat \ {0} /\ k \in from..Len(buf) /\ k # 0 /\ k - 1 = q + 5
    BY <1>1, <1>11, <1>12, <1>24, <2>2
  <2>4. buf[k] = SOH
    BY <1>3, <1>5, <1>11, <1>24, SMTT(30)
  <2>5. \A i \in from..Len(buf) : i < k => buf[i] # SOH
    BY <1>12, <1>22, <2>2
  <2> HIDE DEF k, bs, from
  <2>6. ds = k
    BY <2>3, <2>4, <2>5, FindAt
  <2> DEFINE to == ds - 1
             s == m.digits
  <2>7. to = q + 5
    BY <2>3, <2>6
  <2>8. to \in Int /\ to = from + Len(s) - 1 /\ to <= Len(buf)
    BY <1>1, <1>10, <1>11, <1>12, <1>24, <2>2, <2>7
  <2>9. ASSUME NEW i \in 1..Len(s) PROVE buf[from + i - 1] = s[i]
    <3>1. i \in 1..d /\ p + 5 + i \in 1..n /\ from + i - 1 = p + 5 + i
      BY <1>1, <1>10, <1>11, <1>24, <2>2
    <3> QED BY <1>3, <1>7, <3>1
  <2> HIDE DEF to, s
  <2>10. SubSeq(buf, from, to) = s
    BY <1>10, <2>3, <2>8, <2>9, PartIs DEF s
  <2>11. len = l
    BY <1>10, <2>10 DEF to, s
  <2> HIDE DEF ds, len
  <2>12. total = r + 13
    BY <1>1, <1>11, <2>6, <2>11 DEF TrailerLen, k
  <2> HIDE DEF total
  <2>13. ds # 0 /\ len \in 1..MaxBody /\ Len(buf) < total
    BY <1>1, <1>3, <1>12, <2>3, <2>6, <2>11, <2>12
  <2> QED BY <1>4, <1>16, <1>19, <1>21, <2>1, <2>13 DEF Waits
<1>25. n = 0 \/ n = 1 \/ n \in 2..(p + 2) \/ n \in (p + 3)..(p + 4) \/ n \in (p + 5)..(q + 5) \/ n >= q + 6
  BY <1>1, <1>11
<1> QED BY <1>14, <1>15, <1>18, <1>20, <1>23, <1>24, <1>25

(* A message that has arrived is the one frame reads, whatever follows it. *)
LEMMA WholeMessageRead ==
  ASSUME NEW buf \in Seq(Byte), NEW m, Parts(m), WellFormed(m), Len(buf) >= Len(Encode(m)),
         \A i \in 1..Len(Encode(m)) : buf[i] = Encode(m)[i]
  PROVE  Frame(buf) = [begin |-> m.begin, body |-> m.body, len |-> Len(Encode(m))]
<1> DEFINE e == Encode(m)
<1>1. /\ e \in Seq(Byte) /\ Laid(e, m) /\ Len(e) = Len(m.begin) + Len(m.digits) + Len(m.body) + 13
  BY EncodeLaid
<1>2. Laid(buf, m)
  <2> HIDE DEF e
  <2>1. Len(buf) >= Len(e) /\ \A i \in 1..Len(e) : buf[i] = e[i]
    BY DEF e
  <2> QED BY <1>1, <2>1, LaidCarries
<1>3. SubSeq(buf, 1, Len(Summed(m))) = Summed(m)
  BY <1>2, LaidSame
<1> QED BY <1>2, <1>3, FrameReads

(* No beginning of a message is a message.                                 *)
LEMMA CutMessageRefused ==
  ASSUME NEW buf \in Seq(Byte), NEW m, Parts(m), WellFormed(m), Len(buf) < Len(Encode(m)),
         \A i \in 1..Len(buf) : buf[i] = Encode(m)[i]
  PROVE  ~Accepted(Frame(buf))
<1> SUFFICES ASSUME Accepted(Frame(buf)) PROVE FALSE
  OBVIOUS
<1> DEFINE e == Encode(m)
           f == Frame(buf)
           b == SubSeq(buf, 1, f.len)
           o == PartsOf(b, f)
           k == Len(Encode(o))
<1>1. f.len \in 1..Len(buf) /\ Parts(o) /\ WellFormed(o) /\ Laid(buf, o) /\ b = Encode(o)
  BY FrameIsMessage
<1>2. Len(buf) \in Nat /\ Len(b) = f.len
  <2> DEFINE t == f.len
  <2>1. t \in Int /\ 1 - 1 <= t /\ t <= Len(buf) /\ Len(buf) \in Nat /\ 1 \in Nat \ {0} /\ t - 1 + 1 = t
    BY <1>1
  <2> HIDE DEF t
  <2>2. Len(SubSeq(buf, 1, t)) = t
    BY <2>1, PartOf
  <2> QED BY <2>1, <2>2 DEF t
<1>3. k \in 1..Len(buf)
  BY <1>1, <1>2
<1>4. e \in Seq(Byte) /\ Len(e) > Len(buf) /\ \A i \in 1..Len(buf) : e[i] = buf[i]
  BY EncodeLaid
<1>5. Frame(e).len = Len(e)
  <2>1. Frame(e) = [begin |-> m.begin, body |-> m.body, len |-> Len(e)]
    BY <1>4, WholeMessageRead
  <2> HIDE DEF e
  <2> QED BY <2>1
<1>6. \A i \in 1..k : e[i] = Encode(o)[i]
  <2>1. ASSUME NEW i \in 1..k PROVE b[i] = buf[i]
    <3> DEFINE t == f.len
    <3>1. t \in Int /\ 1 - 1 <= t /\ t <= Len(buf) /\ 1 \in Nat \ {0} /\ t - 1 + 1 = t /\ k = t
      BY <1>1, <1>2
    <3>2. i \in 1..t /\ 1 + i - 1 = i
      BY <2>1, <3>1
    <3> HIDE DEF t
    <3>3. \A j \in 1..(t - 1 + 1) : SubSeq(buf, 1, t)[j] = buf[1 + j - 1]
      BY <3>1, PartOf
    <3>4. SubSeq(buf, 1, t)[i] = buf[i]
      BY <3>1, <3>2, <3>3
    <3> QED BY <3>4 DEF t
  <2> HIDE DEF e, k, o, b
  <2>2. \A i \in 1..k : i \in 1..Len(buf)
    BY <1>2, <1>3
  <2> QED BY <1>1, <1>4, <2>1, <2>2
<1>7. Frame(e).len = k
  <2> HIDE DEF e, o
  <2>1. Len(e) >= Len(Encode(o))
    BY <1>2, <1>3, <1>4
  <2>2. Frame(e) = [begin |-> o.begin, body |-> o.body, len |-> Len(Encode(o))]
    BY <1>1, <1>4, <1>6, <2>1, WholeMessageRead
  <2> QED BY <2>2
<1> HIDE DEF e, k
<1> QED BY <1>2, <1>3, <1>4, <1>5, <1>7

(* A frame is not changed by what arrives behind it: a message is read the *)
(* same however far the connection is ahead of it (frame).                 *)
THEOREM FrameIgnoresTheRest ==
  ASSUME NEW buf \in Seq(Byte), NEW more \in Seq(Byte), Accepted(Frame(buf))
  PROVE  Frame(buf \o more) = Frame(buf)
<1> DEFINE f == Frame(buf)
           b == SubSeq(buf, 1, f.len)
           m == PartsOf(b, f)
           all == buf \o more
<1>1. f.len \in 1..Len(buf) /\ Parts(m) /\ WellFormed(m) /\ Laid(buf, m) /\ b = Encode(m)
  BY FrameIsMessage
<1>2. /\ all \in Seq(Byte) /\ Len(all) = Len(buf) + Len(more)
      /\ \A i \in 1..Len(buf) : all[i] = buf[i]
  BY Joined
<1> DEFINE p == Len(m.begin)
           d == Len(m.digits)
           l == Len(m.body)
<1>3. Len(buf) >= p + d + l + 13
  BY <1>1 DEF Laid
<1>4. Len(buf) \in Nat /\ Len(more) \in Nat /\ p \in Nat /\ d \in Nat /\ l \in Nat
  BY <1>1 DEF Parts
<1> HIDE DEF m, all
<1>5. Laid(all, m)
  <2> HIDE DEF p, d, l
  <2>1. Len(all) >= p + d + l + 13
    BY <1>2, <1>3, <1>4
  <2> DEFINE k == p + d + l + 13
             n == Len(buf)
  <2>2. k \in Nat /\ n \in Nat /\ k <= n /\ \A i \in 1..n : all[i] = buf[i]
    BY <1>2, <1>3, <1>4
  <2>3. \A i \in 1..k : all[i] = buf[i]
    <3> HIDE DEF k, n
    <3> QED BY <2>2
  <2> USE DEF p, d, l
  <2> QED BY <1>1, <1>2, <2>1, <2>3, LaidCarries
<1>6. SubSeq(all, 1, Len(Summed(m))) = Summed(m) /\ SubSeq(buf, 1, Len(Summed(m))) = Summed(m)
  BY <1>1, <1>2, <1>5, LaidSame
<1>7. Frame(all) = [begin |-> m.begin, body |-> m.body, len |-> Len(Encode(m))]
  BY <1>1, <1>2, <1>5, <1>6, FrameReads
<1>8. Frame(buf) = [begin |-> m.begin, body |-> m.body, len |-> Len(Encode(m))]
  BY <1>1, <1>6, FrameReads
<1> QED BY <1>7, <1>8 DEF all

(* The answers to the calls of peek.                                       *)
PeekInv ==
  call.api = "peek" => /\ call.input \in Streams /\ Len(call.input.bytes) <= BufferLen
                       /\ answer = Peek(call.input.bytes)

(* Every answer of peek is peek of the bytes that arrived.                 *)
LEMMA PeekAnswers == CodecsSpec => []PeekInv
<1>1. CodecsInit => PeekInv
  BY DEF CodecsInit, PeekInv, Idle
<1>2. PeekInv /\ [CodecsNext]_codecVars => PeekInv'
  <2> SUFFICES ASSUME PeekInv, [CodecsNext]_codecVars PROVE PeekInv'
    OBVIOUS
  <2>1. CASE CallPeek
    <3>1. PICK c \in Streams : /\ Len(c.bytes) <= BufferLen /\ call' = [api |-> "peek", input |-> c]
                               /\ answer' = Peek(c.bytes)
      BY <2>1 DEF CallPeek, Returns
    <3>2. call'.input = c
      BY <3>1
    <3> QED BY <3>1, <3>2 DEF PeekInv
  <2>2. CASE CallDecode
    BY <2>2 DEF CallDecode, Returns, PeekInv
  <2>3. CASE CallIngest
    BY <2>3 DEF CallIngest, Returns, PeekInv
  <2>4. CASE CallIngestRest
    BY <2>4 DEF CallIngestRest, Returns, PeekInv
  <2>5. CASE CallMain
    BY <2>5 DEF CallMain, Returns, PeekInv
  <2>6. CASE CallFix
    BY <2>6 DEF CallFix, Returns, PeekInv
  <2>7. CASE CallKrx
    BY <2>7 DEF CallKrx, Returns, PeekInv
  <2>8. CASE Done
    BY <2>8 DEF Done, Idle, PeekInv
  <2>9. CASE UNCHANGED codecVars
    BY <2>9 DEF codecVars, PeekInv
  <2> QED BY <2>1, <2>2, <2>3, <2>4, <2>5, <2>6, <2>7, <2>8, <2>9 DEF CodecsNext
<1> QED BY <1>1, <1>2, PTL DEF CodecsSpec

(* However the bytes of a connection are cut, peek answers with the whole  *)
(* first message or waits for the rest of it, never with another message;  *)
(* what it accepts is byte for byte a message whose length and checksum    *)
(* are the ones it states; and a full buffer is never told to wait, for    *)
(* every limit of BeginString, BodyLength, body and buffer (frame,         *)
(* FrameBuffer::peek).                                                     *)
THEOREM FramesAlwaysWhole == CodecsSpec => []FramesWhole
<1>1. PeekInv => FramesWhole
  <2> SUFFICES ASSUME PeekInv, call.api = "peek" PROVE FramesWhole
    BY DEF FramesWhole
  <2> DEFINE in == call.input
             buf == in.bytes
             n == Len(buf)
             m == in.messages[1]
             f == Frame(buf)
             e == Encode(m)
  <2>1. in \in Streams /\ n <= BufferLen /\ answer = Peek(buf)
    BY DEF PeekInv
  <2>2. /\ buf \in Seq(Byte) /\ {m.begin, m.digits, m.body, m.sum} \subseteq Seq(Byte)
        /\ in.flaw = 0 => \A i \in 1..Lesser(n, Len(e)) : buf[i] = e[i]
    BY <2>1, StreamsAssumption
  <2>3. n \in Nat /\ BufferLen \in Nat
    BY <2>2, FixCodecAssumption
  <2>4. /\ ~Accepted(Refuse("BodyLength")) /\ ~Accepted(Refuse("Incomplete"))
        /\ Refuse("BodyLength").err = "BodyLength" /\ Refuse("Incomplete").err = "Incomplete"
    BY DEF Refuse, Accepted
  <2>5. \/ answer = f
        \/ answer = Refuse("BodyLength") /\ ~Accepted(f) /\ f.err = "Incomplete" /\ n = BufferLen
    BY <2>1 DEF Peek
  <2>6. ~Accepted(answer) /\ answer.err = "Incomplete" => n < BufferLen
    <3>1. ASSUME ~Accepted(answer), answer.err = "Incomplete" PROVE n # BufferLen
      BY <2>1, <2>4, <3>1 DEF Peek
    <3> QED BY <2>1, <2>3, <3>1
  <2> DEFINE b == SubSeq(buf, 1, answer.len)
  <2>7. Accepted(answer) =>
          answer.len \in 1..n /\ WellFormed(PartsOf(b, answer)) /\ b = Encode(PartsOf(b, answer))
    <3>1. ASSUME Accepted(answer) PROVE answer = f
      BY <2>4, <2>5, <3>1
    <3> QED BY <2>2, <3>1, FrameIsMessage
  <2>8. ASSUME in.flaw = 0, WellFormed(m)
        PROVE  IF n >= Len(e) THEN answer = [begin |-> m.begin, body |-> m.body, len |-> Len(e)]
               ELSE /\ ~Accepted(answer)
                    /\ Len(m.begin) <= MaxBegin /\ Len(m.digits) <= MaxDigits /\ n < BufferLen
                         => answer.err = "Incomplete"
    <3>1. Parts(m)
      BY <2>2, <2>8 DEF Parts, WellFormed
    <3>2. Len(e) \in Nat
      <4>1. e \in Seq(Byte)
        BY <3>1, EncodeLaid
      <4> HIDE DEF e
      <4> QED BY <4>1
    <3>3. CASE n >= Len(e)
      <4>1. Lesser(n, Len(e)) = Len(e)
        <5> DEFINE k == Len(e)
        <5> HIDE DEF n, k
        <5>1. k \in Nat /\ n \in Nat /\ n >= k
          BY <2>3, <3>2, <3>3 DEF k
        <5> QED BY <5>1 DEF Lesser, k
      <4>2. f = [begin |-> m.begin, body |-> m.body, len |-> Len(e)]
        BY <2>2, <2>8, <3>1, <3>3, <4>1, WholeMessageRead
      <4>3. Accepted(f)
        <5> DEFINE t == Len(e)
        <5>1. f = [begin |-> m.begin, body |-> m.body, len |-> t]
          BY <4>2
        <5> HIDE DEF f, t
        <5> QED BY <5>1 DEF Accepted
      <4> QED BY <2>5, <3>3, <4>2, <4>3
    <3>4. CASE ~(n >= Len(e))
      <4>1. Lesser(n, Len(e)) = n /\ n < Len(e)
        <5> DEFINE k == Len(e)
        <5> HIDE DEF n, k
        <5>1. k \in Nat /\ n \in Nat /\ ~(n >= k)
          BY <2>3, <3>2, <3>4 DEF k
        <5> QED BY <5>1 DEF Lesser, k
      <4>2. ~Accepted(f)
        BY <2>2, <2>8, <3>1, <4>1, CutMessageRefused
      <4>3. ASSUME Len(m.begin) <= MaxBegin, Len(m.digits) <= MaxDigits, n < BufferLen
            PROVE  answer.err = "Incomplete"
        <5>1. f = Refuse("Incomplete")
          BY <2>2, <2>8, <3>1, <4>1, <4>3, CutMessageWaits
        <5>2. n # BufferLen
          BY <2>3, <4>3
        <5> QED BY <2>4, <2>5, <5>1, <5>2
      <4>4. ~Accepted(answer)
        BY <2>4, <2>5, <4>2
      <4> QED BY <3>4, <4>3, <4>4
    <3> QED BY <3>3, <3>4
  <2> HIDE DEF f, e
  <2> QED BY <2>6, <2>7, <2>8 DEF FramesWhole, e
<1> QED BY <1>1, PeekAnswers, PTL

-----------------------------------------------------------------------------
(* What is shown of a number from what is shown of the one before holds of *)
(* all of them: else there is a first one of which it does not.            *)
LEMMA FromOneToNext ==
  ASSUME NEW n \in Nat, NEW S, 0 \in S, \A m \in 1..n : m - 1 \in S => m \in S
  PROVE  0..n \subseteq S
<1> DEFINE B == (0..n) \ S
<1>1. CASE B = {}
  BY <1>1
<1>2. CASE B # {}
  <2>1. B \subseteq Nat
    OBVIOUS
  <2> HIDE DEF B
  <2>2. PICK m \in B : \A y \in B : m <= y
    BY <1>2, <2>1, FirstPosition
  <2>3. m \in 0..n /\ m \notin S
    BY <2>2 DEF B
  <2>4. m \in 1..n /\ m - 1 \in 0..n
    BY <2>3
  <2>5. m - 1 \in S
    <3>1. m - 1 \notin B
      BY <2>2, <2>4
    <3> QED BY <2>4, <3>1 DEF B
  <2> QED BY <2>3, <2>4, <2>5
<1> QED BY <1>1, <1>2

(* The loop over the fields has a state after each of them.                *)
LEMMA ScanRuns ==
  ASSUME NEW d, NEW inst, NEW s0, NEW fields, Len(fields) \in Nat
  PROVE  \E h : /\ h[0] = s0 /\ Scan(d, inst, s0, fields) = h[Len(fields)]
                /\ \A i \in 1..Len(fields) : h[i] = Read(d, inst, h[i - 1], fields[i])
<1> DEFINE n == Len(fields)
           Runs(f, m) == f[0] = s0 /\ \A i \in 1..m : f[i] = Read(d, inst, f[i - 1], fields[i])
           S == {m \in 0..n : \E f : Runs(f, m)}
           Is(g) == g = [i \in 0..n |-> IF i = 0 THEN s0 ELSE Read(d, inst, g[i - 1], fields[i])]
           h == CHOOSE g : Is(g)
<1>1. Scan(d, inst, s0, fields) = h[n]
  BY DEF Scan
<1>2. n \in Nat
  OBVIOUS
<1> HIDE DEF n
<1>3. 0 \in S
  <2>1. Runs([i \in 0..0 |-> s0], 0)
    OBVIOUS
  <2> HIDE DEF Runs
  <2> QED BY <1>2, <2>1
<1>4. ASSUME NEW m \in 1..n, m - 1 \in S PROVE m \in S
  <2>1. PICK f : Runs(f, m - 1)
    BY <1>4
  <2> DEFINE g == [i \in 0..m |-> IF i = m THEN Read(d, inst, f[m - 1], fields[m]) ELSE f[i]]
  <2>2. m \in Nat /\ m # 0 /\ m - 1 \in 0..m /\ m - 1 # m
    BY <1>2
  <2>3. g[0] = s0
    BY <2>1, <2>2
  <2>4. ASSUME NEW i \in 1..m PROVE g[i] = Read(d, inst, g[i - 1], fields[i])
    <3>1. CASE i = m
      BY <2>2, <3>1
    <3>2. CASE i # m
      <4>1. i \in 1..m-1 /\ i - 1 \in 0..m /\ i - 1 # m /\ i \in 0..m
        BY <2>2, <3>2
      <4>2. f[i] = Read(d, inst, f[i - 1], fields[i])
        BY <2>1, <4>1
      <4>3. g[i] = f[i] /\ g[i - 1] = f[i - 1]
        BY <3>2, <4>1
      <4> QED BY <4>2, <4>3
    <3> QED BY <3>1, <3>2
  <2> HIDE DEF g
  <2>5. Runs(g, m)
    BY <2>3, <2>4
  <2> HIDE DEF Runs
  <2> QED BY <1>2, <2>5
<1>5. PICK f : Runs(f, n)
  <2> HIDE DEF S
  <2>1. 0..n \subseteq S
    BY <1>2, <1>3, <1>4, FromOneToNext
  <2>2. n \in S
    BY <1>2, <2>1
  <2> QED BY <2>2 DEF S
<1> DEFINE e == [i \in 0..n |-> f[i]]
<1>6. Is(e)
  <2>1. ASSUME NEW i \in 0..n PROVE e[i] = IF i = 0 THEN s0 ELSE Read(d, inst, e[i - 1], fields[i])
    <3>1. CASE i = 0
      BY <1>5, <3>1
    <3>2. CASE i # 0
      <4>1. i \in 1..n /\ i - 1 \in 0..n
        BY <1>2, <3>2
      <4>2. f[i] = Read(d, inst, f[i - 1], fields[i])
        BY <1>5, <4>1
      <4>3. e[i] = f[i] /\ e[i - 1] = f[i - 1]
        BY <4>1
      <4> QED BY <3>2, <4>2, <4>3
    <3> QED BY <3>1, <3>2
  <2>2. e = [i \in 0..n |-> e[i]]
    OBVIOUS
  <2> HIDE DEF e
  <2> QED BY <2>1, <2>2
<1>7. Is(h)
  <2> HIDE DEF Is
  <2> QED BY <1>6
<1> HIDE DEF h
<1>8. h[0] = s0
  BY <1>2, <1>7
<1>9. ASSUME NEW i \in 1..n PROVE h[i] = Read(d, inst, h[i - 1], fields[i])
  <2>1. i \in 0..n /\ i # 0
    BY <1>2
  <2> QED BY <1>7, <2>1
<1> QED BY <1>1, <1>8, <1>9 DEF n

(* The deepest level with a quantity is one of them.                       *)
LEMMA DepthWithin ==
  ASSUME NEW ls, Len(ls) \in Nat
  PROVE  DepthOf(ls) \in 0..Len(ls)
<1> DEFINE n == Len(ls)
           Step(i, before) == IF ls[i][2] > 0 THEN i ELSE before
           Runs(f, m) == f[0] = 0 /\ \A i \in 1..m : f[i] = Step(i, f[i - 1])
           S == {m \in 0..n : \E f : Runs(f, m)}
           Is(g) == g = [i \in 0..n |-> IF i = 0 THEN 0 ELSE Step(i, g[i - 1])]
           h == CHOOSE g : Is(g)
<1>1. DepthOf(ls) = h[n]
  BY DEF DepthOf
<1>2. n \in Nat
  OBVIOUS
<1>0. \A i, x : Step(i, x) \in {i, x}
  OBVIOUS
<1> HIDE DEF n, Step
<1>3. 0 \in S
  <2>1. Runs([i \in 0..0 |-> 0], 0)
    OBVIOUS
  <2> HIDE DEF Runs
  <2> QED BY <1>2, <2>1
<1>4. ASSUME NEW m \in 1..n, m - 1 \in S PROVE m \in S
  <2>1. PICK f : Runs(f, m - 1)
    BY <1>4
  <2> DEFINE g == [i \in 0..m |-> IF i = m THEN Step(m, f[m - 1]) ELSE f[i]]
  <2>2. m \in Nat /\ m # 0 /\ m - 1 \in 0..m /\ m - 1 # m
    BY <1>2
  <2>3. g[0] = 0
    BY <2>1, <2>2
  <2>4. ASSUME NEW i \in 1..m PROVE g[i] = Step(i, g[i - 1])
    <3>1. CASE i = m
      BY <2>2, <3>1
    <3>2. CASE i # m
      <4>1. i \in 1..m-1 /\ i - 1 \in 0..m /\ i - 1 # m /\ i \in 0..m
        BY <2>2, <3>2
      <4>2. f[i] = Step(i, f[i - 1])
        BY <2>1, <4>1
      <4>3. g[i] = f[i] /\ g[i - 1] = f[i - 1]
        BY <3>2, <4>1
      <4> QED BY <4>2, <4>3
    <3> QED BY <3>1, <3>2
  <2> HIDE DEF g
  <2>5. Runs(g, m)
    BY <2>3, <2>4
  <2> HIDE DEF Runs
  <2> QED BY <1>2, <2>5
<1>5. PICK f : Runs(f, n)
  <2> HIDE DEF S
  <2>1. 0..n \subseteq S
    BY <1>2, <1>3, <1>4, FromOneToNext
  <2>2. n \in S
    BY <1>2, <2>1
  <2> QED BY <2>2 DEF S
<1> DEFINE e == [i \in 0..n |-> f[i]]
<1>6. Is(e)
  <2>1. ASSUME NEW i \in 0..n PROVE e[i] = IF i = 0 THEN 0 ELSE Step(i, e[i - 1])
    <3>1. CASE i = 0
      BY <1>5, <3>1
    <3>2. CASE i # 0
      <4>1. i \in 1..n /\ i - 1 \in 0..n
        BY <1>2, <3>2
      <4>2. f[i] = Step(i, f[i - 1])
        BY <1>5, <4>1
      <4>3. e[i] = f[i] /\ e[i - 1] = f[i - 1]
        BY <4>1
      <4> QED BY <3>2, <4>2, <4>3
    <3> QED BY <3>1, <3>2
  <2>2. e = [i \in 0..n |-> e[i]]
    OBVIOUS
  <2> HIDE DEF e
  <2> QED BY <2>1, <2>2
<1>7. Is(h)
  <2> HIDE DEF Is
  <2> QED BY <1>6
<1> HIDE DEF h
<1> DEFINE T == {m \in 0..n : h[m] \in 0..m}
<1>8. 0 \in T
  BY <1>2, <1>7
<1>9. ASSUME NEW m \in 1..n, m - 1 \in T PROVE m \in T
  <2>1. m \in 0..n /\ m # 0 /\ h[m - 1] \in 0..(m - 1)
    BY <1>2, <1>9
  <2>2. h[m] = Step(m, h[m - 1])
    BY <1>7, <2>1
  <2>3. h[m] \in {m, h[m - 1]}
    BY <1>0, <2>2
  <2> QED BY <1>2, <2>1, <2>3
<1>10. n \in T
  <2> HIDE DEF T
  <2>1. 0..n \subseteq T
    BY <1>2, <1>8, <1>9, FromOneToNext
  <2> QED BY <1>2, <2>1
<1> QED BY <1>1, <1>10 DEF n

(* Two lists one behind the other, and the first elements of a list.       *)
LEMMA JoinedLists ==
  ASSUME NEW a, NEW b, IsList(a), IsList(b)
  PROVE  IsList(a \o b) /\ Len(a \o b) = Len(a) + Len(b)
<1> DEFINE S == Range(a) \cup Range(b)
           t == a \o b
<1>1. a \in Seq(S) /\ b \in Seq(S)
  BY DEF IsList, Range
<1> HIDE DEF S
<1>2. t \in Seq(S) /\ Len(t) = Len(a) + Len(b)
  BY <1>1, ConcatProperties
<1> HIDE DEF t
<1>3. IsList(t)
  BY <1>2 DEF IsList
<1> QED BY <1>2, <1>3 DEF t

LEMMA FirstOfList ==
  ASSUME NEW ls, IsList(ls), NEW n \in Nat
  PROVE  Len(FirstOf(ls, n)) \in 0..n
<1> DEFINE S == Range(ls)
           k == Lesser(n, Len(ls))
           t == SubSeq(ls, 1, k)
<1>1. ls \in Seq(S) /\ Len(ls) \in Nat
  BY DEF IsList, Range
<1>2. k \in 0..n /\ k <= Len(ls)
  BY <1>1 DEF Lesser
<1> HIDE DEF S, k
<1>3. \A i \in 1..k : ls[i] \in S
  BY <1>1, <1>2
<1>4. Len(t) = IF 1 <= k THEN k - 1 + 1 ELSE 0
  <2>1. 1 \in Int /\ k \in Int
    BY <1>2
  <2> QED BY <1>1, <1>3, <2>1, SubSeqProperties
<1> HIDE DEF t
<1>5. Len(t) \in 0..n
  BY <1>2, <1>4
<1> QED BY <1>5 DEF FirstOf, t, k

(* What the loop keeps: the limits of a record, whatever the fields and    *)
(* however often they come.                                                *)
Within(s) ==
  /\ DOMAIN s = DOMAIN Blank
  /\ s.side \in {"buy", "sell", "unknown"}
  /\ Len(s.bids) \in 0..MaxDepth /\ Len(s.asks) \in 0..MaxDepth
  /\ IsList(s.levels) /\ Len(s.levels) <= MaxDelta
  /\ s.bidCount \in Nat /\ s.askCount \in Nat /\ s.bidCount + s.askCount <= Len(s.levels)

LEMMA BlankWithin == Within(Blank)
<1>1. MaxDepth \in Nat /\ MaxDelta \in Nat
  BY WireAssumption
<1>2. Len(<<>>) = 0 /\ IsList(<<>>)
  BY DEF IsList
<1> QED BY <1>1, <1>2 DEF Within, Blank

(* Any change that leaves the sides alone.                                 *)
LEMMA WithinElse ==
  ASSUME NEW s, NEW t, Within(s), DOMAIN t = DOMAIN s,
         t.side \in {"buy", "sell", "unknown"}, t.bids = s.bids, t.asks = s.asks, t.levels = s.levels,
         t.bidCount = s.bidCount, t.askCount = s.askCount
  PROVE  Within(t)
BY DEF Within

LEMMA FailedWithin ==
  ASSUME NEW s, Within(s), NEW e
  PROVE  Within(Failed(s, e))
<1>1. {"err", "side", "bids", "asks", "levels", "bidCount", "askCount"} \subseteq DOMAIN s
  BY DEF Within, Blank
<1> DEFINE t == Failed(s, e)
<1>2. /\ DOMAIN t = DOMAIN s /\ t.side = s.side /\ t.bids = s.bids /\ t.asks = s.asks /\ t.levels = s.levels
      /\ t.bidCount = s.bidCount /\ t.askCount = s.askCount
  BY <1>1 DEF Failed
<1>3. s.side \in {"buy", "sell", "unknown"}
  BY DEF Within
<1> HIDE DEF t
<1>4. Within(t)
  BY <1>2, <1>3, WithinElse
<1> QED BY <1>4 DEF t

LEMMA SawWithin ==
  ASSUME NEW s, Within(s), NEW r
  PROVE  Within(Saw(s, r))
<1>1. {"have", "side", "bids", "asks", "levels", "bidCount", "askCount"} \subseteq DOMAIN s
  BY DEF Within, Blank
<1> DEFINE t == Saw(s, r)
<1>2. /\ DOMAIN t = DOMAIN s /\ t.side = s.side /\ t.bids = s.bids /\ t.asks = s.asks /\ t.levels = s.levels
      /\ t.bidCount = s.bidCount /\ t.askCount = s.askCount
  BY <1>1 DEF Saw
<1>3. s.side \in {"buy", "sell", "unknown"}
  BY DEF Within
<1> HIDE DEF t
<1>4. Within(t)
  BY <1>2, <1>3, WithinElse
<1> QED BY <1>4 DEF t

(* A value that is neither a side nor a level.                             *)
LEMMA ValueWithin ==
  ASSUME NEW s, Within(s), NEW r, NEW x, r \notin {"side", "bids", "asks", "levels", "bidCount", "askCount"}
  PROVE  Within([s EXCEPT ![r] = x])
<1>1. {"side", "bids", "asks", "levels", "bidCount", "askCount"} \subseteq DOMAIN s
  BY DEF Within, Blank
<1> DEFINE t == [s EXCEPT ![r] = x]
<1>2. /\ DOMAIN t = DOMAIN s /\ t.side = s.side /\ t.bids = s.bids /\ t.asks = s.asks /\ t.levels = s.levels
      /\ t.bidCount = s.bidCount /\ t.askCount = s.askCount
  BY <1>1
<1>3. s.side \in {"buy", "sell", "unknown"}
  BY DEF Within
<1> HIDE DEF t
<1>4. Within(t)
  BY <1>2, <1>3, WithinElse
<1> QED BY <1>4 DEF t

(* Both sides of a delta share its room, a side that comes twice too.      *)
LEMMA SidesWithin ==
  ASSUME NEW s, Within(s), NEW r, NEW ls, IsList(ls)
  PROVE  Within(SidesRead(s, r, ls))
<1> DEFINE t == [s EXCEPT !.levels = @ \o ls,
                          !.bidCount = IF r = "bids" THEN Len(ls) ELSE @,
                          !.askCount = IF r = "asks" THEN Len(ls) ELSE @,
                          !.askFirst = @ \/ (r = "asks" /\ s.levels = <<>> /\ s.bidCount = 0)]
           both == s.levels \o ls
<1>1. SidesRead(s, r, ls) \in {Failed(s, "Field"), Failed(s, "DeltaOverflow"), t}
      /\ (SidesRead(s, r, ls) = t \/ SidesRead(s, r, ls) \in {Failed(s, "Field"), Failed(s, "DeltaOverflow")})
  BY DEF SidesRead
<1>2. CASE SidesRead(s, r, ls) \in {Failed(s, "Field"), Failed(s, "DeltaOverflow")}
  BY <1>2, FailedWithin
<1>3. CASE ~(SidesRead(s, r, ls) \in {Failed(s, "Field"), Failed(s, "DeltaOverflow")})
  <2>1. SidesRead(s, r, ls) = t /\ ~(Len(s.levels) + Len(ls) > MaxDelta)
    BY <1>3 DEF SidesRead
  <2>2. {"side", "bids", "asks", "levels", "bidCount", "askCount", "askFirst"} \subseteq DOMAIN s
    BY DEF Within, Blank
  <2>3. /\ DOMAIN t = DOMAIN s /\ t.side = s.side /\ t.bids = s.bids /\ t.asks = s.asks /\ t.levels = both
        /\ t.bidCount = (IF r = "bids" THEN Len(ls) ELSE s.bidCount)
        /\ t.askCount = (IF r = "asks" THEN Len(ls) ELSE s.askCount)
    BY <2>2
  <2>4. IsList(s.levels) /\ Len(s.levels) \in Nat /\ Len(ls) \in Nat /\ MaxDelta \in Nat
    BY WireAssumption DEF Within, IsList
  <2>5. IsList(both) /\ Len(both) = Len(s.levels) + Len(ls)
    BY <2>4, JoinedLists
  <2> HIDE DEF t, both
  <2>6. s.bidCount \in Nat /\ s.askCount \in Nat /\ s.bidCount + s.askCount <= Len(s.levels)
    BY DEF Within
  <2>7. /\ t.bidCount \in Nat /\ t.askCount \in Nat
        /\ t.bidCount + t.askCount <= Len(both) /\ Len(both) <= MaxDelta
    <3> DEFINE a == Len(s.levels)
               b == Len(ls)
               c == Len(both)
               x == s.bidCount
               y == s.askCount
               u == t.bidCount
               w == t.askCount
    <3>1. /\ a \in Nat /\ b \in Nat /\ MaxDelta \in Nat /\ c = a + b /\ x \in Nat /\ y \in Nat /\ x + y <= a
          /\ ~(a + b > MaxDelta)
      BY <2>1, <2>4, <2>5, <2>6
    <3>2. (u = b \/ u = x) /\ (w = b \/ w = y) /\ ~(u = b /\ u # x /\ w = b /\ w # y)
      BY <2>3
    <3> HIDE DEF a, b, c, x, y, u, w
    <3>3. u \in Nat /\ w \in Nat /\ u + w <= c /\ c <= MaxDelta
      BY <3>1, <3>2
    <3> QED BY <3>3 DEF a, b, c, x, y, u, w
  <2>8. Within(t)
    BY <2>3, <2>5, <2>7 DEF Within
  <2> QED BY <2>1, <2>8
<1> QED BY <1>2, <1>3

LEMMA QuoteWithin ==
  ASSUME NEW s, Within(s), NEW r \in Book, NEW ls, IsList(ls)
  PROVE  Within(QuoteLevels(s, r, ls))
<1> DEFINE first == FirstOf(ls, MaxDepth)
           t == [s EXCEPT ![r] = first]
<1>1. QuoteLevels(s, r, ls) = t \/ QuoteLevels(s, r, ls) = Failed(s, "Field")
  BY DEF QuoteLevels
<1>2. Len(first) \in 0..MaxDepth
  BY WireAssumption, FirstOfList
<1>3. {"side", "bids", "asks", "levels", "bidCount", "askCount"} \subseteq DOMAIN s /\ r \in {"bids", "asks"}
  BY DEF Within, Blank, Book
<1> HIDE DEF first
<1>4. /\ DOMAIN t = DOMAIN s /\ t.side = s.side /\ t.levels = s.levels
      /\ t.bids \in {s.bids, first} /\ t.asks \in {s.asks, first}
      /\ t.bidCount = s.bidCount /\ t.askCount = s.askCount
  BY <1>3
<1> HIDE DEF t
<1>5. Within(t)
  BY <1>2, <1>4 DEF Within
<1> QED BY <1>1, <1>5, FailedWithin

LEMMA UnitsWithin ==
  ASSUME NEW s, Within(s), NEW us, IsList(us)
  PROVE  Within(Units(s, us))
<1> DEFINE side(x) == [i \in 1..Len(us) |-> us[i][x]]
           bid == FirstOf(side("bid"), MaxDepth)
           ask == FirstOf(side("ask"), MaxDepth)
           t == [s EXCEPT !.bids = bid, !.asks = ask]
<1>1. Units(s, us) = t \/ Units(s, us) = Failed(s, "Field")
  BY DEF Units
<1>2. ASSUME NEW x PROVE IsList(side(x))
  <2>1. Len(us) \in Nat
    BY DEF IsList
  <2> QED BY <2>1 DEF IsList
<1>3. Len(bid) \in 0..MaxDepth /\ Len(ask) \in 0..MaxDepth
  <2> HIDE DEF side
  <2> QED BY <1>2, WireAssumption, FirstOfList
<1>4. {"side", "bids", "asks", "levels", "bidCount", "askCount"} \subseteq DOMAIN s
  BY DEF Within, Blank
<1> HIDE DEF bid, ask
<1>5. /\ DOMAIN t = DOMAIN s /\ t.side = s.side /\ t.levels = s.levels /\ t.bids = bid /\ t.asks = ask
      /\ t.bidCount = s.bidCount /\ t.askCount = s.askCount
  BY <1>4
<1> HIDE DEF t
<1>6. Within(t)
  BY <1>3, <1>5 DEF Within
<1> QED BY <1>1, <1>6, FailedWithin

LEMMA ChangeWithin ==
  ASSUME NEW s, Within(s), NEW v
  PROVE  Within(Change(s, v))
<1> DEFINE one == <<<<v.price, v.qty>>>>
           t == [s EXCEPT !.levels = one,
                          !.bidCount = IF v.side = "buy" THEN 1 ELSE 0,
                          !.askCount = IF v.side = "buy" THEN 0 ELSE 1]
<1>1. Change(s, v) = t \/ Change(s, v) = Failed(s, "Unexpected") \/ Change(s, v) = Failed(s, "Field")
  BY DEF Change
<1>2. Len(one) = 1 /\ IsList(one)
  BY DEF IsList
<1>3. {"side", "bids", "asks", "levels", "bidCount", "askCount"} \subseteq DOMAIN s
  BY DEF Within, Blank
<1> HIDE DEF one
<1>4. /\ DOMAIN t = DOMAIN s /\ t.side = s.side /\ t.bids = s.bids /\ t.asks = s.asks /\ t.levels = one
      /\ t.bidCount \in {0, 1} /\ t.askCount = 1 - t.bidCount
  BY <1>3
<1>5. MaxDelta \in Nat /\ MaxDelta >= 1
  BY WireAssumption
<1> HIDE DEF t
<1>6. /\ t.bidCount \in Nat /\ t.askCount \in Nat /\ t.bidCount + t.askCount <= 1
  BY <1>4
<1>7. Within(t)
  BY <1>2, <1>4, <1>5, <1>6 DEF Within
<1> QED BY <1>1, <1>7, FailedWithin

(* What a decoder's keys may be for.                                       *)
Knows(d) ==
  /\ d.kind \in {"Trade", "Quote", "Delta"}
  /\ \A k \in DOMAIN d.keys :
       d.keys[k] \in {"symbol", "both", "dec", "side", "units", "change"} \cup Numbers \cup Counters \cup Book

(* One field keeps the limits.                                             *)
LEMMA ReadWithin ==
  ASSUME NEW d, NEW inst, NEW s, NEW f, Knows(d), Within(s),
         f.key \in DOMAIN d.keys /\ d.keys[f.key] \in Book \cup {"units"} => IsList(f.val)
  PROVE  Within(Read(d, inst, s, f))
<1>1. CASE s.err # "" \/ f.key \notin DOMAIN d.keys
  BY <1>1 DEF Read
<1>2. CASE ~(s.err # "" \/ f.key \notin DOMAIN d.keys)
  <2> DEFINE r == d.keys[f.key]
             x == f.val
             t == Read(d, inst, s, f)
  <2>1. r \in {"symbol", "both", "dec", "side", "units", "change"} \cup Numbers \cup Counters \cup Book
    BY <1>2 DEF Knows
  <2>2. CASE r = "symbol"
    <3>1. t = s \/ t = Failed(s, "SymbolMismatch")
      BY <1>2, <2>2 DEF Read, Numbers, Deal, Top, Counters, Book
    <3> HIDE DEF t
    <3>2. Within(t)
      BY <3>1, FailedWithin
    <3> QED BY <3>2 DEF t
  <2>3. CASE r \in Numbers
    <3>1. t = Failed(s, "Field") \/ t = Saw([s EXCEPT ![r] = x], r)
      BY <1>2, <2>3 DEF Read, Numbers, Deal, Top, Counters, Book
    <3>2. Within(Failed(s, "Field"))
      BY FailedWithin
    <3>3. r \notin {"side", "bids", "asks", "levels", "bidCount", "askCount"}
      BY <2>3 DEF Numbers, Deal, Top
    <3> HIDE DEF t, r, x
    <3>4. Within([s EXCEPT ![r] = x])
      BY <3>3, ValueWithin
    <3>5. Within(Saw([s EXCEPT ![r] = x], r))
      BY <3>4, SawWithin
    <3>6. Within(t)
      BY <3>1, <3>2, <3>5
    <3> QED BY <3>6 DEF t
  <2>4. CASE r \in Counters
    <3>1. t = Saw([s EXCEPT ![r] = x], r)
      BY <1>2, <2>4 DEF Read, Numbers, Deal, Top, Counters, Book
    <3>2. r \notin {"side", "bids", "asks", "levels", "bidCount", "askCount"}
      BY <2>4 DEF Counters
    <3> HIDE DEF t, r, x
    <3>3. Within([s EXCEPT ![r] = x])
      BY <3>2, ValueWithin
    <3>4. Within(t)
      BY <3>1, <3>3, SawWithin
    <3> QED BY <3>4 DEF t
  <2>5. CASE r = "both"
    <3>1. t = Saw([s EXCEPT !.first = x, !.final = x], r)
      BY <1>2, <2>5 DEF Read, Numbers, Deal, Top, Counters, Book
    <3> DEFINE a == [s EXCEPT !["first"] = x]
               b == [a EXCEPT !["final"] = x]
    <3>2. [s EXCEPT !.first = x, !.final = x] = b
      OBVIOUS
    <3>3. Within(a)
      BY ValueWithin
    <3> HIDE DEF a
    <3>4. Within(b)
      BY <3>3, ValueWithin
    <3> HIDE DEF t, r, b
    <3>5. Within(t)
      BY <3>1, <3>2, <3>4, SawWithin
    <3> QED BY <3>5 DEF t
  <2>6. CASE r = "dec"
    <3> DEFINE y == DecimalMillis(x)
    <3>1. t = [s EXCEPT !["ns"] = y]
      BY <1>2, <2>6 DEF Read, Numbers, Deal, Top, Counters, Book
    <3> HIDE DEF t, y
    <3>2. Within(t)
      BY <3>1, ValueWithin
    <3> QED BY <3>2 DEF t
  <2>7. CASE r = "side"
    <3> DEFINE y == Aggressor(d, x)
               b == [s EXCEPT !.side = y]
    <3>1. t = Saw(b, r)
      BY <1>2, <2>7 DEF Read, Numbers, Deal, Top, Counters, Book
    <3>2. y \in {"buy", "sell", "unknown"}
      BY DEF Aggressor
    <3>3. {"side", "bids", "asks", "levels", "bidCount", "askCount"} \subseteq DOMAIN s
      BY DEF Within, Blank
    <3> HIDE DEF y
    <3>4. /\ DOMAIN b = DOMAIN s /\ b.side = y /\ b.bids = s.bids /\ b.asks = s.asks /\ b.levels = s.levels
          /\ b.bidCount = s.bidCount /\ b.askCount = s.askCount
      BY <3>3
    <3> HIDE DEF b, t, r
    <3>5. Within(b)
      BY <3>2, <3>4, WithinElse
    <3>6. Within(t)
      BY <3>1, <3>5, SawWithin
    <3> QED BY <3>6 DEF t
  <2>8. CASE r = "units"
    <3>1. t = Saw(Units(s, x), r)
      BY <1>2, <2>8 DEF Read, Numbers, Deal, Top, Counters, Book
    <3>2. IsList(x)
      BY <1>2, <2>8
    <3> HIDE DEF t, r, x
    <3>3. Within(Units(s, x))
      BY <3>2, UnitsWithin
    <3>4. Within(t)
      BY <3>1, <3>3, SawWithin
    <3> QED BY <3>4 DEF t
  <2>9. CASE r = "change"
    <3>1. t = Saw(Change(s, x), r)
      BY <1>2, <2>9 DEF Read, Numbers, Deal, Top, Counters, Book
    <3> HIDE DEF t, r, x
    <3>2. Within(Change(s, x))
      BY ChangeWithin
    <3>3. Within(t)
      BY <3>1, <3>2, SawWithin
    <3> QED BY <3>3 DEF t
  <2>10. CASE r \in Book
    <3>1. t = Saw(IF d.kind = "Quote" THEN QuoteLevels(s, r, x) ELSE SidesRead(s, r, x), r)
      BY <1>2, <2>10 DEF Read, Numbers, Deal, Top, Counters, Book
    <3>2. IsList(x)
      BY <1>2, <2>10
    <3> HIDE DEF t, r, x
    <3>3. Within(QuoteLevels(s, r, x)) /\ Within(SidesRead(s, r, x))
      BY <2>10, <3>2, QuoteWithin, SidesWithin
    <3>4. Within(t)
      BY <3>1, <3>3, SawWithin
    <3> QED BY <3>4 DEF t
  <2> HIDE DEF r, t
  <2>11. Within(t)
    BY <2>1, <2>2, <2>3, <2>4, <2>5, <2>6, <2>7, <2>8, <2>9, <2>10 DEF t
  <2> QED BY <2>11 DEF t
<1> QED BY <1>1, <1>2

(* So does the loop.                                                       *)
LEMMA ScanWithin ==
  ASSUME NEW d, NEW inst, NEW s0, NEW fields, Knows(d), IsBody(d, fields), Within(s0)
  PROVE  Within(Scan(d, inst, s0, fields))
<1> DEFINE n == Len(fields)
<1>1. n \in Nat
  BY DEF IsBody, IsList
<1>2. PICK h : /\ h[0] = s0 /\ Scan(d, inst, s0, fields) = h[n]
               /\ \A i \in 1..n : h[i] = Read(d, inst, h[i - 1], fields[i])
  BY <1>1, ScanRuns
<1>3. \A i \in 1..n : fields[i].key \in DOMAIN d.keys /\ d.keys[fields[i].key] \in Book \cup {"units"}
                        => IsList(fields[i].val)
  BY DEF IsBody
<1> HIDE DEF n
<1> DEFINE S == {i \in 0..n : Within(h[i])}
<1>4. 0 \in S
  BY <1>1, <1>2
<1>5. ASSUME NEW m \in 1..n, m - 1 \in S PROVE m \in S
  <2>1. m \in 0..n /\ Within(h[m - 1])
    BY <1>1, <1>5
  <2>2. Within(Read(d, inst, h[m - 1], fields[m]))
    BY <1>3, <2>1, ReadWithin
  <2> QED BY <1>2, <2>1, <2>2
<1>6. n \in S
  <2> HIDE DEF S
  <2>1. 0..n \subseteq S
    BY <1>1, <1>4, <1>5, FromOneToNext
  <2> QED BY <1>1, <2>1
<1> QED BY <1>2, <1>6

-----------------------------------------------------------------------------
(* A record of the instrument, of one of the kinds, and within the limits  *)
(* its readers check, by the fields they look at.                          *)
Belongs(r, inst, kinds) ==
  /\ {"inst", "kind"} \subseteq DOMAIN r /\ r.inst = inst /\ r.kind \in kinds
  /\ r.kind = "Trade" => "side" \in DOMAIN r
  /\ r.kind = "Quote" => "shape" \in DOMAIN r
  /\ r.kind = "Delta" => {"bidCount", "askCount"} \subseteq DOMAIN r
  /\ Validate(r)
AllBelong(routed, inst, kinds) ==
  /\ Len(routed.records) \in Nat
  /\ \A i \in 1..Len(routed.records) : Belongs(routed.records[i], inst, kinds)

(* A decoder gives records of its own kind and of the instrument it was    *)
(* called for, whatever the fields.                                        *)
LEMMA RecordBelongs ==
  ASSUME NEW d, NEW inst, NEW s, Knows(d), Within(s)
  PROVE  Belongs(Record(d, inst, s), inst, {d.kind})
<1>0. d.kind \in {"Trade", "Quote", "Delta"}
  BY DEF Knows
<1>1. CASE d.kind = "Trade"
  <2> DEFINE time == VenueTime(s)
             side == s.side
  <2>1. Record(d, inst, s) = [kind |-> "Trade", inst |-> inst, time |-> time,
                              price |-> s.price, qty |-> s.qty, side |-> side]
    BY <1>1 DEF Record
  <2>2. side \in {"buy", "sell", "unknown"}
    BY DEF Within
  <2> HIDE DEF time, side
  <2> QED BY <1>1, <2>1, <2>2 DEF Belongs, Validate, ValidHeader
<1>2. CASE d.kind = "Quote"
  <2> DEFINE top == d.need = Top
             bid == IF top THEN <<<<s.bidPrice, s.bidQty>>>> ELSE s.bids
             ask == IF top THEN <<<<s.askPrice, s.askQty>>>> ELSE s.asks
             time == VenueTime(s)
             shape == BookShape(DepthOf(bid), DepthOf(ask))
             seq == IF top \/ "seq" \in s.have THEN s.seq ELSE None
  <2>1. Record(d, inst, s) = [kind |-> "Quote", inst |-> inst, time |-> time, bids |-> bid, asks |-> ask,
                              shape |-> shape, seq |-> seq]
    BY <1>2 DEF Record
  <2>2. Len(bid) \in 0..MaxDepth /\ Len(ask) \in 0..MaxDepth /\ MaxDepth \in Nat
    <3>1. MaxDepth \in Nat /\ MaxDepth >= 1
      BY WireAssumption
    <3>2. Len(s.bids) \in 0..MaxDepth /\ Len(s.asks) \in 0..MaxDepth
      BY DEF Within
    <3>3. Len(<<<<s.bidPrice, s.bidQty>>>>) = 1 /\ Len(<<<<s.askPrice, s.askQty>>>>) = 1
      OBVIOUS
    <3> QED BY <3>1, <3>2, <3>3
  <2> HIDE DEF bid, ask, time, seq
  <2> DEFINE b == DepthOf(bid)
             a == DepthOf(ask)
  <2>3. b \in 0..MaxDepth /\ a \in 0..MaxDepth
    <3>1. b \in 0..Len(bid) /\ a \in 0..Len(ask)
      BY <2>2, DepthWithin
    <3> HIDE DEF b, a
    <3> DEFINE lb == Len(bid)
               la == Len(ask)
    <3>2. lb \in 0..MaxDepth /\ la \in 0..MaxDepth /\ b \in 0..lb /\ a \in 0..la
      BY <2>2, <3>1
    <3> HIDE DEF lb, la
    <3> QED BY <2>2, <3>2
  <2>4. shape.depth <= MaxDepth
    <3> HIDE DEF b, a
    <3>1. BookShape(b, a).depth = IF b > a THEN b ELSE a
      BY DEF BookShape
    <3>2. BookShape(b, a).depth <= MaxDepth
      BY <2>3, <3>1
    <3> QED BY <3>2 DEF b, a
  <2> HIDE DEF shape
  <2> QED BY <1>2, <2>1, <2>4 DEF Belongs, Validate, ValidHeader
<1>3. CASE d.kind = "Delta"
  <2> DEFINE time == VenueTime(s)
             levels == SidesFinish(s)
             b == s.bidCount
             a == s.askCount
  <2>1. Record(d, inst, s) = [kind |-> "Delta", inst |-> inst, time |-> time, levels |-> levels,
                              bidCount |-> b, askCount |-> a,
                              first |-> s.first, final |-> s.final, prev |-> s.prev]
    BY <1>3 DEF Record
  <2>2. b + a <= MaxDelta
    <3> DEFINE n == Len(s.levels)
    <3>1. b \in Nat /\ a \in Nat /\ b + a <= n /\ n \in Nat /\ n <= MaxDelta /\ MaxDelta \in Nat
      BY WireAssumption DEF Within, IsList
    <3> HIDE DEF n, a, b
    <3> QED BY <3>1
  <2> HIDE DEF time, levels, a, b
  <2> QED BY <1>3, <2>1, <2>2 DEF Belongs, Validate, ValidHeader
<1> QED BY <1>0, <1>1, <1>2, <1>3

(* The same behind the loop over the fields.                               *)
LEMMA DecodedBelongs ==
  ASSUME NEW d, NEW inst, NEW s0, NEW fields, Knows(d), IsBody(d, fields), Within(s0),
         Accepted(DecodeFrom(d, inst, s0, fields))
  PROVE  Belongs(DecodeFrom(d, inst, s0, fields), inst, {d.kind})
<1> DEFINE s == Scan(d, inst, s0, fields)
<1>1. DecodeFrom(d, inst, s0, fields) = IF s.err # "" THEN Refuse(s.err)
                                        ELSE IF ~(d.need \subseteq s.have) THEN Refuse("Missing")
                                        ELSE Record(d, inst, s)
  BY DEF DecodeFrom
<1>2. Within(s)
  BY ScanWithin
<1> HIDE DEF s
<1>3. ~Accepted(Refuse(s.err)) /\ ~Accepted(Refuse("Missing"))
  BY DEF Accepted, Refuse
<1>4. Belongs(Record(d, inst, s), inst, {d.kind})
  BY <1>2, RecordBelongs
<1> QED BY <1>1, <1>3, <1>4

(* And for the one record of a message.                                    *)
LEMMA PublishedBelongs ==
  ASSUME NEW r, NEW inst, NEW kinds, Accepted(r) => Belongs(r, inst, kinds)
  PROVE  AllBelong(Published(r), inst, kinds)
<1>1. CASE Accepted(r)
  <2>1. Published(r).records = <<r>>
    BY <1>1 DEF Published
  <2>2. Len(<<r>>) = 1 /\ <<r>>[1] = r
    OBVIOUS
  <2> QED BY <1>1, <2>1, <2>2 DEF AllBelong
<1>2. CASE ~Accepted(r)
  <2>1. Published(r).records = <<>>
    BY <1>2 DEF Published
  <2> QED BY <2>1 DEF AllBelong
<1> QED BY <1>1, <1>2

(* Of a batch, only the entries before the first that is refused.          *)
LEMMA BatchBelongs ==
  ASSUME NEW d, NEW inst, NEW items, Len(items) \in Nat, Knows(d), \A i \in 1..Len(items) : IsBody(d, items[i])
  PROVE  AllBelong(PublishBatch(d, inst, items), inst, {d.kind})
<1> DEFINE out(i) == Decode(d, inst, items[i])
           refused == {i \in 1..Len(items) : ~Accepted(out(i))}
           n == IF refused = {} THEN Len(items) ELSE Min(refused) - 1
           rs == [i \in 1..n |-> out(i)]
<1>1. PublishBatch(d, inst, items).records = rs
  BY DEF PublishBatch
<1>2. n \in Nat /\ \A i \in 1..n : i \in 1..Len(items) /\ i \notin refused
  <2>1. CASE refused = {}
    BY <2>1
  <2>2. CASE refused # {}
    <3>1. refused \subseteq Nat /\ refused \subseteq 1..Len(items)
      OBVIOUS
    <3> HIDE DEF refused
    <3>2. Min(refused) \in refused /\ \A y \in refused : Min(refused) <= y
      BY <2>2, <3>1, FirstPosition
    <3> DEFINE k == Min(refused)
    <3>3. n = k - 1
      BY <2>2
    <3>4. k \in 1..Len(items) /\ \A y \in refused : k <= y
      BY <3>1, <3>2
    <3> HIDE DEF k, n
    <3>5. n \in Nat /\ \A i \in 1..n : i \in 1..Len(items) /\ i < k
      BY <3>3, <3>4
    <3>6. ASSUME NEW i \in 1..n PROVE i \notin refused
      BY <3>3, <3>4, <3>5
    <3> QED BY <3>5, <3>6
  <2> QED BY <2>1, <2>2
<1>3. \A i \in 1..n : Accepted(out(i))
  BY <1>2
<1>4. \A i \in 1..n : Belongs(out(i), inst, {d.kind})
  BY <1>2, <1>3, BlankWithin, DecodedBelongs DEF Decode
<1> HIDE DEF n, out
<1>5. Len(rs) = n
  BY <1>2
<1>6. AllBelong([records |-> rs], inst, {d.kind})
  BY <1>2, <1>4, <1>5 DEF AllBelong
<1> HIDE DEF rs
<1> QED BY <1>1, <1>6 DEF AllBelong

(* What reaches the ring is what was routed, marked.                       *)
LEMMA RingBelongs ==
  ASSUME NEW routed, NEW recv, NEW inst, NEW kinds, AllBelong(routed, inst, kinds)
  PROVE  \A i \in 1..Len(Guarded(routed, recv).ring) :
           LET r == Guarded(routed, recv).ring[i] IN r.inst = inst /\ r.kind \in kinds /\ Validate(r)
<1> DEFINE n == Len(routed.records)
           out == [i \in 1..n |-> MarkStale(routed.records[i], recv)]
<1>1. Guarded(routed, recv).ring = out
  BY DEF Guarded
<1>2. n \in Nat /\ Len(out) = n
  BY DEF AllBelong
<1>3. ASSUME NEW i \in 1..n PROVE out[i].inst = inst /\ out[i].kind \in kinds /\ Validate(out[i])
  <2> DEFINE r == routed.records[i]
             marked == MarkStale(r, recv)
  <2>1. Belongs(r, inst, kinds)
    BY <1>3 DEF AllBelong
  <2>2. out[i] = marked
    BY <1>3
  <2> HIDE DEF r
  <2>3. \A x \in DOMAIN r : x # "stale" => marked[x] = r[x]
    BY DEF MarkStale
  <2> HIDE DEF marked
  <2>4. marked.inst = r.inst /\ marked.kind = r.kind
    BY <2>1, <2>3 DEF Belongs
  <2>5. Validate(marked)
    BY <2>1, <2>3, <2>4 DEF Belongs, Validate, ValidHeader
  <2> HIDE DEF out
  <2> QED BY <2>1, <2>2, <2>4, <2>5 DEF Belongs
<1> HIDE DEF out
<1> QED BY <1>1, <1>2, <1>3

(* The venues of each family.                                              *)
LEMMA FamilyOf ==
  ASSUME NEW v \in DOMAIN Family
  PROVE  \/ v \in {"BinanceSpot", "BinanceFutures"} /\ Family[v] = "binance"
         \/ v \in {"Upbit", "Bithumb"} /\ Family[v] = "upbit"
         \/ v = "Okx" /\ Family[v] = "okx"
         \/ v \in {"BybitSpot", "BybitLinear"} /\ Family[v] = "bybit"
         \/ v \in {"BitgetSpot", "BitgetLinear"} /\ Family[v] = "bitget"
         \/ v = "GateSpot" /\ Family[v] = "gate"
         \/ v \in {"KucoinSpot", "KucoinFutures"} /\ Family[v] = "kucoin"
BY DEF Family

(* A stream's name is split into the channel it was asked for under, but   *)
(* OKX's two book channels into one, and names the instrument's symbol.    *)
LEMMA StreamSplits ==
  ASSUME NEW v \in DOMAIN Family, NEW sub, NEW ch \in Supported[Family[v]], sub.depth \in DepthOk(v) \cup {0}
  PROVE  /\ SplitName(v, StreamOf(v, sub, ch)) = IF Family[v] = "okx" /\ ch = "delta" THEN "book" ELSE ch
         /\ StreamOf(v, sub, ch).symbol
              = IF Family[v] = "binance" THEN Lower(sub.inst.symbol) ELSE sub.inst.symbol
<1>1. CASE v \in {"BinanceSpot", "BinanceFutures"} /\ Family[v] = "binance"
  <2>1. ch \in {"trade", "bbo", "book", "delta"} /\ sub.depth \in {5, 10, 20, 0}
    BY <1>1 DEF Supported, Channels, DepthOk
  <2> DEFINE n == BinanceStreams(v, sub, ch)
             w == Lower(sub.inst.symbol)
  <2>2. /\ ch = "trade" => n = StreamName(IF v = "BinanceSpot" THEN "trade" ELSE "aggTrade", 0, w)
        /\ ch = "bbo" => n = StreamName("bookTicker", 0, w)
        /\ ch = "book" => n = StreamName("depth@100ms", Or(sub.depth, 10), w)
        /\ ch = "delta" => n = StreamName("depth@100ms", 0, w)
    BY <2>1 DEF BinanceStreams
  <2>3. Or(sub.depth, 10) # 0
    BY <2>1 DEF Or
  <2> HIDE DEF n, w
  <2>4. BinanceSplit(n) = ch /\ n.symbol = w
    <3>1. CASE ch = "trade"
      BY <2>2, <3>1 DEF BinanceSplit, StreamName
    <3>2. CASE ch = "bbo"
      BY <2>2, <3>2 DEF BinanceSplit, StreamName
    <3>3. CASE ch = "book"
      BY <2>2, <2>3, <3>3 DEF BinanceSplit, StreamName
    <3>4. CASE ch = "delta"
      BY <2>2, <3>4 DEF BinanceSplit, StreamName
    <3> QED BY <2>1, <3>1, <3>2, <3>3, <3>4
  <2> QED BY <1>1, <2>4 DEF SplitName, StreamOf, n, w
<1>2. CASE Family[v] = "upbit"
  <2>1. ch \in {"trade", "book"}
    BY <1>2 DEF Supported
  <2> QED BY <1>2, <2>1 DEF SplitName, StreamOf, UpbitCodes, UpbitRoute, StreamName
<1>3. CASE Family[v] = "okx"
  <2>1. ch \in {"trade", "book", "delta"}
    BY <1>3 DEF Supported
  <2> QED BY <1>3, <2>1 DEF SplitName, StreamOf, OkxArgs, OkxRoute, StreamName
<1>4. CASE Family[v] = "bybit"
  <2>1. ch \in {"trade", "book"}
    BY <1>4 DEF Supported
  <2> QED BY <1>4, <2>1 DEF SplitName, StreamOf, BybitTopics, BybitSplit, StreamName
<1>5. CASE Family[v] = "bitget"
  <2>1. ch \in {"trade", "book"}
    BY <1>5 DEF Supported
  <2> QED BY <1>5, <2>1 DEF SplitName, StreamOf, BitgetArgs, BitgetRoute, StreamName
<1>6. CASE Family[v] = "gate"
  <2>1. ch \in {"trade", "delta"}
    BY <1>6 DEF Supported
  <2> QED BY <1>6, <2>1 DEF SplitName, StreamOf, GateChannels, GateRoute, StreamName
<1>7. CASE v \in {"KucoinSpot", "KucoinFutures"} /\ Family[v] = "kucoin"
  <2>1. ch \in {"trade", "delta"}
    BY <1>7 DEF Supported
  <2> QED BY <1>7, <2>1 DEF SplitName, StreamOf, KucoinTopics, KucoinRoute, StreamName
<1> QED BY <1>1, <1>2, <1>3, <1>4, <1>5, <1>6, <1>7, FamilyOf

(* A symbol finds the subscription it belongs to, and no other.            *)
LEMMA LookupFinds ==
  ASSUME NEW v, NEW subs, IsList(subs), NEW k \in 1..Len(subs), Check(v, subs),
         \A i, j \in 1..Len(subs) :
           Lower(subs[i].inst.symbol) = Lower(subs[j].inst.symbol) => subs[i].inst.symbol = subs[j].inst.symbol
  PROVE  Lookup(v, subs, IF Family[v] = "binance" THEN Lower(subs[k].inst.symbol) ELSE subs[k].inst.symbol) = k
<1> DEFINE key(i) == IF Family[v] = "binance" THEN Lower(subs[i].inst.symbol) ELSE subs[i].inst.symbol
           hit == {i \in 1..Len(subs) : key(k) = key(i)}
<1>1. Len(subs) \in Nat
  BY DEF IsList
<1>2. ASSUME NEW i \in 1..Len(subs), NEW j \in 1..Len(subs), i # j PROVE subs[i].inst.symbol # subs[j].inst.symbol
  <2>1. \A a \in 1..Len(subs) : \A b \in 1..(a - 1) : subs[b].inst.symbol # subs[a].inst.symbol
    BY DEF Check
  <2>2. j \in 1..(i - 1) \/ i \in 1..(j - 1)
    BY <1>1, <1>2
  <2> QED BY <2>1, <2>2
<1>3. \A i \in 1..Len(subs) : key(k) = key(i) => i = k
  BY <1>2
<1>4. hit = {k}
  <2> HIDE DEF key
  <2> QED BY <1>3
<1>5. Lookup(v, subs, key(k)) = IF hit = {} THEN 0 ELSE Min(hit)
  BY DEF Lookup
<1> HIDE DEF hit
<1>6. Min(hit) \in hit
  BY <1>1, <1>4, FirstPosition
<1> QED BY <1>4, <1>5, <1>6

(* Every decoder table knows what each of its keys is for.                 *)
LEMMA TablesKnow ==
  /\ Knows(BinanceSpotTrade) /\ Knows(BinanceSpotBbo) /\ Knows(BinanceSpotSnapshot) /\ Knows(BinanceSpotDelta)
  /\ Knows(BinanceFuturesTrade) /\ Knows(BinanceFuturesBbo) /\ Knows(BinanceFuturesSnapshot)
  /\ Knows(BinanceFuturesDelta) /\ Knows(UpbitTrade) /\ Knows(UpbitSnapshot)
  /\ Knows(OkxTrade) /\ Knows(OkxSnapshot) /\ Knows(OkxDelta)
  /\ Knows(BybitTrade) /\ Knows(BybitSnapshot) /\ Knows(BybitDelta)
  /\ Knows(BitgetTrade) /\ Knows(BitgetSnapshot) /\ Knows(BitgetDelta)
  /\ Knows(GateTrade) /\ Knows(GateDelta) /\ Knows(GateRest)
  /\ Knows(KucoinSpotTrade) /\ Knows(KucoinSpotDelta) /\ Knows(KucoinSpotRest)
  /\ Knows(KucoinFuturesTrade) /\ Knows(KucoinFuturesDelta) /\ Knows(KucoinFuturesRest)
<1> USE DEF Knows, Trade, Decoder, Numbers, Deal, Top, Counters, Book
<1>1. Knows(BinanceSpotTrade) /\ Knows(BinanceSpotBbo) /\ Knows(BinanceSpotSnapshot) /\ Knows(BinanceSpotDelta)
  BY DEF BinanceSpotTrade, BinanceSpotBbo, BinanceSpotSnapshot, BinanceSpotDelta
<1>2. /\ Knows(BinanceFuturesTrade) /\ Knows(BinanceFuturesBbo) /\ Knows(BinanceFuturesSnapshot)
      /\ Knows(BinanceFuturesDelta)
  BY DEF BinanceFuturesTrade, BinanceFuturesBbo, BinanceFuturesSnapshot, BinanceFuturesDelta
<1>3. Knows(UpbitTrade) /\ Knows(UpbitSnapshot)
  BY DEF UpbitTrade, UpbitSnapshot
<1>4. Knows(OkxTrade) /\ Knows(OkxSnapshot) /\ Knows(OkxDelta)
  BY DEF OkxTrade, OkxSnapshot, OkxDelta
<1>5. Knows(BybitTrade) /\ Knows(BybitSnapshot) /\ Knows(BybitDelta)
  BY DEF BybitTrade, BybitSnapshot, BybitDelta
<1>6. Knows(BitgetTrade) /\ Knows(BitgetSnapshot) /\ Knows(BitgetDelta)
  BY DEF BitgetTrade, BitgetSnapshot, BitgetDelta
<1>7. Knows(GateTrade) /\ Knows(GateDelta) /\ Knows(GateRest)
  BY DEF GateTrade, GateDelta, GateRest
<1>8. Knows(KucoinSpotTrade) /\ Knows(KucoinSpotDelta) /\ Knows(KucoinSpotRest)
  BY DEF KucoinSpotTrade, KucoinSpotDelta, KucoinSpotRest
<1>9. Knows(KucoinFuturesTrade) /\ Knows(KucoinFuturesDelta) /\ Knows(KucoinFuturesRest)
  BY DEF KucoinFuturesTrade, KucoinFuturesDelta, KucoinFuturesRest
<1> HIDE DEF Knows
<1> QED BY <1>1, <1>2, <1>3, <1>4, <1>5, <1>6, <1>7, <1>8, <1>9

(* The decoder a router picks for a channel is one of the channel's kind.  *)
LEMMA TableKinds ==
  ASSUME NEW v \in DOMAIN Family, NEW ch \in Supported[Family[v]], NEW m,
         Family[v] \notin {"okx", "bybit", "bitget"} \/ ch = "trade"
  PROVE  Knows(TableOf(v, ch)) /\ TableOf(v, ch).kind = KindOf(v, ch, m)
<1>1. /\ ch = "trade" => KindOf(v, ch, m) = "Trade"
      /\ ch \in {"bbo", "book"} => KindOf(v, ch, m) = "Quote"
      /\ ch = "delta" => KindOf(v, ch, m) = "Delta"
  BY DEF KindOf, IsDelta
<1>2. CASE v \in {"BinanceSpot", "BinanceFutures"} /\ Family[v] = "binance"
  <2>1. ch \in {"trade", "bbo", "book", "delta"}
    BY <1>2 DEF Supported, Channels
  <2>2. CASE v = "BinanceSpot"
    <3>1. /\ ch = "trade" => TableOf(v, ch) = BinanceSpotTrade
          /\ ch = "bbo" => TableOf(v, ch) = BinanceSpotBbo
          /\ ch = "book" => TableOf(v, ch) = BinanceSpotSnapshot
          /\ ch = "delta" => TableOf(v, ch) = BinanceSpotDelta
      BY <1>2, <2>1, <2>2 DEF TableOf
    <3>2. /\ BinanceSpotTrade.kind = "Trade" /\ BinanceSpotBbo.kind = "Quote"
          /\ BinanceSpotSnapshot.kind = "Quote" /\ BinanceSpotDelta.kind = "Delta"
      BY DEF BinanceSpotTrade, BinanceSpotBbo, BinanceSpotSnapshot, BinanceSpotDelta, Trade, Decoder
    <3> QED BY <1>1, <1>2, <2>1, <3>1, <3>2, TablesKnow
  <2>3. CASE v = "BinanceFutures"
    <3>1. /\ ch = "trade" => TableOf(v, ch) = BinanceFuturesTrade
          /\ ch = "bbo" => TableOf(v, ch) = BinanceFuturesBbo
          /\ ch = "book" => TableOf(v, ch) = BinanceFuturesSnapshot
          /\ ch = "delta" => TableOf(v, ch) = BinanceFuturesDelta
      BY <1>2, <2>1, <2>3 DEF TableOf
    <3>2. /\ BinanceFuturesTrade.kind = "Trade" /\ BinanceFuturesBbo.kind = "Quote"
          /\ BinanceFuturesSnapshot.kind = "Quote" /\ BinanceFuturesDelta.kind = "Delta"
      BY DEF BinanceFuturesTrade, BinanceFuturesBbo, BinanceFuturesSnapshot, BinanceFuturesDelta, Trade, Decoder
    <3> QED BY <1>1, <1>2, <2>1, <3>1, <3>2, TablesKnow
  <2> QED BY <1>2, <2>2, <2>3
<1>3. CASE v \in {"Upbit", "Bithumb"} /\ Family[v] = "upbit"
  <2>1. ch \in {"trade", "book"}
    BY <1>3 DEF Supported
  <2>2. TableOf(v, ch) = IF ch = "trade" THEN UpbitTrade ELSE UpbitSnapshot
    BY <1>3 DEF TableOf
  <2>3. UpbitTrade.kind = "Trade" /\ UpbitSnapshot.kind = "Quote"
    BY DEF UpbitTrade, UpbitSnapshot, Trade, Decoder
  <2> QED BY <1>1, <2>1, <2>2, <2>3, TablesKnow
<1>4. CASE v = "Okx" /\ Family[v] = "okx"
  <2>1. TableOf(v, ch) = OkxTrade /\ ch = "trade"
    BY <1>4 DEF TableOf
  <2>2. OkxTrade.kind = "Trade"
    BY DEF OkxTrade, Trade
  <2> QED BY <1>1, <2>1, <2>2, TablesKnow
<1>5. CASE v \in {"BybitSpot", "BybitLinear"} /\ Family[v] = "bybit"
  <2>1. TableOf(v, ch) = BybitTrade /\ ch = "trade"
    BY <1>5 DEF TableOf
  <2>2. BybitTrade.kind = "Trade"
    BY DEF BybitTrade, Trade
  <2> QED BY <1>1, <2>1, <2>2, TablesKnow
<1>6. CASE v \in {"BitgetSpot", "BitgetLinear"} /\ Family[v] = "bitget"
  <2>1. TableOf(v, ch) = BitgetTrade /\ ch = "trade"
    BY <1>6 DEF TableOf
  <2>2. BitgetTrade.kind = "Trade"
    BY DEF BitgetTrade, Trade
  <2> QED BY <1>1, <2>1, <2>2, TablesKnow
<1>7. CASE v = "GateSpot" /\ Family[v] = "gate"
  <2>1. ch \in {"trade", "delta"}
    BY <1>7 DEF Supported
  <2>2. TableOf(v, ch) = IF ch = "trade" THEN GateTrade ELSE GateDelta
    BY <1>7 DEF TableOf
  <2>3. GateTrade.kind = "Trade" /\ GateDelta.kind = "Delta"
    BY DEF GateTrade, GateDelta, Trade, Decoder
  <2> QED BY <1>1, <1>7, <2>1, <2>2, <2>3, TablesKnow
<1>8. CASE v \in {"KucoinSpot", "KucoinFutures"} /\ Family[v] = "kucoin"
  <2>1. ch \in {"trade", "delta"}
    BY <1>8 DEF Supported
  <2>2. TableOf(v, ch) = IF v = "KucoinSpot" THEN IF ch = "trade" THEN KucoinSpotTrade ELSE KucoinSpotDelta
                         ELSE IF ch = "trade" THEN KucoinFuturesTrade ELSE KucoinFuturesDelta
    BY <1>8 DEF TableOf
  <2>3. /\ KucoinSpotTrade.kind = "Trade" /\ KucoinSpotDelta.kind = "Delta"
        /\ KucoinFuturesTrade.kind = "Trade" /\ KucoinFuturesDelta.kind = "Delta"
    BY DEF KucoinSpotTrade, KucoinSpotDelta, KucoinFuturesTrade, KucoinFuturesDelta, Trade, Decoder
  <2> QED BY <1>1, <1>8, <2>1, <2>2, <2>3, TablesKnow
<1> QED BY <1>2, <1>3, <1>4, <1>5, <1>6, <1>7, <1>8, FamilyOf

(* A message whose data are bodies of the decoders.                        *)
Holds(m, ds) ==
  /\ IsList(m.data.items)
  /\ m.data.form \in {"object", "flat"} => m.data.items # <<>>
  /\ \A i \in 1..Len(m.data.items) : \A d \in ds : IsBody(d, m.data.items[i])

(* The first of them, where there is one.                                  *)
LEMMA FirstBody ==
  ASSUME NEW m, NEW ds, Holds(m, ds), m.data.items # <<>>
  PROVE  \A d \in ds : IsBody(d, m.data.items[1])
<1> DEFINE items == m.data.items
<1>1. IsList(items) /\ items # <<>> /\ \A i \in 1..Len(items) : \A d \in ds : IsBody(d, items[i])
  BY DEF Holds
<1> HIDE DEF items
<1>2. 1 \in 1..Len(items)
  <2>1. Len(items) # 0
    BY <1>1 DEF IsList
  <2>2. Len(items) \in Nat
    BY <1>1 DEF IsList
  <2> QED BY <2>1, <2>2
<1> QED BY <1>1, <1>2 DEF items

(* The books that say themselves what they are: a snapshot or a change.    *)
LEMMA BooksBelong ==
  ASSUME NEW v \in DOMAIN Family, NEW ch, ch # "trade", NEW inst, NEW m
  PROVE  /\ Family[v] = "okx" /\ Holds(m, {OkxSnapshot, OkxDelta})
              => AllBelong(Published(OkxBook(inst, m)), inst, {KindOf(v, ch, m)})
         /\ Family[v] = "bybit" /\ Holds(m, {BybitSnapshot, BybitDelta})
              => AllBelong(Published(BybitBook(inst, m)), inst, {KindOf(v, ch, m)})
         /\ Family[v] = "bitget" /\ Holds(m, {BitgetSnapshot, BitgetDelta})
              => AllBelong(Published(BitgetBook(inst, m)), inst, {KindOf(v, ch, m)})
<1> DEFINE kind == KindOf(v, ch, m)
<1>1. /\ OkxSnapshot.kind = "Quote" /\ OkxDelta.kind = "Delta" /\ BybitSnapshot.kind = "Quote"
      /\ BybitDelta.kind = "Delta" /\ BitgetSnapshot.kind = "Quote" /\ BitgetDelta.kind = "Delta"
  BY DEF OkxSnapshot, OkxDelta, BybitSnapshot, BybitDelta, BitgetSnapshot, BitgetDelta, Decoder
<1>2. ASSUME NEW d, NEW s0, NEW fields, d.kind = kind, Knows(d), IsBody(d, fields), Within(s0),
             Accepted(DecodeFrom(d, inst, s0, fields))
      PROVE  Belongs(DecodeFrom(d, inst, s0, fields), inst, {kind})
  <2> HIDE DEF kind
  <2>1. Belongs(DecodeFrom(d, inst, s0, fields), inst, {d.kind})
    BY <1>2, DecodedBelongs
  <2> QED BY <1>2, <2>1
<1>3. ~Accepted(Refuse("Unexpected")) /\ ~Accepted(Refuse("Missing"))
  BY DEF Accepted, Refuse
<1>4. ASSUME Family[v] = "okx", Holds(m, {OkxSnapshot, OkxDelta}), Accepted(OkxBook(inst, m))
      PROVE  Belongs(OkxBook(inst, m), inst, {kind})
  <2> DEFINE d == IF m.action = "update" THEN OkxDelta ELSE OkxSnapshot
             body == m.data.items[1]
  <2>1. /\ OkxBook(inst, m) = DecodeFrom(d, inst, Blank, body) /\ m.data.items # <<>>
        /\ m.action \in {"", "snapshot", "update"}
    BY <1>3, <1>4 DEF OkxBook, Decode
  <2>2. IsBody(OkxSnapshot, body) /\ IsBody(OkxDelta, body)
    BY <1>4, <2>1, FirstBody
  <2>3. kind = IF m.action = "update" THEN "Delta" ELSE "Quote"
    BY <1>4, <2>1 DEF KindOf, IsDelta, Rebuilds
  <2>4. d.kind = kind /\ Knows(d) /\ IsBody(d, body)
    BY <1>1, <2>2, <2>3, TablesKnow
  <2> HIDE DEF d, body, kind
  <2> QED BY <1>2, <1>4, <2>1, <2>4, BlankWithin
<1>5. ASSUME Family[v] = "bybit", Holds(m, {BybitSnapshot, BybitDelta}), Accepted(BybitBook(inst, m))
      PROVE  Belongs(BybitBook(inst, m), inst, {kind})
  <2> DEFINE s0 == [Blank EXCEPT !.ms = m.ms, !.ms2 = m.ms2]
             s1 == [Blank EXCEPT !["ms"] = m.ms]
             body == m.data.items[1]
             d == IF m.action = "snapshot" \/ Rebuilds(v, m) THEN BybitSnapshot ELSE BybitDelta
  <2>1. /\ BybitBook(inst, m) = DecodeFrom(d, inst, s0, body)
        /\ m.data.form = "object" /\ m.action \in {"snapshot", "delta"}
    <3>1. /\ m.action \in {"", "snapshot", "delta"} /\ m.data.form = "object" /\ m.action # ""
          /\ BybitBook(inst, m) =
               DecodeFrom(IF m.action = "snapshot"
                               \/ (\E f \in {g \in Range(body) : g.key = "u"} : f.val = 1)
                          THEN BybitSnapshot ELSE BybitDelta, inst, s0, body)
      BY <1>3, <1>5 DEF BybitBook
    <3>2. (\E f \in {g \in Range(body) : g.key = "u"} : f.val = 1) <=> Rebuilds(v, m)
      BY <1>5 DEF Rebuilds
    <3> HIDE DEF s0, body
    <3> QED BY <3>1, <3>2
  <2>2. m.data.items # <<>>
    BY <1>5, <2>1 DEF Holds
  <2>3. IsBody(BybitSnapshot, body) /\ IsBody(BybitDelta, body)
    BY <1>5, <2>2, FirstBody
  <2>4. Within(s0)
    <3>1. Within(s1)
      BY BlankWithin, ValueWithin
    <3>2. s0 = [s1 EXCEPT !["ms2"] = m.ms2]
      OBVIOUS
    <3> HIDE DEF s0, s1
    <3> QED BY <3>1, <3>2, ValueWithin
  <2>5. kind = IF m.action = "snapshot" \/ Rebuilds(v, m) THEN "Quote" ELSE "Delta"
    BY <1>5, <2>1 DEF KindOf, IsDelta
  <2>6. d.kind = kind /\ Knows(d) /\ IsBody(d, body)
    BY <1>1, <2>3, <2>5, TablesKnow
  <2> HIDE DEF s0, body, d, kind
  <2> QED BY <1>2, <1>5, <2>1, <2>4, <2>6
<1>6. ASSUME Family[v] = "bitget", Holds(m, {BitgetSnapshot, BitgetDelta}), Accepted(BitgetBook(inst, m))
      PROVE  Belongs(BitgetBook(inst, m), inst, {kind})
  <2> DEFINE d == IF m.action = "update" THEN BitgetDelta ELSE BitgetSnapshot
             body == m.data.items[1]
  <2>1. /\ BitgetBook(inst, m) = DecodeFrom(d, inst, Blank, body) /\ m.data.items # <<>>
        /\ m.action \in {"", "snapshot", "update"}
    BY <1>3, <1>6 DEF BitgetBook, Decode
  <2>2. IsBody(BitgetSnapshot, body) /\ IsBody(BitgetDelta, body)
    BY <1>6, <2>1, FirstBody
  <2>3. kind = IF m.action = "update" THEN "Delta" ELSE "Quote"
    BY <1>6, <2>1 DEF KindOf, IsDelta, Rebuilds
  <2>4. d.kind = kind /\ Knows(d) /\ IsBody(d, body)
    BY <1>1, <2>2, <2>3, TablesKnow
  <2> HIDE DEF d, body, kind
  <2> QED BY <1>2, <1>6, <2>1, <2>4, BlankWithin
<1> HIDE DEF kind
<1>7. /\ Family[v] = "okx" /\ Holds(m, {OkxSnapshot, OkxDelta})
           => AllBelong(Published(OkxBook(inst, m)), inst, {kind})
      /\ Family[v] = "bybit" /\ Holds(m, {BybitSnapshot, BybitDelta})
           => AllBelong(Published(BybitBook(inst, m)), inst, {kind})
      /\ Family[v] = "bitget" /\ Holds(m, {BitgetSnapshot, BitgetDelta})
           => AllBelong(Published(BitgetBook(inst, m)), inst, {kind})
  BY <1>4, <1>5, <1>6, PublishedBelongs
<1> QED BY <1>7 DEF kind

(* What a channel's messages are routed to.                                *)
LEMMA RouteBelongs ==
  ASSUME NEW v \in DOMAIN Family, NEW ch \in Supported[Family[v]], NEW inst, NEW m, Holds(m, DecodersOf(v, ch))
  PROVE  AllBelong(RouteTo(v, IF Family[v] = "okx" /\ ch = "delta" THEN "book" ELSE ch, inst, m),
                   inst, {KindOf(v, ch, m)})
<1> DEFINE what == IF Family[v] = "okx" /\ ch = "delta" THEN "book" ELSE ch
           d == TableOf(v, ch)
<1>1. AllBelong(RouteErr("Missing"), inst, {KindOf(v, ch, m)})
  <2>1. RouteErr("Missing").records = <<>>
    BY DEF RouteErr
  <2> QED BY <2>1 DEF AllBelong
<1>2. CASE Family[v] \in {"okx", "bybit", "bitget"} /\ ch = "trade"
  <2>1. what = ch /\ DecodersOf(v, ch) = {d}
    BY <1>2 DEF DecodersOf
  <2>2. Knows(d) /\ {d.kind} \subseteq {KindOf(v, ch, m)}
    BY <1>2, TableKinds
  <2>3. RouteTo(v, what, inst, m) \in {RouteErr("Missing"), PublishBatch(d, inst, m.data.items)}
    BY <1>2, <2>1 DEF RouteTo
  <2> HIDE DEF d, what
  <2>4. Len(m.data.items) \in Nat /\ \A i \in 1..Len(m.data.items) : IsBody(d, m.data.items[i])
    BY <2>1 DEF Holds, IsList
  <2>5. AllBelong(PublishBatch(d, inst, m.data.items), inst, {d.kind})
    BY <2>2, <2>4, BatchBelongs
  <2>6. AllBelong(PublishBatch(d, inst, m.data.items), inst, {KindOf(v, ch, m)})
    BY <2>2, <2>5 DEF AllBelong, Belongs
  <2>7. AllBelong(RouteTo(v, what, inst, m), inst, {KindOf(v, ch, m)})
    BY <1>1, <2>3, <2>6
  <2> QED BY <2>7 DEF what
<1>3. CASE Family[v] \in {"okx", "bybit", "bitget"} /\ ch # "trade"
  <2>1. what # "trade"
    BY <1>3
  <2> HIDE DEF what
  <2>2. /\ Family[v] = "okx" => RouteTo(v, what, inst, m) = Published(OkxBook(inst, m))
        /\ Family[v] = "bybit" => RouteTo(v, what, inst, m) = Published(BybitBook(inst, m))
        /\ Family[v] = "bitget" => RouteTo(v, what, inst, m) = Published(BitgetBook(inst, m))
    BY <1>3, <2>1 DEF RouteTo
  <2>3. /\ Family[v] = "okx" => DecodersOf(v, ch) = {OkxSnapshot, OkxDelta}
        /\ Family[v] = "bybit" => DecodersOf(v, ch) = {BybitSnapshot, BybitDelta}
        /\ Family[v] = "bitget" => DecodersOf(v, ch) = {BitgetSnapshot, BitgetDelta}
    BY <1>3 DEF DecodersOf
  <2>4. AllBelong(RouteTo(v, what, inst, m), inst, {KindOf(v, ch, m)})
    BY <1>3, <2>1, <2>2, <2>3, BooksBelong
  <2> QED BY <2>4 DEF what
<1>4. CASE Family[v] \notin {"okx", "bybit", "bitget"}
  <2>1. what = ch /\ DecodersOf(v, ch) = {d}
    BY <1>4 DEF DecodersOf
  <2>2. Knows(d) /\ {d.kind} \subseteq {KindOf(v, ch, m)}
    BY <1>4, TableKinds
  <2> DEFINE body == m.data.items[1]
             r == Decode(d, inst, body)
  <2>3. \/ RouteTo(v, what, inst, m) = RouteErr("Missing")
        \/ RouteTo(v, what, inst, m) = Published(r) /\ m.data.form \in {"object", "flat"}
    BY <1>4, <2>1 DEF RouteTo
  <2> HIDE DEF d, what
  <2>4. ASSUME m.data.form \in {"object", "flat"}, Accepted(r)
        PROVE  Belongs(r, inst, {KindOf(v, ch, m)})
    <3>1. m.data.items # <<>>
      BY <2>4 DEF Holds
    <3>2. IsBody(d, body)
      BY <2>1, <3>1, FirstBody
    <3> HIDE DEF body
    <3>3. Belongs(r, inst, {d.kind})
      BY <2>2, <2>4, <3>2, BlankWithin, DecodedBelongs DEF Decode
    <3> HIDE DEF r
    <3> QED BY <2>2, <3>3 DEF Belongs
  <2> HIDE DEF r
  <2>5. m.data.form \in {"object", "flat"} => AllBelong(Published(r), inst, {KindOf(v, ch, m)})
    BY <2>4, PublishedBelongs
  <2>6. AllBelong(RouteTo(v, what, inst, m), inst, {KindOf(v, ch, m)})
    BY <1>1, <2>3, <2>5
  <2> QED BY <2>6 DEF what
<1> QED BY <1>2, <1>3, <1>4

(* The answers to the calls of ingest and of ingest_rest.                  *)
RouteInv ==
  /\ call.api = "ingest" =>
       LET in == call.input IN
       in \in Messages /\ Check(in.venue, in.subs) /\ answer = Guarded(Route(in.venue, in.subs, in.msg), in.recv)
  /\ call.api = "rest" =>
       LET in == call.input IN
       /\ in \in RestBodies /\ call.index \in RestBooks(in.venue, in.subs) /\ Check(in.venue, in.subs)
       /\ answer = Guarded(RouteRest(in.venue, in.subs, call.index, in.fields), in.recv)

(* Every answer of the pipeline is the routed message, guarded.            *)
LEMMA RouteAnswers == CodecsSpec => []RouteInv
<1>1. CodecsInit => RouteInv
  BY DEF CodecsInit, RouteInv, Idle
<1>2. RouteInv /\ [CodecsNext]_codecVars => RouteInv'
  <2> SUFFICES ASSUME RouteInv, [CodecsNext]_codecVars PROVE RouteInv'
    OBVIOUS
  <2>1. CASE CallIngest
    <3>1. PICK c \in Messages : /\ Check(c.venue, c.subs) /\ call' = [api |-> "ingest", input |-> c]
                                /\ answer' = Guarded(Route(c.venue, c.subs, c.msg), c.recv)
      BY <2>1 DEF CallIngest, Returns
    <3>2. call'.input = c /\ call'.api = "ingest"
      BY <3>1
    <3> QED BY <3>1, <3>2 DEF RouteInv
  <2>2. CASE CallIngestRest
    <3>1. PICK c \in RestBodies : \E i \in RestBooks(c.venue, c.subs) :
            /\ Check(c.venue, c.subs) /\ call' = [api |-> "rest", input |-> c, index |-> i]
            /\ answer' = Guarded(RouteRest(c.venue, c.subs, i, c.fields), c.recv)
      BY <2>2 DEF CallIngestRest, Returns
    <3>2. PICK i \in RestBooks(c.venue, c.subs) :
            /\ Check(c.venue, c.subs) /\ call' = [api |-> "rest", input |-> c, index |-> i]
            /\ answer' = Guarded(RouteRest(c.venue, c.subs, i, c.fields), c.recv)
      BY <3>1
    <3>3. call'.input = c /\ call'.index = i /\ call'.api = "rest"
      BY <3>2
    <3> QED BY <3>2, <3>3 DEF RouteInv
  <2>3. CASE CallDecode
    BY <2>3 DEF CallDecode, Returns, RouteInv
  <2>4. CASE CallPeek
    BY <2>4 DEF CallPeek, Returns, RouteInv
  <2>5. CASE CallMain
    BY <2>5 DEF CallMain, Returns, RouteInv
  <2>6. CASE CallFix
    BY <2>6 DEF CallFix, Returns, RouteInv
  <2>7. CASE CallKrx
    BY <2>7 DEF CallKrx, Returns, RouteInv
  <2>8. CASE Done
    BY <2>8 DEF Done, Idle, RouteInv
  <2>9. CASE UNCHANGED codecVars
    BY <2>9 DEF codecVars, RouteInv
  <2> QED BY <2>1, <2>2, <2>3, <2>4, <2>5, <2>6, <2>7, <2>8, <2>9 DEF CodecsNext
<1> QED BY <1>1, <1>2, PTL DEF CodecsSpec

(* A message of a stream that was asked for comes back as records of the   *)
(* instrument and the kind it was asked for, one of no stream as none, and *)
(* a start book as a quote of the instrument it was fetched for, each      *)
(* within the limits Validate checks, for every venue, every list of       *)
(* subscriptions the router accepts and every body, a field that comes     *)
(* twice included (streams and split_stream, args, topics, publish_batch,  *)
(* route_rest, Sides::read, quote_levels).                                 *)
THEOREM StreamsAlwaysComeBack == CodecsSpec => []StreamsComeBack
<1>1. RouteInv => StreamsComeBack
  <2> SUFFICES ASSUME RouteInv PROVE StreamsComeBack
    OBVIOUS
  <2> DEFINE in == call.input
             v == in.venue
             subs == in.subs
  <2>1. ASSUME call.api = "ingest", NEW i \in 1..Len(answer.ring)
        PROVE  /\ in.index # 0
               /\ answer.ring[i].inst = subs[in.index].inst
               /\ answer.ring[i].kind = KindOf(v, in.channel, in.msg)
               /\ Validate(answer.ring[i])
    <3>1. in \in Messages /\ Check(v, subs) /\ answer = Guarded(Route(v, subs, in.msg), in.recv)
      BY <2>1 DEF RouteInv
    <3>2. /\ IsList(subs) /\ IsList(in.msg.data.items) /\ in.index \in 0..Len(subs)
          /\ \A a, b \in 1..Len(subs) :
               Lower(subs[a].inst.symbol) = Lower(subs[b].inst.symbol) => subs[a].inst.symbol = subs[b].inst.symbol
          /\ in.index = 0 => SplitName(v, in.msg.name) = "" \/ Lookup(v, subs, in.msg.name.symbol) = 0
          /\ in.index # 0 => /\ in.channel \in subs[in.index].channels
                             /\ in.msg.name = StreamOf(v, subs[in.index], in.channel)
                             /\ Holds(in.msg, DecodersOf(v, in.channel))
      BY <3>1, MessagesAssumption DEF Holds
    <3> DEFINE routed == Route(v, subs, in.msg)
               m == in.msg
    <3>3. ASSUME routed = Nothing PROVE FALSE
      <4>0. Nothing.records = <<>>
        BY DEF Nothing
      <4> HIDE DEF routed
      <4>1. routed.records = <<>>
        BY <3>3, <4>0
      <4>2. Guarded(routed, in.recv).ring = [k \in 1..Len(routed.records) |-> MarkStale(routed.records[k], in.recv)]
        BY DEF Guarded
      <4>3. Len(answer.ring) = 0
        BY <3>1, <4>1, <4>2 DEF routed
      <4> QED BY <2>1, <4>3
    <3>4. in.index # 0
      BY <3>2, <3>3 DEF Route
    <3> DEFINE k == in.index
               ch == in.channel
    <3>5. /\ k \in 1..Len(subs) /\ v \in DOMAIN Family /\ ch \in Supported[Family[v]]
          /\ subs[k].depth \in DepthOk(v) \cup {0}
      <4>1. k \in 1..Len(subs)
        <5> DEFINE n == Len(subs)
        <5>1. n \in Nat /\ k \in 0..n /\ k # 0
          BY <3>2, <3>4 DEF IsList
        <5> HIDE DEF n, k
        <5>2. k \in 1..n
          BY <5>1
        <5> QED BY <5>2 DEF n
      <4>2. ch \in subs[k].channels
        BY <3>2, <3>4
      <4> HIDE DEF k, ch
      <4> QED BY <3>1, <4>1, <4>2 DEF Check
    <3>6. m.name = StreamOf(v, subs[k], ch)
      BY <3>2, <3>4
    <3>7. /\ SplitName(v, m.name) = IF Family[v] = "okx" /\ ch = "delta" THEN "book" ELSE ch
          /\ m.name.symbol = IF Family[v] = "binance" THEN Lower(subs[k].inst.symbol) ELSE subs[k].inst.symbol
      BY <3>5, <3>6, StreamSplits
    <3>8. Lookup(v, subs, m.name.symbol) = k
      <4> DEFINE subsOf == subs
      <4>1. /\ IsList(subsOf) /\ k \in 1..Len(subsOf) /\ Check(v, subsOf)
            /\ \A a, b \in 1..Len(subsOf) : Lower(subsOf[a].inst.symbol) = Lower(subsOf[b].inst.symbol)
                                             => subsOf[a].inst.symbol = subsOf[b].inst.symbol
        BY <3>1, <3>2, <3>5
      <4> HIDE DEF k, subsOf
      <4>2. Lookup(v, subsOf, IF Family[v] = "binance" THEN Lower(subsOf[k].inst.symbol)
                              ELSE subsOf[k].inst.symbol) = k
        BY <4>1, LookupFinds
      <4> QED BY <3>7, <4>2 DEF subsOf
    <3> DEFINE what == IF Family[v] = "okx" /\ ch = "delta" THEN "book" ELSE ch
    <3>9. routed = RouteTo(v, what, subs[k].inst, m)
      BY <3>3, <3>7, <3>8 DEF Route
    <3>10. Holds(m, DecodersOf(v, ch))
      BY <3>2, <3>4
    <3>11. AllBelong(routed, subs[k].inst, {KindOf(v, ch, m)})
      BY <3>5, <3>9, <3>10, RouteBelongs
    <3> HIDE DEF routed, k, ch
    <3>12. /\ answer.ring[i].inst = subs[k].inst /\ answer.ring[i].kind \in {KindOf(v, ch, m)}
           /\ Validate(answer.ring[i])
      BY <2>1, <3>1, <3>11, RingBelongs DEF routed
    <3> QED BY <3>4, <3>12 DEF k, ch
  <2>2. ASSUME call.api = "rest", NEW i \in 1..Len(answer.ring)
        PROVE  /\ answer.ring[i].inst = subs[call.index].inst /\ answer.ring[i].kind = "Quote"
               /\ Validate(answer.ring[i])
    <3> DEFINE k == call.index
               d == CASE v = "GateSpot" -> GateRest [] v = "KucoinSpot" -> KucoinSpotRest
                      [] v = "KucoinFutures" -> KucoinFuturesRest
               r == Decode(d, subs[k].inst, in.fields)
    <3>1. /\ in \in RestBodies /\ k \in RestBooks(v, subs) /\ Check(v, subs)
          /\ answer = Guarded(RouteRest(v, subs, k, in.fields), in.recv)
      BY <2>2 DEF RouteInv
    <3>2. v \in DOMAIN Family /\ Family[v] \in {"gate", "kucoin"}
      BY <3>1 DEF RestBooks, Check
    <3>3. v \in {"GateSpot", "KucoinSpot", "KucoinFutures"}
      BY <3>2, FamilyOf
    <3>4. d.kind = "Quote" /\ Knows(d) /\ IsBody(d, in.fields)
      <4>1. GateRest.kind = "Quote" /\ KucoinSpotRest.kind = "Quote" /\ KucoinFuturesRest.kind = "Quote"
        BY DEF GateRest, KucoinSpotRest, KucoinFuturesRest, Decoder
      <4>2. d \in {GateRest, KucoinSpotRest, KucoinFuturesRest}
        BY <3>3
      <4> HIDE DEF d
      <4> QED BY <3>1, <4>1, <4>2, TablesKnow, RestAssumption
    <3>5. RouteRest(v, subs, k, in.fields) = Published(r)
      BY DEF RouteRest
    <3>6. Accepted(r) => Belongs(r, subs[k].inst, {"Quote"})
      <4> HIDE DEF d
      <4> QED BY <3>4, BlankWithin, DecodedBelongs DEF Decode
    <3> HIDE DEF r, d
    <3>7. AllBelong(Published(r), subs[k].inst, {"Quote"})
      BY <3>6, PublishedBelongs
    <3>8. answer.ring[i].inst = subs[k].inst /\ answer.ring[i].kind \in {"Quote"} /\ Validate(answer.ring[i])
      BY <2>2, <3>1, <3>5, <3>7, RingBelongs
    <3> QED BY <3>8
  <2> QED BY <2>1, <2>2 DEF StreamsComeBack
<1> QED BY <1>1, RouteAnswers, PTL
=============================================================================

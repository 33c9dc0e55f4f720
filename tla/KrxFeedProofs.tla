---------------------------- MODULE KrxFeedProofs ----------------------------
(***************************************************************************)
(* What is proved about the KRX feed, for any number of sockets, any burst *)
(* and any clock that is stepped: its type invariant, the promptness of a  *)
(* stop, the cadence of the liveness record, the fairness among sockets,   *)
(* and what STALE means.                                                   *)
(***************************************************************************)
EXTENDS KrxFeed, WellFoundedInduction, TLAPS

(* The system clock never shows, and the exchange never stamps, an instant *)
(* before 1970, where now_ns and absolute_ns stop at 0.                    *)
ClockAfterEpoch  == \A k \in Steps : 0 <= Epoch + k
StampsAfterEpoch == \A v \in Variants : v.delay <= Epoch

-----------------------------------------------------------------------------
(***************************************************************************)
(* The inductive invariant.                                                *)
(***************************************************************************)
\* What the system clock showed at a reading, before and after clamping at 0.
Raw(r)   == r.at + r.forth - r.back
Shown(r) == IF Raw(r) < 0 THEN 0 ELSE Raw(r)

\* The skew is the one step made, if any.
SkewInv ==
  /\ back = Saturating(0, skew) /\ forth = Saturating(skew, 0)
  /\ ClockAfterEpoch => 0 <= Epoch + skew

\* The round's reading is of this round or is the last liveness record's; the
\* schedule was made at that record.
ReadInv ==
  /\ lastBeat.back <= reading.back /\ reading.back <= back
  /\ lastBeat.forth <= reading.forth /\ reading.forth <= forth
  /\ latest # None => latest = Shown(reading)
  /\ (nextBeat = 0 /\ stats["heartbeats"] = 0) \/ nextBeat = Shown(lastBeat) + Heartbeat
  /\ ClockAfterEpoch => 0 <= Raw(reading) /\ 0 <= Raw(lastBeat)

\* Where a round takes its time.
PaceInv ==
  /\ pc = "round" => waited = 0
  /\ pc \in {"round", "wait"} => latest = None /\ ~worked
  /\ mode = "Spin" => waited = 0 /\ pc # "wait"
  /\ waited <= PollTimeout
  /\ latest # None => time - reading.at <= One(worked)

\* Since the flag was set no more time has passed than this round has taken.
StopInv ==
  stop /\ pc \notin ended =>
    time - stopAt <= (IF pc = "round" THEN MaxWait + 1 ELSE waited + One(worked))

\* The liveness record was not overdue when the round began.
LagInv ==
  ClockAfterEpoch /\ Heartbeat # 0 /\ pc \notin ended =>
    time - lastBeat.at <= Heartbeat + (back - lastBeat.back) + waited + One(worked)

\* The datagrams of n bursts; how many other sockets may have had a burst since
\* socket s was last asked, when a round begins; and how many datagrams may have
\* been read since, at a moment of the round: before its turn, and after it (or
\* when the round does not visit it at all).
Bursts(n) == n * Burst
Owed(s)   == IF mode = "Spin" THEN N - s ELSE N - 1
Ahead(s)  == Bursts(Owed(s) + Current - 1) + (IF s = Current THEN 0 ELSE Burst - left)
Behind(s) == Bursts(IF mode = "Spin" THEN Current - s
                    ELSE IF s < Current THEN Current - 1 ELSE Current) - left

TurnInv ==
  /\ \A s \in Sockets : queue[s] = <<>> => passed[s] = 0
  /\ pc \notin {"drain", "dead"} => \A s \in Sockets : passed[s] <= Bursts(Owed(s))
  /\ pc = "dead" => NoSocketStarves
  /\ pc = "drain" =>
       /\ left < Burst => passed[Current] = 0
       /\ \A s \in ready : passed[s] <= Ahead(s)
       /\ \A s \in Sockets \ ready : passed[s] <= Behind(s) /\ (mode = "Spin" => s < Current)

\* No datagram on its way is stamped before 1970.
StampInv ==
  StampsAfterEpoch => \A s \in Sockets : \A i \in 1 .. Len(queue[s]) : 0 <= queue[s][i].at

\* The pipeline's counters add up: every datagram is counted under one outcome,
\* the segment's drop counter has gained the drops', the ring holds what was published.
TallyInv ==
  /\ stats["received"] = stats["published"] + DroppedOf(stats) + FilteredOf(stats)
  /\ drops = carried + DroppedOf(stats)
  /\ ringSeq = stats["published"] + stats["heartbeats"]

\* The sockets' counts add up to the pipeline's, and to what the venue sent.
Totals ==
  /\ Total([s \in Sockets |-> channels[s].received]) = stats["received"]
  /\ Total([s \in Sockets |-> channels[s].published]) = stats["published"]
  /\ Total([s \in Sockets |-> channels[s].errors]) = stats["socket_errors"]
  /\ arrived = stats["received"] + lost + Total([s \in Sockets |-> Len(queue[s])])

-----------------------------------------------------------------------------
(* A non-empty set of sockets, or of checks, has a least member.           *)
LEMMA LeastOf ==
  ASSUME NEW S, S \subseteq Nat, S # {}
  PROVE  Min(S) \in S /\ \A y \in S : Min(S) <= y
<1> DEFINE Below == OpToRel(<, Nat)
<1>1. IsWellFoundedOn(Below, Nat)
  BY NatLessThanWellFounded
<1>2. ASSUME NEW x \in Nat, NEW y \in Nat, <<y, x>> \notin Below PROVE x <= y
  BY <1>2 DEF OpToRel
<1> HIDE DEF Below
<1>3. PICK x \in S : \A y \in S : ~(<<y, x>> \in Below)
  BY <1>1, WFMin
<1>4. \A y \in S : x <= y
  BY <1>2, <1>3
<1> QED
  BY <1>4 DEF Min

(* What is shown of a number from what is shown of the one before holds of *)
(* all of them: else there is a first one of which it does not.            *)
LEMMA FromOneToNext ==
  ASSUME NEW n \in Nat, NEW S, 0 \in S, \A m \in 1..n : m - 1 \in S => m \in S
  PROVE  0..n \subseteq S
<1> DEFINE B == (0..n) \ S
<1>1. CASE B = {}
  BY <1>1
<1>2. CASE B # {}
  <2>1. B \subseteq Nat
    OBVIOUS
  <2> HIDE DEF B
  <2>2. PICK m \in B : \A y \in B : m <= y
    BY <1>2, <2>1, LeastOf
  <2>3. m \in 0..n /\ m \notin S
    BY <2>2 DEF B
  <2>4. m \in 1..n /\ m - 1 \in 0..n
    BY <2>3
  <2>5. m - 1 \in S
    <3>1. m - 1 \notin B
      BY <2>2, <2>4
    <3> QED
      BY <2>4, <3>1 DEF B
  <2> QED
    BY <2>3, <2>4, <2>5
<1> QED
  BY <1>1, <1>2

(* What is assumed of the constants.                                       *)
LEMMA Constants ==
  /\ N \in Nat /\ N > 0 /\ Burst \in Nat /\ Burst > 0 /\ QueueCap \in Nat /\ QueueCap > 0
  /\ Heartbeat \in Nat /\ StaleAge \in Nat /\ MaxWait \in Nat
  /\ Day \in Nat /\ Day > 0 /\ KstOffset \in Nat /\ Epoch \in Nat
  /\ MaxTime \in Nat /\ MaxArrivals \in Nat /\ MaxOdd \in Nat /\ Steps \subseteq Int
BY KrxConfigAssumption, KrxClockAssumption, KrxBoundAssumption

(* The sum over the first sockets, and over all of them.                   *)
LEMMA Sums ==
  ASSUME NEW x \in [Sockets -> Int]
  PROVE  \E f \in [0..N -> Int] :
           f[0] = 0 /\ Total(x) = f[N] /\ \A s \in Sockets : f[s] = f[s - 1] + x[s]
<1> DEFINE Adds(f, n) == f[0] = 0 /\ \A s \in 1..n : f[s] = f[s - 1] + x[s]
           S == {n \in 0..N : \E f \in [0..n -> Int] : Adds(f, n)}
<1>1. N \in Nat
  BY Constants
<1>2. 0 \in S
  <2>1. [s \in 0..0 |-> 0] \in [0..0 -> Int] /\ Adds([s \in 0..0 |-> 0], 0)
    OBVIOUS
  <2> HIDE DEF Adds
  <2>2. \E f \in [0..0 -> Int] : Adds(f, 0)
    BY <2>1
  <2> QED
    BY <1>1, <2>2
<1>3. ASSUME NEW m \in 1..N, m - 1 \in S PROVE m \in S
  <2>1. PICK f \in [0..m-1 -> Int] : Adds(f, m - 1)
    BY <1>3
  <2> DEFINE g == [s \in 0..m |-> IF s = m THEN f[m - 1] + x[m] ELSE f[s]]
  <2>2. m \in Nat /\ m - 1 \in 0..m-1 /\ x[m] \in Int /\ f[m - 1] \in Int
    BY <1>1 DEF Sockets
  <2>3. g \in [0..m -> Int]
    BY <2>2
  <2>4. g[0] = 0
    BY <2>1, <2>2
  <2>5. ASSUME NEW s \in 1..m PROVE g[s] = g[s - 1] + x[s]
    <3>1. CASE s = m
      BY <2>2, <3>1
    <3>2. CASE s # m
      <4>1. s \in 1..m-1 /\ s - 1 \in 0..m-1 /\ s - 1 # m
        BY <2>2, <3>2
      <4> QED
        BY <2>1, <2>2, <4>1
    <3> QED
      BY <3>1, <3>2
  <2> HIDE DEF g
  <2> QED
    BY <2>3, <2>4, <2>5
<1>4. N \in S
  <2> HIDE DEF S
  <2>1. 0..N \subseteq S
    BY <1>1, <1>2, <1>3, FromOneToNext
  <2> QED
    BY <1>1, <2>1
<1>5. PICK f \in [0..N -> Int] : Adds(f, N)
  BY <1>4
<1> DEFINE Is(g) == g = [s \in 0..N |-> IF s = 0 THEN 0 ELSE g[s - 1] + x[s]]
           h == CHOOSE g : Is(g)
<1>6. Is(f)
  BY <1>1, <1>5
<1>7. Is(h)
  <2> HIDE DEF Is
  <2> QED
    BY <1>6
<1>8. Total(x) = h[N]
  BY DEF Total
<1> HIDE DEF h
<1>9. \A s \in 0..N : h[s] = f[s]
  <2> DEFINE E == {s \in 0..N : h[s] = f[s]}
  <2>1. 0 \in E
    BY <1>1, <1>5, <1>7
  <2>2. ASSUME NEW m \in 1..N, m - 1 \in E PROVE m \in E
    BY <1>1, <1>5, <1>7, <2>2
  <2> HIDE DEF E
  <2>3. 0..N \subseteq E
    BY <1>1, <2>1, <2>2, FromOneToNext
  <2> QED
    BY <2>3 DEF E
<1>10. f[0] = 0 /\ Total(x) = f[N] /\ \A s \in Sockets : f[s] = f[s - 1] + x[s]
  <2>1. Total(x) = f[N]
    BY <1>1, <1>8, <1>9
  <2> QED
    BY <1>5, <2>1 DEF Sockets
<1> QED
  BY <1>10

(* The total is a number, moves with each of its parts, and is none when   *)
(* they are.                                                               *)
LEMMA TotalMoves ==
  ASSUME NEW x \in [Sockets -> Int], NEW y \in [Sockets -> Int],
         NEW t \in Sockets, NEW k \in Int, y[t] = x[t] + k,
         \A s \in Sockets : s # t => y[s] = x[s]
  PROVE  Total(x) \in Int /\ Total(y) = Total(x) + k
<1>1. N \in Nat /\ t \in 1..N
  BY Constants DEF Sockets
<1>2. PICK f \in [0..N -> Int] :
        f[0] = 0 /\ Total(x) = f[N] /\ \A s \in Sockets : f[s] = f[s - 1] + x[s]
  BY Sums
<1>3. PICK g \in [0..N -> Int] :
        g[0] = 0 /\ Total(y) = g[N] /\ \A s \in Sockets : g[s] = g[s - 1] + y[s]
  BY Sums
<1> DEFINE E == {s \in 0..N : g[s] = f[s] + (IF s < t THEN 0 ELSE k)}
<1>4. 0 \in E
  BY <1>1, <1>2, <1>3
<1>5. ASSUME NEW m \in 1..N, m - 1 \in E PROVE m \in E
  <2>1. /\ f[m] = f[m - 1] + x[m] /\ g[m] = g[m - 1] + y[m]
        /\ x[m] \in Int /\ y[m] \in Int /\ f[m - 1] \in Int /\ g[m - 1] \in Int
        /\ m \in 0..N /\ m \in Int
    <3>1. m \in Sockets /\ m - 1 \in 0..N /\ m \in 0..N /\ m \in Int
      BY <1>1 DEF Sockets
    <3> QED
      BY <1>2, <1>3, <3>1
  <2>2. g[m - 1] = f[m - 1] + (IF m - 1 < t THEN 0 ELSE k)
    BY <1>5
  <2>3. y[m] = x[m] + (IF m = t THEN k ELSE 0)
    BY <2>1 DEF Sockets
  <2>4. g[m] = f[m] + (IF m < t THEN 0 ELSE k)
    <3> HIDE DEF E
    <3>1. CASE m < t
      <4>1. m - 1 < t /\ m # t  BY <1>1, <2>1, <3>1
      <4> QED  BY <2>1, <2>2, <2>3, <3>1, <4>1
    <3>2. CASE m = t
      <4>1. m - 1 < t /\ ~(m < t)  BY <1>1, <2>1, <3>2
      <4> QED  BY <2>1, <2>2, <2>3, <3>2, <4>1
    <3>3. CASE m > t
      <4>1. ~(m - 1 < t) /\ ~(m < t) /\ m # t  BY <1>1, <2>1, <3>3
      <4> QED  BY <2>1, <2>2, <2>3, <4>1
    <3> QED
      BY <1>1, <2>1, <3>1, <3>2, <3>3
  <2> QED
    BY <2>1, <2>4
<1> HIDE DEF E
<1>6. 0..N \subseteq E
  BY <1>1, <1>4, <1>5, FromOneToNext
<1>7. g[N] = f[N] + k /\ f[N] \in Int
  BY <1>1, <1>6 DEF E
<1> QED
  BY <1>2, <1>3, <1>7

(* No counts add up to none.                                               *)
LEMMA TotalOfNone == Total([s \in Sockets |-> 0]) = 0
<1>1. N \in Nat
  BY Constants
<1>2. PICK f \in [0..N -> Int] : /\ f[0] = 0 /\ Total([s \in Sockets |-> 0]) = f[N]
                                 /\ \A s \in Sockets : f[s] = f[s - 1] + 0
  <2>1. [s \in Sockets |-> 0] \in [Sockets -> Int]
    OBVIOUS
  <2>2. PICK f \in [0..N -> Int] :
          /\ f[0] = 0 /\ Total([s \in Sockets |-> 0]) = f[N]
          /\ \A s \in Sockets : f[s] = f[s - 1] + [r \in Sockets |-> 0][s]
    BY <2>1, Sums
  <2> QED
    BY <2>2
<1> DEFINE E == {s \in 0..N : f[s] = 0}
<1>3. 0 \in E
  BY <1>1, <1>2
<1>4. ASSUME NEW m \in 1..N, m - 1 \in E PROVE m \in E
  BY <1>1, <1>2, <1>4 DEF Sockets
<1> HIDE DEF E
<1>5. 0..N \subseteq E
  BY <1>1, <1>3, <1>4, FromOneToNext
<1> QED
  BY <1>1, <1>2, <1>5 DEF E

(* The readiness wait is never longer than its upper bound, whatever the   *)
(* liveness interval (Config::poll_timeout_ms).                            *)
LEMMA WaitBounded == PollTimeout \in Nat /\ PollTimeout <= MaxWait
BY KrxConfigAssumption DEF PollTimeout

(* Bursts add up.                                                          *)
LEMMA BurstsAdd ==
  ASSUME NEW x \in Int, NEW y \in Int
  PROVE  /\ Bursts(x) \in Int /\ Bursts(x + 1) = Bursts(x) + Burst
         /\ Bursts(x + y) = Bursts(x) + Bursts(y)
         /\ x <= y => Bursts(x) <= Bursts(y)
         /\ 0 <= x => 0 <= Bursts(x)
<1>1. /\ x * Burst \in Int /\ (x + 1) * Burst = x * Burst + Burst
      /\ (x + y) * Burst = x * Burst + y * Burst
      /\ x <= y => x * Burst <= y * Burst
      /\ 0 <= x => 0 <= x * Burst
  BY Constants, Z3
<1> QED
  BY <1>1 DEF Bursts

(* A multiple of a day that is less than a day, on either side.            *)
LEMMA WholeDays ==
  ASSUME NEW m \in Int, NEW r \in 0 .. Day - 1
  PROVE  /\ m * Day \in Int
         /\ 0 <= m * Day + r /\ m * Day + r < Day => m = 0
         /\ -Day <= m * Day + r /\ m * Day + r < 0 => m = -1
<1> USE Constants
<1>1. m * Day \in Int
  OBVIOUS
<1>2. m >= 1 => m * Day >= Day
  BY Z3
<1>3. m <= -1 => m * Day <= -Day
  BY Z3
<1>4. m <= -2 => m * Day <= -2 * Day
  BY Z3
<1>5. m = 0 => m * Day = 0
  OBVIOUS
<1> QED
  BY <1>1, <1>2, <1>3, <1>4, <1>5

(* The day chosen for the exchange's dateless time of day is the right one *)
(* whenever the two clocks are less than half a day apart, on whichever    *)
(* side of midnight (clock::absolute_ns).                                  *)
LEMMA NearestDay ==
  ASSUME NEW a \in Nat, NEW recv \in Nat, 2 * (recv - a) < Day, -2 * (recv - a) < Day
  PROVE  AbsoluteNs((a + KstOffset) % Day, recv) = a
<1> USE Constants
<1> DEFINE tod    == (a + KstOffset) % Day
           q      == (a + KstOffset) \div Day
           base   == tod - KstOffset
           p      == (recv - base) \div Day
           r      == (recv - base) % Day
           before == base + p * Day
<1>1. q \in Int /\ tod \in Int /\ a + KstOffset = q * Day + tod
  BY Z3
<1> HIDE DEF q, tod
<1>2. p \in Int /\ r \in 0 .. Day - 1 /\ recv - base = p * Day + r
  BY <1>1, Z3
<1> HIDE DEF p, r
<1>3. (p - q) * Day = p * Day - q * Day /\ p * Day \in Int /\ q * Day \in Int
  BY <1>1, <1>2, Z3
<1>4. (p - q) * Day + r = recv - a /\ before = a + (p - q) * Day
  BY <1>1, <1>2, <1>3
<1>5. p - q \in Int
  BY <1>1, <1>2
<1>6. before = a \/ (before = a - Day /\ recv < a)
  <2>1. CASE a <= recv
    <3>1. 0 <= recv - a /\ recv - a < Day
      BY <2>1
    <3>2. p - q = 0
      BY <1>2, <1>4, <1>5, <3>1, WholeDays
    <3> QED
      BY <1>3, <1>4, <3>2
  <2>2. CASE recv < a
    <3>1. p - q = -1
      BY <1>2, <1>4, <1>5, <2>2, WholeDays
    <3> QED
      BY <1>3, <1>4, <2>2, <3>1
  <2> QED
    BY <2>1, <2>2
<1>7. AbsoluteNs(tod, recv) =
        LET chosen == IF recv - before <= (before + Day) - recv THEN before ELSE before + Day
        IN  IF chosen < 0 THEN 0 ELSE chosen
  BY DEF AbsoluteNs, p
<1>8. before = a => recv - before <= (before + Day) - recv
  OBVIOUS
<1>9. AbsoluteNs(tod, recv) = a
  BY <1>6, <1>7, <1>8
<1> QED
  BY <1>9 DEF tod

(* The instant put on a record is never negative.                          *)
LEMMA AbsoluteType ==
  ASSUME NEW tod \in Int, NEW recv \in Nat
  PROVE  AbsoluteNs(tod, recv) \in Nat
<1> USE Constants
<1> DEFINE p == (recv - (tod - KstOffset)) \div Day
<1>1. p \in Int
  BY Z3
<1> HIDE DEF p
<1>2. p * Day \in Int
  BY <1>1
<1>3. AbsoluteNs(tod, recv) =
        LET before == tod - KstOffset + p * Day
            chosen == IF recv - before <= (before + Day) - recv THEN before ELSE before + Day
        IN  IF chosen < 0 THEN 0 ELSE chosen
  BY DEF AbsoluteNs, p
<1> QED
  BY <1>2, <1>3

-----------------------------------------------------------------------------
(***************************************************************************)
(* Pipeline::ingest.                                                       *)
(***************************************************************************)
(* Every datagram has exactly one of the outcomes that are counted.        *)
LEMMA OutcomeKind ==
  ASSUME NEW d
  PROVE  Outcome(d) \in Outcomes
<1> DEFINE failed == {i \in DOMAIN Checks : Fails(d, Checks[i])}
<1>1. CASE failed = {}
  BY <1>1 DEF Outcome, Outcomes
<1>2. CASE failed # {}
  <2>1. DOMAIN Checks = 1..6
    BY DEF Checks
  <2>2. Min(failed) \in 1..6
    BY <1>2, <2>1, LeastOf
  <2>3. \A i \in 1..6 : Checks[i][2] \in Outcomes
    BY DEF Checks, Outcomes, Dropped, Filtered
  <2> QED
    BY <1>2, <2>2, <2>3 DEF Outcome
<1> QED
  BY <1>1, <1>2

(* Counting one thing leaves the other counters alone.                     *)
LEMMA Counted ==
  ASSUME NEW f \in [Counters -> Nat], NEW c \in Counters
  PROVE  /\ Bump(f, c) \in [Counters -> Nat]
         /\ Bump(f, c)[c] = f[c] + 1
         /\ \A x \in Counters : x # c => Bump(f, c)[x] = f[x]
BY DEF Bump

(* One datagram through the pipeline: it is counted once as received and   *)
(* once under its outcome, and only a drop moves the segment's counter.    *)
LEMMA Ingested ==
  ASSUME stats \in [Counters -> Nat], drops \in Nat, ringSeq \in Nat, carried \in Nat,
         UNCHANGED carried, NEW d, NEW recv, Ingest(d, recv)
  PROVE  /\ stats' \in [Counters -> Nat] /\ drops' \in Nat /\ ringSeq' \in Nat
         /\ stats'["heartbeats"] = stats["heartbeats"]
         /\ stats'["published"] >= stats["published"]
         /\ stats'["received"] = stats["received"] + 1
         /\ stats'["socket_errors"] = stats["socket_errors"]
         /\ TallyInv => TallyInv'
<1> DEFINE o       == Outcome(d)
           counted == Bump(Bump(stats, "received"), o)
<1>1. o \in Outcomes
  BY OutcomeKind
<1>2. /\ stats' = counted \/ stats' = Bump(counted, "stale")
      /\ drops' = IF o \in Dropped THEN drops + 1 ELSE drops
      /\ ringSeq' = IF o = "published" THEN ringSeq + 1 ELSE ringSeq
  BY DEF Ingest
<1> HIDE DEF o
<1>3. /\ "received" \in Counters /\ "stale" \in Counters /\ o \in Counters
      /\ o # "received" /\ o # "stale" /\ o # "heartbeats" /\ o # "socket_errors"
  BY <1>1 DEF Counters, Outcomes, Dropped, Filtered
<1>4. /\ counted \in [Counters -> Nat]
      /\ \A x \in Counters :
           counted[x] = stats[x] + (IF x = "received" \/ x = o THEN 1 ELSE 0)
  BY <1>3, Counted
<1> HIDE DEF counted
<1>5. /\ stats' \in [Counters -> Nat]
      /\ \A x \in Counters \ {"stale"} :
           stats'[x] = stats[x] + (IF x = "received" \/ x = o THEN 1 ELSE 0)
  BY <1>2, <1>3, <1>4, Counted
<1>6. drops' \in Nat /\ ringSeq' \in Nat
  BY <1>2
<1>7. /\ {"heartbeats", "received"} \cup Outcomes \subseteq Counters \ {"stale"}
      /\ \A x \in {"heartbeats", "received"} \cup Outcomes : stats[x] \in Nat
  BY DEF Counters, Outcomes, Dropped, Filtered
<1>8. \A x \in {"heartbeats", "received"} \cup Outcomes :
        stats'[x] = stats[x] + (IF x = "received" \/ x = o THEN 1 ELSE 0)
  BY <1>5, <1>7
<1>9. TallyInv => TallyInv'
  BY <1>1, <1>2, <1>7, <1>8 DEF TallyInv, DroppedOf, FilteredOf, Outcomes, Dropped, Filtered
<1>10. stats'["heartbeats"] = stats["heartbeats"] /\ stats'["published"] >= stats["published"]
  BY <1>3, <1>7, <1>8 DEF Outcomes
<1>11. stats'["received"] = stats["received"] + 1 /\ stats'["socket_errors"] = stats["socket_errors"]
  <2>1. "socket_errors" \in Counters \ {"stale"} /\ "received" \in Counters \ {"stale"}
    BY DEF Counters
  <2>2. stats["socket_errors"] \in Nat /\ stats["received"] \in Nat
    BY <2>1
  <2> QED
    BY <1>3, <1>5, <2>1, <2>2
<1> QED
  BY <1>5, <1>6, <1>9, <1>10, <1>11

-----------------------------------------------------------------------------
(***************************************************************************)
(* The parts of the type invariant.                                        *)
(***************************************************************************)
ControlOK ==
  /\ mode \in Modes /\ pc \in {"round", "wait", "drain", "beat"} \cup ended
  /\ ready \subseteq Sockets /\ left \in 0..Burst /\ (pc = "drain" => ready # {})

FlagsOK ==
  /\ stop \in BOOLEAN /\ worked \in BOOLEAN
  /\ fault \in [Sockets -> {"none", "transient", "fatal"}]

CountsOK ==
  /\ latest \in Nat \cup {None} /\ nextBeat \in Nat
  /\ channels \in [Sockets -> [received : Nat, published : Nat, errors : Nat]]
  /\ stats \in [Counters -> Nat] /\ drops \in Nat /\ carried \in Nat /\ ringSeq \in Nat

QueuesOK ==
  /\ queue \in [Sockets -> Seq(Datagram)] /\ (\A s \in Sockets : Len(queue[s]) <= QueueCap)
  /\ arrived \in 0..MaxArrivals /\ lost \in Nat /\ odd \in 0..MaxOdd
  /\ passed \in [Sockets -> Nat]

ClockOK ==
  /\ time \in Epoch .. Epoch + MaxTime /\ skew \in Int /\ back \in Nat /\ forth \in Nat
  /\ waited \in 0..MaxWait /\ reading \in Readings /\ lastBeat \in Readings /\ stopAt \in Int

OutOK == out \in [age : Int, error : Int, stale : BOOLEAN, timed : BOOLEAN]

(* The socket being drained is one of the feed's, the first not visited.   *)
LEMMA CurrentSocket ==
  ASSUME ControlOK, pc = "drain"
  PROVE  Current \in ready /\ Current \in Sockets /\ \A s \in ready : Current <= s
<1>1. ready # {} /\ ready \subseteq Nat
  BY Constants DEF ControlOK, Sockets
<1> QED
  BY <1>1, LeastOf DEF Current, ControlOK

(* A round begins with every turn there is.                                *)
LEMMA VisitControl ==
  ASSUME NEW R \in SUBSET Sockets, Visit(R)
  PROVE  /\ ready' = R /\ left' = Burst /\ left' \in 0..Burst
         /\ pc' \in {"beat", "drain"} /\ (pc' = "drain" <=> R # {})
BY Constants DEF Visit

(* The thread's place and its turns.                                       *)
LEMMA ControlStep ==
  ASSUME ControlOK, Next
  PROVE  ControlOK'
<1> USE DEF ControlOK
<1>1. ASSUME NEW R \in SUBSET Sockets, Visit(R), mode' = mode PROVE ControlOK'
  BY <1>1, VisitControl
<1>2. CASE SpinRound
  BY <1>1, <1>2 DEF SpinRound
<1>3. CASE BlockRound
  BY <1>3 DEF BlockRound, receiver
<1>4. CASE PollReturns
  BY <1>1, <1>4 DEF PollReturns, Readable
<1>5. CASE PollFails
  BY <1>5 DEF PollFails, receiver, ended
<1>6. CASE RecvDatagram
  BY <1>6, Constants DEF RecvDatagram, SpendTurn
<1>7. CASE RecvTransient
  BY <1>7, Constants DEF RecvTransient, SpendTurn
<1>8. CASE RecvFatal
  BY <1>8 DEF RecvFatal, receiver, ended
<1>9. CASE NextSocket
  BY <1>1, <1>9 DEF NextSocket
<1>10. CASE Beat
  BY <1>10 DEF Beat, EndRound
<1>11. CASE NoBeat
  BY <1>11 DEF NoBeat, EndRound
<1>12. CASE StopSeen
  BY <1>12 DEF StopSeen, receiver, ended
<1>13. CASE Environment
  <2>1. UNCHANGED <<mode, pc, receiver>>
    BY <1>13 DEF Environment, PassTime, Arrive, SocketError, StepClock, AskToStop
  <2> QED
    BY <2>1 DEF receiver
<1> QED
  BY <1>2, <1>3, <1>4, <1>5, <1>6, <1>7, <1>8, <1>9, <1>10, <1>11, <1>12, <1>13 DEF Next, Feed

(* The stop flag, the round's unit of work and the sockets' errors.        *)
LEMMA FlagsStep ==
  ASSUME ControlOK, FlagsOK, Next
  PROVE  FlagsOK'
<1> USE DEF FlagsOK
<1>1. CASE SpinRound \/ BlockRound \/ PollReturns \/ PollFails
  BY <1>1 DEF SpinRound, BlockRound, PollReturns, PollFails, pacing, network
<1>2. CASE RecvDatagram
  BY <1>2 DEF RecvDatagram, pacing
<1>3. CASE RecvTransient
  BY <1>3 DEF RecvTransient, pacing
<1>4. CASE RecvFatal \/ NextSocket \/ StopSeen
  BY <1>4 DEF RecvFatal, NextSocket, StopSeen, pacing, network
<1>5. CASE Beat \/ NoBeat
  BY <1>5 DEF Beat, NoBeat, EndRound, network
<1>6. CASE Environment
  <2>1. CASE PassTime
    <3>1. UNCHANGED <<stop, fault>> /\ (worked' = worked \/ worked' = TRUE)
      BY <2>1 DEF PassTime, network
    <3> QED
      BY <3>1
  <2>2. ASSUME NEW s \in Sockets, NEW f \in {"transient", "fatal"}, SocketError(s, f) PROVE FlagsOK'
    BY <2>2 DEF SocketError, pacing
  <2>3. CASE AskToStop
    BY <2>3 DEF AskToStop, network, pacing
  <2>4. ASSUME NEW s, NEW v, Arrive(s, v) PROVE FlagsOK'
    BY <2>4 DEF Arrive, pacing
  <2>5. ASSUME NEW k, StepClock(k) PROVE FlagsOK'
    BY <2>5 DEF StepClock, pacing, network
  <2> QED
    BY <1>6, <2>1, <2>2, <2>3, <2>4, <2>5 DEF Environment
<1> QED
  BY <1>1, <1>2, <1>3, <1>4, <1>5, <1>6 DEF Next, Feed

(* The drops the segment was taken over with stay what they were.          *)
LEMMA CarriedOver ==
  ASSUME Next
  PROVE  UNCHANGED carried
<1>1. CASE \/ SpinRound \/ BlockRound \/ PollReturns \/ PollFails
           \/ RecvDatagram \/ RecvTransient \/ RecvFatal \/ NextSocket
  BY <1>1 DEF SpinRound, BlockRound, PollReturns, PollFails, RecvDatagram, RecvTransient, RecvFatal,
     NextSocket, history
<1>2. CASE Beat \/ NoBeat \/ StopSeen
  BY <1>2 DEF Beat, NoBeat, StopSeen, history
<1>3. CASE Environment
  BY <1>3 DEF Environment, PassTime, Arrive, SocketError, StepClock, AskToStop, history
<1> QED
  BY <1>1, <1>2, <1>3 DEF Next, Feed

(* The counters, and the schedule of the liveness record.                  *)
LEMMA CountsStep ==
  ASSUME ControlOK, CountsOK, ClockOK, TallyInv, Next
  PROVE  CountsOK' /\ TallyInv'
<1> USE DEF CountsOK
<1>0. carried' = carried /\ carried \in Nat /\ drops \in Nat
  BY CarriedOver
<1>1. ASSUME UNCHANGED <<nextBeat, channels, stats, drops, ringSeq>>, latest' \in Nat \cup {None}
      PROVE  CountsOK' /\ TallyInv'
  BY <1>0, <1>1 DEF TallyInv, DroppedOf, FilteredOf
<1>2. NowNs \in Nat
  BY Constants DEF ClockOK, NowNs
<1>3. CASE SpinRound \/ BlockRound \/ PollReturns \/ PollFails
  BY <1>1, <1>3 DEF SpinRound, BlockRound, PollReturns, PollFails, receiver, pipeline
<1>4. CASE RecvFatal \/ NextSocket \/ StopSeen
  BY <1>1, <1>4 DEF RecvFatal, NextSocket, StopSeen, receiver, pipeline
<1>5. CASE NoBeat
  BY <1>1, <1>5 DEF NoBeat, EndRound, pipeline
<1>6. CASE Environment
  <2>1. UNCHANGED <<receiver, pipeline>>
    BY <1>6 DEF Environment, PassTime, Arrive, SocketError, StepClock, AskToStop
  <2> QED
    BY <1>1, <2>1 DEF receiver, pipeline
<1>7. CASE RecvDatagram
  <2> DEFINE c == Current
             k == stats'["published"] - stats["published"]
  <2>1. c \in Sockets
    BY <1>7, CurrentSocket DEF RecvDatagram
  <2>2. /\ stats' \in [Counters -> Nat] /\ drops' \in Nat /\ ringSeq' \in Nat
        /\ stats'["published"] >= stats["published"] /\ TallyInv'
    BY <1>0, <1>7, Ingested DEF RecvDatagram
  <2>3. /\ latest' = NowNs /\ UNCHANGED nextBeat
        /\ channels' = [channels EXCEPT ![c].received = @ + 1, ![c].published = @ + k]
    BY <1>7 DEF RecvDatagram
  <2>4. k \in Nat
    <3>1. "published" \in Counters
      BY DEF Counters, Outcomes
    <3> QED
      BY <2>2, <3>1
  <2> HIDE DEF c, k
  <2>5. channels' \in [Sockets -> [received : Nat, published : Nat, errors : Nat]]
    <3> DEFINE Row == [received : Nat, published : Nat, errors : Nat]
               row == [channels[c] EXCEPT !.received = @ + 1, !.published = @ + k]
    <3>1. channels[c] \in Row
      BY <2>1
    <3>2. row \in Row
      <4>1. channels[c].received + 1 \in Nat /\ channels[c].published + k \in Nat
        BY <2>4, <3>1
      <4> QED
        BY <3>1, <4>1
    <3>3. channels' = [channels EXCEPT ![c] = row]
      BY <2>1, <2>3, <3>1
    <3> HIDE DEF row, Row
    <3>4. channels \in [Sockets -> Row]
      BY DEF Row
    <3>5. channels' \in [Sockets -> Row]
      BY <2>1, <3>2, <3>3, <3>4
    <3> QED
      BY <3>5 DEF Row
  <2> QED
    BY <1>0, <1>2, <2>2, <2>3, <2>5
<1>8. CASE RecvTransient
  <2> DEFINE c == Current
  <2>1. c \in Sockets
    BY <1>8, CurrentSocket DEF RecvTransient
  <2>2. /\ UNCHANGED <<latest, nextBeat, drops, ringSeq>>
        /\ channels' = [channels EXCEPT ![c].errors = @ + 1]
        /\ stats' = Bump(stats, "socket_errors")
    BY <1>8 DEF RecvTransient
  <2> HIDE DEF c
  <2>3. channels' \in [Sockets -> [received : Nat, published : Nat, errors : Nat]]
    BY <2>1, <2>2
  <2>4. /\ stats' \in [Counters -> Nat]
        /\ \A x \in Counters : x # "socket_errors" => stats'[x] = stats[x]
    BY <2>2, Counted DEF Counters
  <2>5. TallyInv'
    BY <1>0, <2>2, <2>4 DEF TallyInv, DroppedOf, FilteredOf, Counters, Outcomes, Dropped, Filtered
  <2> QED
    BY <1>0, <2>2, <2>3, <2>4, <2>5
<1>9. CASE Beat
  <2>1. /\ nextBeat' = Now + Heartbeat /\ stats' = Bump(stats, "heartbeats")
        /\ ringSeq' = ringSeq + 1 /\ latest' = None /\ UNCHANGED <<channels, drops>>
    BY <1>9 DEF Beat, Schedule, EndRound
  <2>2. nextBeat' \in Nat
    BY <1>2, <2>1, Constants DEF Now
  <2>3. /\ stats' \in [Counters -> Nat] /\ stats'["heartbeats"] = stats["heartbeats"] + 1
        /\ \A x \in Counters : x # "heartbeats" => stats'[x] = stats[x]
    BY <2>1, Counted DEF Counters
  <2>4. TallyInv'
    BY <1>0, <2>1, <2>3 DEF TallyInv, DroppedOf, FilteredOf, Counters, Outcomes, Dropped, Filtered
  <2> QED
    BY <1>0, <2>1, <2>2, <2>3, <2>4
<1> QED
  BY <1>3, <1>4, <1>5, <1>6, <1>7, <1>8, <1>9 DEF Next, Feed

(* What leaves the buffers and the counts of the network alone.            *)
LEMMA QuietNetwork ==
  ASSUME SpinRound \/ BlockRound \/ PollReturns \/ PollFails \/ RecvFatal \/ NextSocket \/ StopSeen
           \/ Beat \/ NoBeat
  PROVE  UNCHANGED <<queue, arrived, lost, odd, passed>>
BY DEF SpinRound, BlockRound, PollReturns, PollFails, RecvFatal, NextSocket, StopSeen, Beat, NoBeat,
   EndRound, network, history

(* A datagram that arrives is one of the datagrams there are.              *)
LEMMA ArrivalType ==
  ASSUME ClockOK, NEW v \in Variants \cup {Ordinary}
  PROVE  [flaws |-> v.flaws, m4 |-> v.m4, at |-> time - v.delay] \in Datagram
<1>1. v.flaws \in SUBSET Flaws /\ v.m4 \in BOOLEAN /\ v.delay \in Nat
  <2>1. CASE v \in Variants
    BY <2>1, KrxClockAssumption
  <2>2. CASE v = Ordinary
    <3>1. v.flaws = {} /\ v.delay = 0
      BY <2>2 DEF Ordinary
    <3>2. v.m4 \in BOOLEAN
      BY <2>2 DEF Ordinary
    <3> QED
      BY <3>1, <3>2
  <2> QED
    BY <2>1, <2>2
<1>2. time - v.delay \in Int
  BY <1>1, Constants DEF ClockOK
<1> QED
  BY <1>1, <1>2 DEF Datagram

(* A bound on a sum bounds its parts.                                      *)
LEMMA PartWithin ==
  ASSUME NEW x \in Nat, NEW y \in Nat, NEW a \in Nat, NEW b \in Nat, NEW m \in Nat,
         x + 2 * y + a + b <= m
  PROVE  x <= m
OBVIOUS

(* The receive buffers stay within SO_RCVBUF, and no datagram on its way   *)
(* is stamped before 1970.                                                 *)
LEMMA QueuesStep ==
  ASSUME ControlOK, FlagsOK, QueuesOK, ClockOK, StampInv, Next
  PROVE  QueuesOK' /\ StampInv'
<1> USE DEF QueuesOK
<1>1. ASSUME UNCHANGED <<queue, arrived, lost, odd, passed>> PROVE QueuesOK' /\ StampInv'
  BY <1>1 DEF StampInv
<1>2. CASE RecvDatagram
  <2> DEFINE c == Current
  <2>1. c \in Sockets /\ queue[c] # <<>>
    BY <1>2, CurrentSocket DEF RecvDatagram
  <2>2. /\ queue' = [queue EXCEPT ![c] = Tail(@)] /\ UNCHANGED <<arrived, lost, odd>>
        /\ passed' = [s \in Sockets |-> IF s = c \/ queue[s] = <<>> THEN 0 ELSE passed[s] + 1]
    BY <1>2 DEF RecvDatagram
  <2> HIDE DEF c
  <2>3. /\ queue[c] \in Seq(Datagram) /\ Tail(queue[c]) \in Seq(Datagram)
        /\ Len(queue[c]) \in Nat /\ Len(Tail(queue[c])) = Len(queue[c]) - 1
        /\ \A i \in 1 .. Len(queue[c]) - 1 : Tail(queue[c])[i] = queue[c][i + 1]
    BY <2>1
  <2>4. passed' \in [Sockets -> Nat]
    BY <2>2
  <2>5. /\ queue' \in [Sockets -> Seq(Datagram)] /\ queue'[c] = Tail(queue[c])
        /\ \A s \in Sockets \ {c} : queue'[s] = queue[s]
    BY <2>1, <2>2, <2>3
  <2>6. ASSUME NEW s \in Sockets PROVE Len(queue'[s]) <= QueueCap
    <3>1. Len(queue[s]) <= QueueCap
      OBVIOUS
    <3>2. CASE s = c
      BY <2>3, <2>5, <3>1, <3>2, Constants
    <3>3. CASE s # c
      BY <2>5, <3>1, <3>3
    <3> QED
      BY <3>2, <3>3
  <2>7. StampInv'
    <3> SUFFICES ASSUME StampsAfterEpoch, NEW s \in Sockets, NEW i \in 1 .. Len(queue'[s])
                 PROVE  0 <= queue'[s][i].at
      BY DEF StampInv
    <3>1. CASE s = c
      <4>1. queue'[s] = Tail(queue[c])
        BY <2>5, <3>1
      <4>2. i \in 1 .. Len(queue[c]) - 1
        BY <2>3, <4>1
      <4>3. i + 1 \in 1 .. Len(queue[c]) /\ queue'[s][i] = queue[c][i + 1]
        BY <2>3, <4>1, <4>2
      <4> QED
        BY <2>1, <4>3 DEF StampInv
    <3>2. CASE s # c
      BY <2>5, <3>2 DEF StampInv
    <3> QED
      BY <3>1, <3>2
  <2> QED
    BY <2>2, <2>4, <2>5, <2>6, <2>7
<1>3. CASE RecvTransient
  <2>1. Current \in Sockets
    BY <1>3, CurrentSocket DEF RecvTransient
  <2>2. passed' = [passed EXCEPT ![Current] = 0] /\ UNCHANGED <<queue, arrived, lost, odd>>
    BY <1>3 DEF RecvTransient
  <2>3. passed' \in [Sockets -> Nat]
    BY <2>1, <2>2
  <2> QED
    BY <2>2, <2>3 DEF StampInv
<1>4. CASE Environment
  <2>1. CASE PassTime \/ AskToStop \/ \E k \in Steps : StepClock(k)
    <3>1. UNCHANGED <<network, passed>>
      BY <2>1 DEF PassTime, AskToStop, StepClock, history
    <3> QED
      BY <1>1, <3>1 DEF network
  <2>2. ASSUME NEW s \in Sockets, NEW f, SocketError(s, f) PROVE QueuesOK' /\ StampInv'
    <3>1. UNCHANGED <<queue, arrived, lost, passed>> /\ odd' = odd + 1 /\ odd' <= MaxOdd
      BY <2>2 DEF SocketError, history, WithinBounds
    <3> QED
      BY <3>1, Constants, SMTT(30) DEF StampInv
  <2>3. ASSUME NEW s \in Sockets, NEW v \in Variants \cup {Ordinary}, Arrive(s, v)
        PROVE  QueuesOK' /\ StampInv'
    <3> DEFINE d == [flaws |-> v.flaws, m4 |-> v.m4, at |-> time - v.delay]
    <3>1. d \in Datagram
      BY ArrivalType
    <3>2. /\ arrived' = arrived + 1 /\ odd' \in {odd, odd + 1} /\ odd' <= MaxOdd /\ UNCHANGED passed
          /\ arrived' + 2 * odd' + One(skew' # 0) + One(stop') <= MaxArrivals
          /\ \/ /\ Len(queue[s]) < QueueCap /\ UNCHANGED lost
                /\ queue' = [queue EXCEPT ![s] = Append(@, d)]
             \/ lost' = lost + 1 /\ UNCHANGED queue
      BY <2>3 DEF Arrive, history, WithinBounds
    <3>3. odd' \in 0..MaxOdd /\ arrived' \in 0..MaxArrivals /\ lost' \in Nat
      <4>1. One(skew' # 0) \in Nat /\ One(stop') \in Nat
        BY DEF One
      <4>2. odd' \in 0..MaxOdd /\ odd' \in Nat /\ arrived' \in Nat
        BY <3>2, Constants
      <4>3. lost' \in Nat
        BY <3>2
      <4>4. arrived' <= MaxArrivals
        <5>1. arrived' + 2 * odd' + One(skew' # 0) + One(stop') <= MaxArrivals
          BY <3>2
        <5> QED
          BY <4>1, <4>2, <5>1, Constants, PartWithin
      <4> QED
        BY <4>2, <4>3, <4>4
    <3>4. StampsAfterEpoch => 0 <= d.at
      <4>1. StampsAfterEpoch => v.delay \in Nat /\ v.delay <= Epoch
        BY KrxClockAssumption, Constants DEF StampsAfterEpoch, Ordinary
      <4> QED
        BY <4>1, Constants DEF ClockOK
    <3> HIDE DEF d
    <3>5. CASE UNCHANGED queue
      BY <3>2, <3>3, <3>5 DEF StampInv
    <3>6. CASE Len(queue[s]) < QueueCap /\ queue' = [queue EXCEPT ![s] = Append(@, d)]
      <4>1. /\ queue[s] \in Seq(Datagram) /\ Append(queue[s], d) \in Seq(Datagram)
            /\ Len(queue[s]) \in Nat /\ Len(Append(queue[s], d)) = Len(queue[s]) + 1
            /\ \A i \in 1 .. Len(queue[s]) : Append(queue[s], d)[i] = queue[s][i]
            /\ Append(queue[s], d)[Len(queue[s]) + 1] = d
        BY <3>1
      <4>2. /\ queue' \in [Sockets -> Seq(Datagram)] /\ queue'[s] = Append(queue[s], d)
            /\ \A t \in Sockets \ {s} : queue'[t] = queue[t]
        BY <3>6, <4>1
      <4>3. \A t \in Sockets : Len(queue'[t]) <= QueueCap
        BY <3>6, <4>1, <4>2, Constants
      <4>4. StampInv'
        <5> SUFFICES ASSUME StampsAfterEpoch, NEW t \in Sockets, NEW i \in 1 .. Len(queue'[t])
                     PROVE  0 <= queue'[t][i].at
          BY DEF StampInv
        <5>1. CASE t = s /\ i = Len(queue[s]) + 1
          BY <3>4, <4>1, <4>2, <5>1
        <5>2. CASE t = s /\ i # Len(queue[s]) + 1
          <6>1. i \in 1 .. Len(queue[s]) /\ queue'[t][i] = queue[s][i]
            BY <4>1, <4>2, <5>2
          <6> QED
            BY <6>1 DEF StampInv
        <5>3. CASE t # s
          BY <4>2, <5>3 DEF StampInv
        <5> QED
          BY <5>1, <5>2, <5>3
      <4> QED
        BY <3>2, <3>3, <4>2, <4>3, <4>4
    <3> QED
      BY <3>2, <3>5, <3>6
  <2> QED
    BY <1>4, <2>1, <2>2, <2>3 DEF Environment
<1> QED
  BY <1>1, <1>2, <1>3, <1>4, QuietNetwork DEF Next, Feed

-----------------------------------------------------------------------------
(***************************************************************************)
(* The sockets' counts against the pipeline's and the venue's.             *)
(***************************************************************************)
(* A number that one socket keeps moves by k, the others' do not, and so   *)
(* does the total.                                                         *)
LEMMA OneCountMoves ==
  ASSUME NEW x \in [Sockets -> Nat], NEW y \in [Sockets -> Nat], NEW c \in Sockets, NEW k \in Int,
         y[c] = x[c] + k, \A s \in Sockets \ {c} : y[s] = x[s]
  PROVE  Total(x) \in Int /\ Total(y) = Total(x) + k
<1>1. x \in [Sockets -> Int] /\ y \in [Sockets -> Int] /\ \A s \in Sockets : s # c => y[s] = x[s]
  OBVIOUS
<1> QED
  BY <1>1, TotalMoves

(* The counts of the sockets and the lengths of their buffers are numbers. *)
LEMMA CountsTyped ==
  ASSUME NEW ch \in [Sockets -> [received : Nat, published : Nat, errors : Nat]],
         NEW qu \in [Sockets -> Seq(Datagram)]
  PROVE  /\ [s \in Sockets |-> ch[s].received] \in [Sockets -> Nat]
         /\ [s \in Sockets |-> ch[s].published] \in [Sockets -> Nat]
         /\ [s \in Sockets |-> ch[s].errors] \in [Sockets -> Nat]
         /\ [s \in Sockets |-> Len(qu[s])] \in [Sockets -> Nat]
<1>1. \A s \in Sockets : ch[s] \in [received : Nat, published : Nat, errors : Nat]
  OBVIOUS
<1>2. \A s \in Sockets : Len(qu[s]) \in Nat
  OBVIOUS
<1> QED
  BY <1>1, <1>2

(* The counters of a typed state are naturals.                             *)
LEMMA CountersTyped ==
  ASSUME NEW st \in [Counters -> Nat]
  PROVE  /\ st["received"] \in Nat /\ st["published"] \in Nat /\ st["socket_errors"] \in Nat
         /\ {"received", "published", "socket_errors", "heartbeats"} \subseteq Counters
BY DEF Counters, Outcomes

(* A datagram read moves from its buffer to both counters, and a published *)
(* one is published by both.                                               *)
LEMMA ReadTotals ==
  ASSUME ControlOK, CountsOK, QueuesOK, CountsOK', QueuesOK', Totals, RecvDatagram
  PROVE  Totals'
<1> DEFINE c == Current
           k == stats'["published"] - stats["published"]
           received == [s \in Sockets |-> channels[s].received]
           published == [s \in Sockets |-> channels[s].published]
           errors == [s \in Sockets |-> channels[s].errors]
           lens == [s \in Sockets |-> Len(queue[s])]
           received2 == [s \in Sockets |-> channels'[s].received]
           published2 == [s \in Sockets |-> channels'[s].published]
           errors2 == [s \in Sockets |-> channels'[s].errors]
           lens2 == [s \in Sockets |-> Len(queue'[s])]
<1>1. c \in Sockets /\ queue[c] # <<>>
  BY CurrentSocket DEF RecvDatagram
<1>2. /\ queue' = [queue EXCEPT ![c] = Tail(@)] /\ UNCHANGED <<arrived, lost>>
      /\ channels' = [channels EXCEPT ![c].received = @ + 1, ![c].published = @ + k]
  BY DEF RecvDatagram
<1>3. stats'["received"] = stats["received"] + 1 /\ stats'["socket_errors"] = stats["socket_errors"]
  BY Ingested DEF RecvDatagram, CountsOK
<1>4. k \in Int /\ stats'["published"] = stats["published"] + k
  BY CountersTyped DEF CountsOK
<1> HIDE DEF c, k
<1>5. /\ channels'[c].received = channels[c].received + 1
      /\ channels'[c].published = channels[c].published + k
      /\ channels'[c].errors = channels[c].errors
      /\ \A s \in Sockets \ {c} : channels'[s] = channels[s]
  <2>1. channels \in [Sockets -> [received : Nat, published : Nat, errors : Nat]]
    BY DEF CountsOK
  <2>2. channels'[c] = [channels[c] EXCEPT !.received = @ + 1, !.published = @ + k]
    BY <1>1, <1>2, <2>1
  <2>3. \A s \in Sockets \ {c} : channels'[s] = channels[s]
    BY <1>2, <2>1
  <2>4. channels[c] \in [received : Nat, published : Nat, errors : Nat]
    BY <1>1, <2>1
  <2> QED
    BY <2>2, <2>3, <2>4
<1>6. Len(queue'[c]) = Len(queue[c]) - 1 /\ \A s \in Sockets \ {c} : queue'[s] = queue[s]
  <2>1. queue \in [Sockets -> Seq(Datagram)]
    BY DEF QueuesOK
  <2>2. queue'[c] = Tail(queue[c]) /\ \A s \in Sockets \ {c} : queue'[s] = queue[s]
    BY <1>1, <1>2, <2>1
  <2>3. queue[c] \in Seq(Datagram)
    BY <1>1, <2>1
  <2> QED
    BY <1>1, <2>2, <2>3
<1>7. /\ received \in [Sockets -> Nat] /\ published \in [Sockets -> Nat]
      /\ errors \in [Sockets -> Nat] /\ lens \in [Sockets -> Nat]
  BY CountsTyped DEF CountsOK, QueuesOK
<1>8. /\ received2 \in [Sockets -> Nat] /\ published2 \in [Sockets -> Nat]
      /\ errors2 \in [Sockets -> Nat] /\ lens2 \in [Sockets -> Nat]
  BY CountsTyped DEF CountsOK, QueuesOK
<1>9. /\ received2[c] = received[c] + 1 /\ \A s \in Sockets \ {c} : received2[s] = received[s]
      /\ published2[c] = published[c] + k /\ \A s \in Sockets \ {c} : published2[s] = published[s]
  BY <1>1, <1>5
<1>10. lens2[c] = lens[c] - 1 /\ \A s \in Sockets \ {c} : lens2[s] = lens[s]
  BY <1>1, <1>6
<1>11. errors2 = errors
  BY <1>1, <1>5
<1> HIDE DEF received, published, errors, lens, received2, published2, errors2, lens2
<1>12. Total(received2) = Total(received) + 1 /\ Total(published2) = Total(published) + k
  <2>1. Total(received2) = Total(received) + 1
    <3>1. /\ received \in [Sockets -> Nat] /\ received2 \in [Sockets -> Nat]
          /\ received2[c] = received[c] + 1 /\ \A s \in Sockets \ {c} : received2[s] = received[s]
      BY <1>7, <1>8, <1>9
    <3> QED
      BY <1>1, <3>1, OneCountMoves
  <2>2. Total(published2) = Total(published) + k
    <3>1. /\ published \in [Sockets -> Nat] /\ published2 \in [Sockets -> Nat]
          /\ published2[c] = published[c] + k /\ \A s \in Sockets \ {c} : published2[s] = published[s]
      BY <1>7, <1>8, <1>9
    <3> QED
      BY <1>1, <1>4, <3>1, OneCountMoves
  <2> QED
    BY <2>1, <2>2
<1>13. Total(lens) \in Int /\ Total(lens2) = Total(lens) - 1
  <2>1. /\ lens \in [Sockets -> Nat] /\ lens2 \in [Sockets -> Nat]
        /\ lens[c] = lens2[c] + 1 /\ \A s \in Sockets \ {c} : lens[s] = lens2[s]
    BY <1>1, <1>7, <1>8, <1>10
  <2>2. Total(lens2) \in Int /\ Total(lens) = Total(lens2) + 1
    BY <1>1, <2>1, OneCountMoves
  <2> QED
    BY <2>2
<1>14. Total(errors2) = Total(errors)
  BY <1>11
<1>15. /\ Total(received) = stats["received"] /\ Total(published) = stats["published"]
       /\ Total(errors) = stats["socket_errors"]
       /\ arrived = stats["received"] + lost + Total(lens)
  BY DEF Totals, received, published, errors, lens
<1>16. stats["received"] \in Nat /\ lost \in Nat /\ lost' = lost /\ arrived' = arrived
  BY <1>2, CountersTyped DEF CountsOK, QueuesOK
<1>17. /\ Total(received2) = stats'["received"] /\ Total(published2) = stats'["published"]
       /\ Total(errors2) = stats'["socket_errors"]
       /\ arrived' = stats'["received"] + lost' + Total(lens2)
  BY <1>3, <1>4, <1>12, <1>13, <1>14, <1>15, <1>16
<1> QED
  BY <1>17 DEF Totals, received2, published2, errors2, lens2

(* A socket error is counted by the socket and by the pipeline.            *)
LEMMA ErrorTotals ==
  ASSUME ControlOK, CountsOK, QueuesOK, CountsOK', QueuesOK', Totals, RecvTransient
  PROVE  Totals'
<1> DEFINE c == Current
           errors == [s \in Sockets |-> channels[s].errors]
           errors2 == [s \in Sockets |-> channels'[s].errors]
<1>1. c \in Sockets
  BY CurrentSocket DEF RecvTransient
<1>2. /\ UNCHANGED <<queue, arrived, lost>> /\ stats' = Bump(stats, "socket_errors")
      /\ channels' = [channels EXCEPT ![c].errors = @ + 1]
  BY DEF RecvTransient
<1> HIDE DEF c
<1>3. /\ stats'["socket_errors"] = stats["socket_errors"] + 1
      /\ stats'["received"] = stats["received"] /\ stats'["published"] = stats["published"]
  BY <1>2, Counted, CountersTyped, SMTT(30) DEF CountsOK
<1>4. /\ channels'[c].errors = channels[c].errors + 1
      /\ \A s \in Sockets : /\ channels'[s].received = channels[s].received
                             /\ channels'[s].published = channels[s].published
      /\ \A s \in Sockets \ {c} : channels'[s].errors = channels[s].errors
  BY <1>1, <1>2 DEF CountsOK
<1>5. errors \in [Sockets -> Nat] /\ errors2 \in [Sockets -> Nat]
  BY CountsTyped DEF CountsOK, QueuesOK
<1>6. errors2[c] = errors[c] + 1 /\ \A s \in Sockets \ {c} : errors2[s] = errors[s]
  BY <1>1, <1>4
<1> HIDE DEF errors, errors2
<1>7. Total(errors2) = Total(errors) + 1
  BY <1>1, <1>5, <1>6, OneCountMoves
<1>8. Total(errors2) = stats'["socket_errors"]
  BY <1>3, <1>7 DEF Totals, errors
<1>9. /\ [s \in Sockets |-> channels'[s].received] = [s \in Sockets |-> channels[s].received]
      /\ [s \in Sockets |-> channels'[s].published] = [s \in Sockets |-> channels[s].published]
  BY <1>4
<1> QED
  BY <1>2, <1>3, <1>8, <1>9 DEF Totals, errors2

(* A datagram that arrives is in a buffer, or is lost.                     *)
LEMMA ArrivalTotals ==
  ASSUME ControlOK, CountsOK, QueuesOK, ClockOK, QueuesOK', CountsOK', Totals,
         NEW c \in Sockets, NEW v \in Variants \cup {Ordinary}, Arrive(c, v)
  PROVE  Totals'
<1> DEFINE d == [flaws |-> v.flaws, m4 |-> v.m4, at |-> time - v.delay]
           lens == [s \in Sockets |-> Len(queue[s])]
           lens2 == [s \in Sockets |-> Len(queue'[s])]
<1>1. /\ arrived' = arrived + 1 /\ UNCHANGED <<channels, stats>>
      /\ \/ lost' = lost /\ queue' = [queue EXCEPT ![c] = Append(@, d)]
         \/ lost' = lost + 1 /\ queue' = queue
  BY DEF Arrive, receiver, pipeline
<1>2. d \in Datagram
  BY ArrivalType
<1> HIDE DEF d
<1>3. lens \in [Sockets -> Nat] /\ lens2 \in [Sockets -> Nat]
  BY CountsTyped DEF CountsOK, QueuesOK
<1>4. /\ stats["received"] \in Nat /\ lost \in Nat /\ arrived \in Int
      /\ arrived = stats["received"] + lost + Total(lens)
  <2>1. stats["received"] \in Nat
    BY CountersTyped DEF CountsOK
  <2>2. lost \in Nat /\ arrived \in Int
    BY Constants DEF QueuesOK
  <2>3. arrived = stats["received"] + lost + Total(lens)
    BY DEF Totals
  <2> QED
    BY <2>1, <2>2, <2>3
<1>5. arrived' = stats'["received"] + lost' + Total(lens2)
  <2>1. CASE lost' = lost /\ queue' = [queue EXCEPT ![c] = Append(@, d)]
    <3>1. queue \in [Sockets -> Seq(Datagram)]
      BY DEF QueuesOK
    <3>2. queue'[c] = Append(queue[c], d) /\ \A s \in Sockets \ {c} : queue'[s] = queue[s]
      BY <2>1, <3>1
    <3>3. Len(queue'[c]) = Len(queue[c]) + 1
      <4>1. queue[c] \in Seq(Datagram)
        BY <3>1
      <4> QED
        BY <1>2, <3>2, <4>1
    <3>4. lens2[c] = lens[c] + 1 /\ \A s \in Sockets \ {c} : lens2[s] = lens[s]
      BY <3>2, <3>3
    <3> HIDE DEF lens, lens2
    <3>5. Total(lens) \in Int /\ Total(lens2) = Total(lens) + 1
      BY <1>3, <3>4, OneCountMoves
    <3> QED
      BY <1>1, <1>4, <2>1, <3>5
  <2>2. CASE lost' = lost + 1 /\ queue' = queue
    <3>1. lens2 = lens
      BY <2>2
    <3> HIDE DEF lens, lens2
    <3>2. Total(lens) \in Int
      <4>1. lens[c] \in Nat /\ lens[c] = lens[c] + 0
        BY <1>3
      <4> QED
        BY <1>3, <4>1, OneCountMoves
    <3>3. Total(lens2) = Total(lens)
      BY <3>1
    <3> QED
      BY <1>1, <1>4, <2>2, <3>2, <3>3
  <2> QED
    BY <1>1, <2>1, <2>2
<1> QED
  BY <1>1, <1>5 DEF Totals

(* Every step keeps the sums.                                              *)
LEMMA TotalsStep ==
  ASSUME ControlOK, CountsOK, QueuesOK, ClockOK, CountsOK', QueuesOK', Totals, Next
  PROVE  Totals'
<1>1. ASSUME UNCHANGED <<channels, queue, arrived, lost>>,
             /\ stats'["received"] = stats["received"] /\ stats'["published"] = stats["published"]
             /\ stats'["socket_errors"] = stats["socket_errors"]
      PROVE  Totals'
  BY <1>1 DEF Totals
<1>2. CASE SpinRound \/ BlockRound \/ PollReturns \/ PollFails \/ RecvFatal \/ NextSocket \/ StopSeen \/ NoBeat
  <2>1. UNCHANGED <<channels, stats>>
    BY <1>2 DEF SpinRound, BlockRound, PollReturns, PollFails, RecvFatal, NextSocket, StopSeen, NoBeat,
                receiver, pipeline
  <2> QED
    BY <1>1, <1>2, <2>1, QuietNetwork
<1>3. CASE Beat
  <2>1. stats' = Bump(stats, "heartbeats") /\ UNCHANGED channels
    BY <1>3 DEF Beat
  <2>2. /\ stats'["received"] = stats["received"] /\ stats'["published"] = stats["published"]
        /\ stats'["socket_errors"] = stats["socket_errors"]
    BY <2>1, Counted, CountersTyped DEF CountsOK
  <2> QED
    BY <1>1, <1>3, <2>1, <2>2, QuietNetwork
<1>4. CASE RecvDatagram
  BY <1>4, ReadTotals
<1>5. CASE RecvTransient
  BY <1>5, ErrorTotals
<1>6. CASE Environment
  <2>1. CASE PassTime \/ AskToStop \/ (\E k \in Steps : StepClock(k))
             \/ (\E s \in Sockets, f \in {"transient", "fatal"} : SocketError(s, f))
    <3>1. UNCHANGED <<channels, stats, queue, arrived, lost>>
      BY <2>1 DEF PassTime, AskToStop, StepClock, SocketError, receiver, pipeline, network
    <3> QED
      BY <1>1, <3>1
  <2>2. CASE \E s \in Sockets, v \in Variants \cup {Ordinary} : Arrive(s, v)
    BY <2>2, ArrivalTotals
  <2> QED
    BY <1>6, <2>1, <2>2 DEF Environment
<1> QED
  BY <1>2, <1>3, <1>4, <1>5, <1>6 DEF Next, Feed

-----------------------------------------------------------------------------
(***************************************************************************)
(* Time: the readings, the schedule, the stop.                             *)
(***************************************************************************)
\* Steps that neither take time nor read or move a clock.
Still ==
  /\ UNCHANGED <<time, skew, back, forth, mode, reading, lastBeat, latest, nextBeat>>
  /\ UNCHANGED <<waited, worked, stop, stopAt>>
  /\ stats'["heartbeats"] = stats["heartbeats"]

\* Where such a step may take the thread.
Onward ==
  \/ pc' = pc
  \/ pc = "round" /\ ~stop /\ pc' \in {"wait", "drain", "beat"} /\ (mode = "Spin" => pc' # "wait")
  \/ pc \in {"wait", "drain"} /\ pc' \in {"drain", "beat"}
  \/ pc \notin ended /\ pc' \in ended

(* The clock is touched by a datagram read, by the end of a round and by   *)
(* the environment only.                                                   *)
LEMMA StillSteps ==
  ASSUME ControlOK, CountsOK,
         \/ SpinRound \/ BlockRound \/ PollReturns \/ PollFails
         \/ RecvTransient \/ RecvFatal \/ NextSocket \/ StopSeen
         \/ \E s \in Sockets, v \in Variants \cup {Ordinary} : Arrive(s, v)
         \/ \E s \in Sockets, f \in {"transient", "fatal"} : SocketError(s, f)
  PROVE  Still /\ Onward
<1>1. ASSUME NEW R, Visit(R) PROVE pc' \in {"drain", "beat"}
  BY <1>1 DEF Visit
<1>2. CASE SpinRound
  BY <1>1, <1>2 DEF SpinRound, Still, Onward, steps, pipeline, pacing, history
<1>3. CASE BlockRound
  BY <1>3 DEF BlockRound, Still, Onward, steps, pipeline, receiver, pacing, history
<1>4. CASE PollReturns
  BY <1>1, <1>4 DEF PollReturns, Still, Onward, steps, pipeline, pacing, history
<1>5. CASE PollFails
  BY <1>5 DEF PollFails, Still, Onward, steps, pipeline, receiver, pacing, history, ended
<1>6. CASE RecvTransient
  <2>1. stats' = Bump(stats, "socket_errors") /\ stats \in [Counters -> Nat]
    BY <1>6 DEF RecvTransient, CountsOK
  <2>2. "socket_errors" \in Counters /\ "heartbeats" \in Counters
    BY DEF Counters
  <2>3. stats'["heartbeats"] = stats["heartbeats"]
    BY <2>1, <2>2, Counted
  <2> QED
    BY <1>6, <2>3 DEF RecvTransient, Still, Onward, steps, pacing
<1>7. CASE RecvFatal
  BY <1>7 DEF RecvFatal, Still, Onward, steps, pipeline, receiver, pacing, history, ended
<1>8. CASE NextSocket
  BY <1>1, <1>8 DEF NextSocket, Still, Onward, steps, pipeline, pacing, history
<1>9. CASE StopSeen
  BY <1>9 DEF StopSeen, Still, Onward, steps, pipeline, receiver, pacing, history, ended
<1>10. CASE \E s \in Sockets, v \in Variants \cup {Ordinary} : Arrive(s, v)
  BY <1>10 DEF Arrive, Still, Onward, steps, pipeline, receiver, pacing, history
<1>11. CASE \E s \in Sockets, f \in {"transient", "fatal"} : SocketError(s, f)
  BY <1>11 DEF SocketError, Still, Onward, steps, pipeline, receiver, pacing, history
<1> QED
  BY <1>2, <1>3, <1>4, <1>5, <1>6, <1>7, <1>8, <1>9, <1>10, <1>11

(* A datagram read: the clock is read with it.                             *)
LEMMA ReadMoves ==
  ASSUME CountsOK, RecvDatagram
  PROVE  /\ UNCHANGED <<time, skew, back, forth, mode, pc, lastBeat, nextBeat>>
         /\ UNCHANGED <<waited, worked, stop, stopAt>> /\ stats'["heartbeats"] = stats["heartbeats"]
         /\ latest' = NowNs /\ reading' = Reading /\ pc = "drain"
BY Ingested DEF RecvDatagram, steps, pacing, CountsOK

(* The end of a round that writes a liveness record.                       *)
LEMMA BeatMoves ==
  ASSUME CountsOK, Beat
  PROVE  /\ UNCHANGED <<time, skew, back, forth, mode, stop, stopAt>>
         /\ pc = "beat" /\ pc' = "round" /\ latest' = None /\ waited' = 0 /\ worked' = FALSE
         /\ nextBeat' = Now + Heartbeat /\ Now >= nextBeat /\ Heartbeat # 0
         /\ lastBeat' = (IF latest = None THEN Reading ELSE reading) /\ reading' = lastBeat'
         /\ stats'["heartbeats"] = stats["heartbeats"] + 1
<1>1. stats' = Bump(stats, "heartbeats")
  BY DEF Beat
<1>2. stats'["heartbeats"] = stats["heartbeats"] + 1
  BY <1>1, Counted DEF CountsOK, Counters
<1> QED
  BY <1>2 DEF Beat, Schedule, Due, EndRound, steps

(* The end of a round that writes none.                                    *)
LEMMA NoBeatMoves ==
  ASSUME NoBeat
  PROVE  /\ UNCHANGED <<time, skew, back, forth, mode, stop, stopAt, nextBeat, lastBeat, stats>>
         /\ pc = "beat" /\ pc' = "round" /\ latest' = None /\ waited' = 0 /\ worked' = FALSE
         /\ reading' = lastBeat /\ (Heartbeat # 0 => ~(Now >= nextBeat))
BY DEF NoBeat, Due, EndRound, steps, pipeline

(* Time passes in the readiness wait, and once in the rest of the round.   *)
LEMMA TimeMoves ==
  ASSUME ClockOK, PassTime
  PROVE  /\ UNCHANGED <<skew, back, forth, mode, pc, latest, nextBeat, stats, reading, lastBeat>>
         /\ UNCHANGED <<stop, stopAt>> /\ time' = time + 1 /\ time' <= Epoch + MaxTime
         /\ \/ pc = "wait" /\ waited < PollTimeout /\ waited' = waited + 1 /\ UNCHANGED worked
            \/ pc = "drain" /\ ~worked /\ worked' = TRUE /\ UNCHANGED waited
<1>1. time' = time + 1 /\ time' <= Epoch + MaxTime
  BY Constants DEF PassTime, ClockOK
<1> QED
  BY <1>1 DEF PassTime, steps, receiver, pipeline, history

(* The system clock is stepped.                                            *)
LEMMA SkewMoves ==
  ASSUME NEW k \in Steps, StepClock(k)
  PROVE  /\ UNCHANGED <<time, mode, pc, latest, nextBeat, stats, reading, lastBeat>>
         /\ UNCHANGED <<waited, worked, stop, stopAt>>
         /\ skew = 0 /\ skew' = k /\ back' = Saturating(0, k) /\ forth' = Saturating(k, 0)
BY DEF StepClock, receiver, pipeline, history, pacing

(* The stop flag is set.                                                   *)
LEMMA FlagMoves ==
  ASSUME AskToStop
  PROVE  /\ UNCHANGED <<time, skew, back, forth, mode, pc, latest, nextBeat, stats, reading>>
         /\ UNCHANGED <<waited, worked, lastBeat>> /\ stop' = TRUE /\ stopAt' = time
BY DEF AskToStop, steps, receiver, pipeline, history, pacing

(* A reading of the clock, and what it showed.                             *)
LEMMA ClockShown ==
  ASSUME ClockOK, SkewInv
  PROVE  /\ Reading \in Readings /\ NowNs = Shown(Reading) /\ Raw(Reading) = time + skew
         /\ ClockAfterEpoch => 0 <= Raw(Reading)
<1> USE Constants DEF ClockOK
<1>1. Reading \in Readings
  BY DEF Reading, Readings
<1>2. forth - back = skew
  BY DEF SkewInv, Saturating
<1>3. Raw(Reading) = time + skew
  BY <1>2 DEF Raw, Reading
<1>4. NowNs = Shown(Reading)
  BY <1>3 DEF NowNs, Shown
<1>5. ClockAfterEpoch => 0 <= time + skew
  BY DEF SkewInv
<1> QED
  BY <1>1, <1>3, <1>4, <1>5

(* The kinds of time.                                                      *)
LEMMA ClockTypes ==
  ASSUME ControlOK, CountsOK, ClockOK, SkewInv, Next
  PROVE  ClockOK' /\ SkewInv'
<1> USE Constants
<1>0. Reading \in Readings
  BY ClockShown
<1>1. CASE Still
  BY <1>1 DEF Still, ClockOK, SkewInv
<1>2. CASE RecvDatagram
  BY <1>0, <1>2, ReadMoves DEF ClockOK, SkewInv
<1>3. CASE Beat
  <2>1. UNCHANGED <<time, skew, back, forth, stopAt>> /\ waited' = 0
    BY <1>3, BeatMoves
  <2>2. reading' \in Readings /\ lastBeat' \in Readings
    BY <1>0, <1>3, BeatMoves DEF ClockOK
  <2> QED
    BY <2>1, <2>2 DEF ClockOK, SkewInv
<1>4. CASE NoBeat
  BY <1>4, NoBeatMoves DEF ClockOK, SkewInv
<1>5. CASE PassTime
  <2>1. UNCHANGED <<skew, back, forth, reading, lastBeat, stopAt>>
    BY <1>5, TimeMoves
  <2>2. time' \in Epoch .. Epoch + MaxTime
    BY <1>5, TimeMoves DEF ClockOK
  <2>3. waited' \in 0..MaxWait
    <3>1. (waited < PollTimeout /\ waited' = waited + 1) \/ waited' = waited
      BY <1>5, TimeMoves
    <3>2. waited \in 0..MaxWait
      BY DEF ClockOK
    <3> QED
      BY <3>1, <3>2, WaitBounded
  <2> QED
    BY <2>1, <2>2, <2>3 DEF ClockOK, SkewInv
<1>6. ASSUME NEW k \in Steps, StepClock(k) PROVE ClockOK' /\ SkewInv'
  <2>1. /\ UNCHANGED <<time, waited, reading, lastBeat, stopAt>> /\ k \in Int
        /\ skew' = k /\ back' = Saturating(0, k) /\ forth' = Saturating(k, 0)
    BY <1>6, SkewMoves
  <2>2. Saturating(0, k) \in Nat /\ Saturating(k, 0) \in Nat
    BY <2>1 DEF Saturating
  <2>3. ClockAfterEpoch => 0 <= Epoch + k
    BY DEF ClockAfterEpoch
  <2> QED
    BY <2>1, <2>2, <2>3 DEF ClockOK, SkewInv
<1>7. CASE AskToStop
  <2>1. UNCHANGED <<time, skew, back, forth, waited, reading, lastBeat>> /\ stopAt' = time
    BY <1>7, FlagMoves
  <2> QED
    BY <2>1 DEF ClockOK, SkewInv
<1> QED
  BY <1>1, <1>2, <1>3, <1>4, <1>5, <1>6, <1>7, StillSteps DEF Next, Feed, Environment

(* A round takes its time where the code does, and a stop is seen when it  *)
(* ends.                                                                   *)
LEMMA PaceStep ==
  ASSUME ControlOK, FlagsOK, CountsOK, ClockOK, SkewInv, PaceInv, StopInv, Next
  PROVE  PaceInv' /\ StopInv'
<1> USE Constants, WaitBounded
<1>0. /\ time \in Int /\ stopAt \in Int /\ waited \in 0..MaxWait
      /\ reading.at \in Int /\ One(TRUE) = 1 /\ One(FALSE) = 0
  BY DEF ClockOK, Readings, One
<1>1. CASE Still /\ Onward
  BY <1>1 DEF Still, Onward, PaceInv, StopInv, ended
<1>2. CASE RecvDatagram
  <2>1. time - reading'.at = 0 /\ One(worked) \in {0, 1}
    BY <1>0, <1>2, ReadMoves DEF Reading, One
  <2> QED
    BY <1>2, <2>1, ReadMoves DEF PaceInv, StopInv
<1>3. CASE Beat \/ NoBeat
  <2>1. /\ pc = "beat" /\ pc' = "round" /\ latest' = None /\ waited' = 0 /\ worked' = FALSE
        /\ UNCHANGED <<time, mode, stop, stopAt>>
    BY <1>3, BeatMoves, NoBeatMoves
  <2>2. PaceInv'
    BY <2>1 DEF PaceInv
  <2>3. StopInv'
    <3>1. One(worked) <= 1 /\ One(worked) \in Int
      BY DEF One
    <3> QED
      BY <1>0, <2>1, <3>1 DEF StopInv, ended
  <2> QED
    BY <2>2, <2>3
<1>4. CASE PassTime
  <2>1. /\ UNCHANGED <<mode, pc, latest, reading, stop, stopAt>> /\ time' = time + 1
        /\ \/ pc = "wait" /\ waited < PollTimeout /\ waited' = waited + 1 /\ UNCHANGED worked
           \/ pc = "drain" /\ ~worked /\ worked' = TRUE /\ UNCHANGED waited
    BY <1>4, TimeMoves
  <2>2. CASE pc = "wait" /\ waited < PollTimeout /\ waited' = waited + 1 /\ UNCHANGED worked
    <3>1. latest = None /\ ~worked /\ mode # "Spin"
      BY <2>2 DEF PaceInv
    <3>2. PaceInv'
      BY <1>0, <2>1, <2>2, <3>1 DEF PaceInv
    <3>3. StopInv'
      BY <1>0, <2>1, <2>2, <3>1 DEF StopInv, One
    <3> QED
      BY <3>2, <3>3
  <2>3. CASE pc = "drain" /\ ~worked /\ worked' = TRUE /\ UNCHANGED waited
    <3>1. One(worked) = 0 /\ One(worked') = 1
      BY <2>3 DEF One
    <3>2. PaceInv'
      BY <1>0, <2>1, <2>3, <3>1 DEF PaceInv
    <3>3. StopInv'
      BY <1>0, <2>1, <2>3, <3>1 DEF StopInv
    <3> QED
      BY <3>2, <3>3
  <2> QED
    BY <2>1, <2>2, <2>3
<1>5. ASSUME NEW k \in Steps, StepClock(k) PROVE PaceInv' /\ StopInv'
  BY <1>5, SkewMoves DEF PaceInv, StopInv
<1>6. CASE AskToStop
  <2>1. /\ UNCHANGED <<time, mode, pc, latest, reading, waited, worked>> /\ stopAt' = time
    BY <1>6, FlagMoves
  <2>2. time - time = 0 /\ One(worked) \in {0, 1}
    BY <1>0 DEF One
  <2> QED
    BY <1>0, <2>1, <2>2 DEF PaceInv, StopInv
<1> QED
  BY <1>1, <1>2, <1>3, <1>4, <1>5, <1>6, StillSteps DEF Next, Feed, Environment

(* Every reading is later than the last liveness record's, and the schedule *)
(* is the interval after that one.                                         *)
LEMMA ReadStep ==
  ASSUME ControlOK, CountsOK, ClockOK, SkewInv, PaceInv, ReadInv, Next
  PROVE  ReadInv'
<1> USE Constants
<1>1. /\ Reading \in Readings /\ NowNs = Shown(Reading)
      /\ ClockAfterEpoch => 0 <= Raw(Reading)
  BY ClockShown
<1>2. /\ Reading.back = back /\ Reading.forth = forth /\ None = -1
      /\ back \in Nat /\ forth \in Nat /\ NowNs \in Nat /\ stats["heartbeats"] \in Nat
      /\ reading.back \in Nat /\ reading.forth \in Nat
      /\ lastBeat.back \in Nat /\ lastBeat.forth \in Nat
  BY DEF Reading, None, ClockOK, CountsOK, Readings, NowNs, Counters
<1>3. CASE Still
  BY <1>3 DEF Still, ReadInv, Shown, Raw
<1>4. CASE RecvDatagram
  <2>1. /\ UNCHANGED <<back, forth, lastBeat, nextBeat>> /\ stats'["heartbeats"] = stats["heartbeats"]
        /\ latest' = NowNs /\ reading' = Reading
    BY <1>4, ReadMoves
  <2>2. lastBeat.back <= Reading.back /\ lastBeat.forth <= Reading.forth
    BY <1>2 DEF ReadInv
  <2>3. Shown(reading)' = Shown(Reading) /\ Raw(reading)' = Raw(Reading)
    BY <2>1 DEF Shown, Raw
  <2>4. Shown(lastBeat)' = Shown(lastBeat) /\ Raw(lastBeat)' = Raw(lastBeat)
    BY <2>1 DEF Shown, Raw
  <2> QED
    BY <1>1, <1>2, <2>1, <2>2, <2>3, <2>4 DEF ReadInv
<1>5. CASE Beat
  <2> DEFINE r == IF latest = None THEN Reading ELSE reading
  <2>1. /\ UNCHANGED <<back, forth>> /\ latest' = None /\ nextBeat' = Now + Heartbeat
        /\ lastBeat' = r /\ reading' = r
    BY <1>5, BeatMoves
  <2>2. /\ r.back \in Nat /\ r.forth \in Nat /\ r.back <= back /\ r.forth <= forth
        /\ ClockAfterEpoch => 0 <= Raw(r)
    BY <1>1, <1>2 DEF ReadInv
  <2>3. Now = Shown(r)
    BY <1>1 DEF Now, ReadInv
  <2> HIDE DEF r
  <2>4. /\ Shown(lastBeat)' = Shown(r) /\ Raw(lastBeat)' = Raw(r)
        /\ Shown(reading)' = Shown(r) /\ Raw(reading)' = Raw(r)
    BY <2>1 DEF Shown, Raw
  <2> QED
    BY <2>1, <2>2, <2>3, <2>4 DEF ReadInv
<1>6. CASE NoBeat
  <2>1. /\ UNCHANGED <<back, forth, lastBeat, nextBeat, stats>> /\ latest' = None
        /\ reading' = lastBeat
    BY <1>6, NoBeatMoves
  <2>2. /\ Shown(lastBeat)' = Shown(lastBeat) /\ Raw(lastBeat)' = Raw(lastBeat)
        /\ Raw(reading)' = Raw(lastBeat)
    BY <2>1 DEF Shown, Raw
  <2>3. lastBeat.back <= back /\ lastBeat.forth <= forth
    BY <1>2 DEF ReadInv
  <2> QED
    BY <1>2, <2>1, <2>2, <2>3 DEF ReadInv
<1>7. CASE PassTime
  BY <1>7, TimeMoves DEF ReadInv, Shown, Raw
<1>8. ASSUME NEW k \in Steps, StepClock(k) PROVE ReadInv'
  <2>1. /\ UNCHANGED <<latest, nextBeat, stats, reading, lastBeat>>
        /\ skew = 0 /\ back' = Saturating(0, k) /\ forth' = Saturating(k, 0) /\ k \in Int
    BY <1>8, SkewMoves
  <2>2. back <= back' /\ forth <= forth' /\ back' \in Nat /\ forth' \in Nat
    BY <2>1 DEF SkewInv, Saturating
  <2>3. /\ Shown(lastBeat)' = Shown(lastBeat) /\ Raw(lastBeat)' = Raw(lastBeat)
        /\ Shown(reading)' = Shown(reading) /\ Raw(reading)' = Raw(reading)
    BY <2>1 DEF Shown, Raw
  <2> QED
    BY <1>2, <2>1, <2>2, <2>3 DEF ReadInv
<1>9. CASE AskToStop
  BY <1>9, FlagMoves DEF ReadInv, Shown, Raw
<1> QED
  BY <1>3, <1>4, <1>5, <1>6, <1>7, <1>8, <1>9, StillSteps DEF Next, Feed, Environment

(* A round that writes no liveness record ends before the record is due;   *)
(* so a record is late by what one round takes, and by what the clock was  *)
(* stepped back.                                                           *)
LEMMA LagStep ==
  ASSUME ControlOK, FlagsOK, CountsOK, ClockOK, SkewInv, PaceInv, ReadInv, LagInv, Next
  PROVE  LagInv'
<1> USE Constants
<1>1. SUFFICES ASSUME ClockAfterEpoch, Heartbeat # 0, pc' \notin ended
               PROVE  time' - lastBeat'.at <=
                        Heartbeat + (back' - lastBeat'.back) + waited' + One(worked')
  BY DEF LagInv
<1>2. /\ back \in Nat /\ forth \in Nat /\ time \in Int /\ waited \in Nat
      /\ One(TRUE) = 1 /\ One(FALSE) = 0 /\ One(worked) \in {0, 1}
      /\ lastBeat.at \in Int /\ lastBeat.back \in Nat /\ lastBeat.forth \in Nat
      /\ reading.at \in Int /\ reading.back \in Nat /\ reading.forth \in Nat
  BY DEF ClockOK, One, Readings
<1>3. pc \notin ended =>
        time - lastBeat.at <= Heartbeat + (back - lastBeat.back) + waited + One(worked)
  BY <1>1 DEF LagInv
<1>4. Reading.at = time /\ Reading.back = back /\ Reading.forth = forth
  BY DEF Reading
<1>5. CASE Still /\ Onward
  BY <1>1, <1>3, <1>5 DEF Still, Onward, ended
<1>6. CASE RecvDatagram
  <2>1. pc = "drain" /\ UNCHANGED <<time, back, lastBeat, waited, worked>>
    BY <1>6, ReadMoves
  <2> QED
    BY <1>3, <2>1 DEF ended
<1>7. CASE Beat
  <2>1. UNCHANGED <<time, back>> /\ waited' = 0 /\ One(worked') = 0
    BY <1>7, BeatMoves DEF One
  <2>2. CASE latest = None
    <3>1. lastBeat' = Reading
      BY <1>7, <2>2, BeatMoves
    <3> QED
      BY <1>1, <1>2, <1>4, <2>1, <3>1
  <2>3. CASE latest # None
    <3>1. lastBeat' = reading
      BY <1>7, <2>3, BeatMoves
    <3>2. time - reading.at <= 1 /\ reading.back <= back
      BY <1>2, <2>3 DEF PaceInv, ReadInv
    <3> QED
      BY <1>1, <1>2, <2>1, <3>1, <3>2
  <2> QED
    BY <2>2, <2>3
<1>8. CASE NoBeat
  <2>1. /\ UNCHANGED <<time, back, lastBeat>> /\ waited' = 0 /\ One(worked') = 0
        /\ ~(Now >= nextBeat)
    BY <1>1, <1>8, NoBeatMoves DEF One
  <2>2. 0 <= Raw(lastBeat) /\ Shown(lastBeat) = Raw(lastBeat) /\ Raw(lastBeat) \in Int
    BY <1>1, <1>2 DEF ReadInv, Shown, Raw
  <2>3. Now \in Nat /\ nextBeat \in Nat
    BY DEF Now, NowNs, ClockOK, CountsOK
  <2>4. nextBeat = Raw(lastBeat) + Heartbeat
    BY <2>1, <2>2, <2>3 DEF ReadInv
  <2>5. CASE latest = None
    <3>1. Now = Raw(Reading) \/ Raw(Reading) < 0
      BY <2>5, ClockShown DEF Now, Shown
    <3>2. Raw(Reading) < Raw(lastBeat) + Heartbeat
      BY <1>2, <1>4, <2>1, <2>2, <2>3, <2>4, <3>1 DEF Raw
    <3>3. time + forth - back < lastBeat.at + lastBeat.forth - lastBeat.back + Heartbeat
      BY <1>4, <3>2 DEF Raw
    <3>4. lastBeat.forth <= forth
      BY <1>2 DEF ReadInv
    <3> QED
      BY <1>2, <2>1, <3>3, <3>4
  <2>6. CASE latest # None
    <3>1. Now = Raw(reading) \/ Raw(reading) < 0
      BY <2>6 DEF Now, Shown, ReadInv
    <3>2. Raw(reading) < Raw(lastBeat) + Heartbeat
      BY <1>2, <2>1, <2>2, <2>3, <2>4, <3>1 DEF Raw
    <3>3. reading.at + reading.forth - reading.back <
            lastBeat.at + lastBeat.forth - lastBeat.back + Heartbeat
      BY <3>2 DEF Raw
    <3>4. lastBeat.forth <= reading.forth /\ reading.back <= back
      BY DEF ReadInv
    <3>5. time - reading.at <= 1
      BY <1>2, <2>6 DEF PaceInv
    <3> QED
      BY <1>2, <2>1, <3>3, <3>4, <3>5
  <2> QED
    BY <2>5, <2>6
<1>9. CASE PassTime
  <2>1. /\ UNCHANGED <<pc, back, lastBeat>> /\ time' = time + 1
        /\ \/ waited' = waited + 1 /\ UNCHANGED worked
           \/ ~worked /\ worked' = TRUE /\ UNCHANGED waited
    BY <1>9, TimeMoves
  <2>2. waited' + One(worked') = waited + One(worked) + 1 /\ waited' + One(worked') \in Int
    BY <1>2, <2>1 DEF One
  <2>3. waited' \in Int /\ One(worked') \in Int
    BY <1>2, <2>1 DEF One
  <2> QED
    BY <1>1, <1>2, <1>3, <2>1, <2>2, <2>3
<1>10. ASSUME NEW k \in Steps, StepClock(k) PROVE LagInv'
  <2>1. /\ UNCHANGED <<time, pc, waited, worked, lastBeat>>
        /\ skew = 0 /\ back' = Saturating(0, k) /\ k \in Int
    BY <1>10, SkewMoves
  <2>2. back <= back' /\ back' \in Nat
    BY <2>1 DEF SkewInv, Saturating
  <2> QED
    BY <1>1, <1>2, <1>3, <2>1, <2>2 DEF LagInv
<1>11. CASE AskToStop
  BY <1>1, <1>3, <1>11, FlagMoves
<1> QED
  BY <1>5, <1>6, <1>7, <1>8, <1>9, <1>10, <1>11, <1>1, StillSteps DEF Next, Feed, Environment, LagInv

-----------------------------------------------------------------------------
(***************************************************************************)
(* The sockets' turns.                                                     *)
(***************************************************************************)
(* Wherever the round is, what a waiting socket has seen pass is within    *)
(* the bound.                                                              *)
LEMMA TurnsBounded ==
  ASSUME ControlOK, QueuesOK, TurnInv
  PROVE  NoSocketStarves
<1> SUFFICES ASSUME NEW s \in Sockets, queue[s] # <<>>
             PROVE  passed[s] <= (N - 1) * Burst * (IF mode = "Spin" THEN 1 ELSE 2)
  BY DEF NoSocketStarves
<1> DEFINE all == Bursts(N - 1)
<1>1. /\ s \in Int /\ 1 <= s /\ s <= N /\ N - 1 \in Int /\ N \in Int /\ Burst \in Int
      /\ passed[s] \in Int /\ left \in Int /\ 0 <= left /\ 0 <= N - 1
  BY Constants DEF Sockets, ControlOK, QueuesOK
<1>2. all \in Int /\ 0 <= all
  BY <1>1, BurstsAdd
<1>3. /\ mode = "Spin" => (N - 1) * Burst * (IF mode = "Spin" THEN 1 ELSE 2) = all
      /\ mode # "Spin" => (N - 1) * Burst * (IF mode = "Spin" THEN 1 ELSE 2) = all + all
  <2>1. (N - 1) * Burst = all
    BY DEF Bursts
  <2> HIDE DEF all
  <2> QED
    BY <1>2, <2>1
<1> SUFFICES /\ mode = "Spin" => passed[s] <= all
             /\ mode # "Spin" => passed[s] <= all + all
  BY <1>3
<1>4. ASSUME NEW n \in Int, n <= N - 1 PROVE Bursts(n) \in Int /\ Bursts(n) <= all
  BY <1>1, <1>4, BurstsAdd
<1>5. ASSUME NEW n \in Int PROVE Bursts(N - 1 + n) = all + Bursts(n)
  BY <1>1, BurstsAdd
<1>6. Owed(s) \in Int /\ Owed(s) <= N - 1 /\ (mode # "Spin" => Owed(s) = N - 1)
        /\ (mode = "Spin" => Owed(s) = N - s)
  BY <1>1 DEF Owed
<1> HIDE DEF all
<1>7. CASE pc = "dead"
  BY <1>3, <1>7 DEF TurnInv, NoSocketStarves
<1>8. CASE pc \notin {"drain", "dead"}
  <2>1. passed[s] <= Bursts(Owed(s))
    BY <1>8 DEF TurnInv
  <2> QED
    BY <1>1, <1>2, <1>4, <1>6, <2>1
<1>9. CASE pc = "drain"
  <2>1. Current \in Int /\ 1 <= Current /\ Current <= N /\ Current \in ready
    BY <1>1, <1>9, CurrentSocket DEF Sockets
  <2>2. CASE s \in ready
    <3> DEFINE n == IF s = Current THEN Owed(s) + Current - 1 ELSE Owed(s) + Current
    <3>1. passed[s] <= Ahead(s) /\ Current <= s
      BY <1>9, <2>2, CurrentSocket DEF TurnInv
    <3>2. n \in Int /\ (mode = "Spin" => n <= N - 1) /\ (mode # "Spin" => n - (N - 1) <= N - 1)
      <4>1. n \in Int
        BY <1>6, <2>1
      <4>2. CASE mode = "Spin"
        <5>1. Owed(s) = N - s
          BY <1>6, <4>2
        <5> QED
          BY <1>1, <2>1, <3>1, <4>1, <4>2, <5>1
      <4>3. CASE mode # "Spin"
        <5>1. Owed(s) = N - 1
          BY <1>6, <4>3
        <5> QED
          BY <1>1, <2>1, <3>1, <4>1, <4>3, <5>1
      <4> QED
        BY <4>2, <4>3
    <3>3. passed[s] <= Bursts(n) /\ Bursts(n) \in Int
      <4>1. CASE s = Current
        <5>1. Ahead(s) = Bursts(n) + 0
          BY <4>1 DEF Ahead
        <5>2. Bursts(n) \in Int
          BY <3>2, BurstsAdd
        <5> QED
          BY <3>1, <5>1, <5>2
      <4>2. CASE s # Current
        <5> DEFINE m == Owed(s) + Current - 1
        <5>1. m \in Int /\ m + 1 = n
          BY <1>6, <2>1, <4>2
        <5>2. Ahead(s) = Bursts(m) + (Burst - left)
          BY <4>2 DEF Ahead
        <5> HIDE DEF m, n
        <5>3. Bursts(n) = Bursts(m) + Burst /\ Bursts(m) \in Int
          BY <5>1, BurstsAdd
        <5> QED
          BY <1>1, <3>1, <5>2, <5>3
      <4> QED
        BY <4>1, <4>2
    <3> HIDE DEF n
    <3>4. mode = "Spin" => passed[s] <= all
      BY <1>1, <1>2, <1>4, <3>2, <3>3
    <3>5. mode # "Spin" => passed[s] <= all + all
      <4> DEFINE k == n - (N - 1)
      <4>1. k \in Int /\ N - 1 + k = n
        BY <1>1, <3>2
      <4>2. mode # "Spin" => k <= N - 1
        BY <3>2
      <4> HIDE DEF k
      <4>3. Bursts(n) = all + Bursts(k)
        BY <1>5, <4>1
      <4>4. mode # "Spin" => Bursts(k) <= all /\ Bursts(k) \in Int
        BY <1>4, <4>1, <4>2
      <4> QED
        BY <1>1, <1>2, <3>3, <4>3, <4>4
    <3> QED
      BY <3>4, <3>5
  <2>3. CASE s \notin ready
    <3> DEFINE n == IF mode = "Spin" THEN Current - s ELSE IF s < Current THEN Current - 1 ELSE Current
    <3>1. passed[s] <= Bursts(n) - left /\ s # Current
      BY <1>9, <2>1, <2>3 DEF TurnInv, Behind
    <3>2. n \in Int /\ n <= N - 1
      BY <1>1, <2>1, <3>1
    <3> HIDE DEF n
    <3>3. Bursts(n) <= all /\ Bursts(n) \in Int
      BY <1>4, <3>2
    <3> QED
      BY <1>1, <1>2, <3>1, <3>3
  <2> QED
    BY <2>2, <2>3
<1> QED
  BY <1>7, <1>8, <1>9

(* What is owed to a socket is counted in whole bursts.                    *)
LEMMA OwedType ==
  ASSUME NEW s \in Sockets
  PROVE  /\ s \in Int /\ 1 <= s /\ s <= N /\ N \in Int
         /\ Owed(s) \in Int /\ 0 <= Owed(s) /\ Bursts(Owed(s)) \in Int /\ 0 <= Bursts(Owed(s))
         /\ (mode = "Spin" => Owed(s) = N - s) /\ (mode # "Spin" => Owed(s) = N - 1)
<1>1. s \in Int /\ 1 <= s /\ s <= N /\ N \in Int
  BY Constants DEF Sockets
<1>2. /\ Owed(s) \in Int /\ 0 <= Owed(s)
      /\ (mode = "Spin" => Owed(s) = N - s) /\ (mode # "Spin" => Owed(s) = N - 1)
  BY <1>1 DEF Owed
<1> QED
  BY <1>1, <1>2, BurstsAdd

(* A round opens: nobody's turn has come, and who is not visited had       *)
(* nothing waiting.                                                        *)
LEMMA RoundOpens ==
  ASSUME ControlOK, QueuesOK, TurnInv, NEW R \in SUBSET Sockets, Visit(R), ControlOK',
         pc \notin {"drain", "dead"}, UNCHANGED <<mode, queue, passed>>,
         \A s \in Sockets \ R : R # {} => passed[s] = 0 /\ mode # "Spin"
  PROVE  TurnInv'
<1>1. /\ ready' = R /\ left' = Burst /\ pc' \in {"beat", "drain"} /\ (pc' = "drain" <=> R # {})
  BY VisitControl
<1>2. /\ \A s \in Sockets : queue'[s] = <<>> => passed'[s] = 0
      /\ \A s \in Sockets : passed'[s] <= Bursts(Owed(s))' /\ passed'[s] \in Int
      /\ \A s \in Sockets : Owed(s)' = Owed(s)
  BY DEF TurnInv, Owed, QueuesOK
<1>3. CASE R = {}
  BY <1>1, <1>2, <1>3 DEF TurnInv
<1>4. CASE R # {}
  <2>1. pc' = "drain" /\ Current' \in R /\ Current' \in Sockets
    <3>1. R \subseteq Nat
      BY Constants DEF Sockets
    <3>2. Min(R) \in R
      BY <1>4, <3>1, LeastOf
    <3> QED
      BY <1>1, <1>4, <3>2 DEF Current
  <2>2. Current' \in Int /\ 1 <= Current' /\ Current' <= N
    BY <2>1, OwedType
  <2>3. ASSUME NEW s \in R PROVE passed'[s] <= Ahead(s)'
    <3> DEFINE o == Owed(s)
               n == Owed(s) + Current' - 1
    <3>1. o \in Int /\ n \in Int /\ o <= n /\ Burst \in Int /\ s \in Sockets
      BY <2>2, OwedType, Constants
    <3>2. Ahead(s)' = Bursts(n) + 0
      <4>1. Burst - left' = 0
        BY <1>1, Constants
      <4> QED
        BY <1>2, <3>1, <4>1 DEF Ahead
    <3>3. passed'[s] <= Bursts(o) /\ passed'[s] \in Int
      BY <1>2, <3>1
    <3> HIDE DEF o, n
    <3>4. Bursts(o) <= Bursts(n) /\ Bursts(o) \in Int /\ Bursts(n) \in Int
      BY <3>1, BurstsAdd
    <3> QED
      BY <3>2, <3>3, <3>4
  <2>4. ASSUME NEW s \in Sockets \ R
        PROVE  passed'[s] <= Behind(s)' /\ (mode' = "Spin" => s < Current')
    <3> DEFINE n == IF s < Current' THEN Current' - 1 ELSE Current'
    <3>1. passed'[s] = 0 /\ mode' # "Spin"
      BY <1>4
    <3>2. n \in Int /\ 0 <= n - 1 /\ n - 1 \in Int /\ (n - 1) + 1 = n
      <4>1. s \in Int /\ 1 <= s
        BY OwedType
      <4>2. (s < Current' /\ n = Current' - 1) \/ n = Current'
        OBVIOUS
      <4> HIDE DEF n
      <4>3. n \in Int /\ 1 <= n
        BY <2>2, <4>1, <4>2
      <4> QED
        BY <4>3
    <3>3. Behind(s)' = Bursts(n) - Burst
      BY <1>1, <3>1 DEF Behind
    <3> HIDE DEF n
    <3>4. 0 <= Bursts(n - 1) /\ Bursts(n - 1) \in Int /\ Bursts(n) = Bursts(n - 1) + Burst
      BY <3>2, BurstsAdd
    <3> QED
      BY <3>1, <3>3, <3>4, Constants
  <2> QED
    BY <1>1, <1>2, <2>1, <2>3, <2>4, Constants DEF TurnInv
<1> QED
  BY <1>3, <1>4

(* A turn taken: the socket drained was asked, and the others have seen    *)
(* one datagram pass at most.                                              *)
LEMMA TurnTaken ==
  ASSUME ControlOK, QueuesOK, TurnInv, pc = "drain", left > 0, QueuesOK',
         UNCHANGED <<mode, pc, ready>>, left' = left - 1, passed'[Current] = 0,
         \A s \in Sockets : passed'[s] <= passed[s] + 1,
         \A s \in Sockets : queue'[s] = <<>> => passed'[s] = 0
  PROVE  TurnInv'
<1>1. /\ Current' = Current /\ Current \in Sockets /\ Current \in ready /\ ready \subseteq Sockets
      /\ left \in Int /\ Burst \in Int
  BY CurrentSocket, Constants DEF Current, ControlOK
<1>2. Current \in Int /\ 1 <= Current /\ Current <= N
  BY <1>1, OwedType
<1>3. \A s \in Sockets : passed[s] \in Int /\ passed'[s] \in Int /\ Owed(s)' = Owed(s)
  BY DEF QueuesOK, Owed
<1>4. ASSUME NEW s \in ready PROVE passed'[s] <= Ahead(s)'
  <2> DEFINE n == Owed(s) + Current - 1
  <2>1. n \in Int /\ 0 <= n /\ s \in Sockets
    BY <1>1, <1>2, OwedType
  <2>2. /\ s = Current => Ahead(s)' = Bursts(n) + 0
        /\ s # Current => Ahead(s)' = Bursts(n) + (Burst - left') /\ Ahead(s) = Bursts(n) + (Burst - left)
    BY <1>1, <1>3, <2>1 DEF Ahead
  <2> HIDE DEF n
  <2>3. Bursts(n) \in Int /\ 0 <= Bursts(n)
    BY <2>1, BurstsAdd
  <2>4. passed[s] <= Ahead(s)
    BY DEF TurnInv
  <2>5. CASE s = Current
    BY <2>2, <2>3, <2>5
  <2>6. CASE s # Current
    BY <1>1, <1>3, <2>1, <2>2, <2>3, <2>4, <2>6
  <2> QED
    BY <2>5, <2>6
<1>5. ASSUME NEW s \in Sockets \ ready
      PROVE  passed'[s] <= Behind(s)' /\ (mode' = "Spin" => s < Current')
  <2> DEFINE n == IF mode = "Spin" THEN Current - s ELSE IF s < Current THEN Current - 1 ELSE Current
  <2>1. n \in Int
    BY <1>2, OwedType
  <2>2. Behind(s)' = Bursts(n) - left' /\ Behind(s) = Bursts(n) - left
    BY <1>1 DEF Behind
  <2> HIDE DEF n
  <2>3. Bursts(n) \in Int
    BY <2>1, BurstsAdd
  <2>4. passed[s] <= Behind(s) /\ (mode = "Spin" => s < Current)
    BY DEF TurnInv
  <2>5. passed'[s] <= Behind(s)'
    BY <1>1, <1>3, <2>2, <2>3, <2>4
  <2> QED
    BY <1>1, <2>4, <2>5
<1> QED
  BY <1>1, <1>4, <1>5 DEF TurnInv

(* The turn passes on, when the burst is spent or nothing waits.           *)
LEMMA TurnPasses ==
  ASSUME ControlOK, QueuesOK, TurnInv, NextSocket
  PROVE  TurnInv'
<1> DEFINE c == Current
<1>1. /\ pc = "drain" /\ (left = 0 \/ c \notin Readable) /\ Visit(ready \ {c})
      /\ UNCHANGED <<mode, queue, passed>>
  BY DEF NextSocket, network, history
<1>2. /\ c \in Sockets /\ c \in ready /\ ready \subseteq Sockets /\ (\A s \in ready : c <= s)
      /\ left \in Int /\ 0 <= left /\ Burst \in Int /\ 0 < Burst
  BY <1>1, CurrentSocket, Constants DEF ControlOK
<1>3. /\ ready' = ready \ {c} /\ left' = Burst /\ pc' \in {"beat", "drain"}
      /\ (pc' = "drain" <=> ready \ {c} # {})
  BY <1>1, <1>2, VisitControl
<1>4. passed[c] = 0
  <2>1. CASE left = 0
    BY <1>1, <1>2, <2>1 DEF TurnInv
  <2>2. CASE c \notin Readable
    <3>1. queue[c] = <<>>
      BY <1>2, <2>2 DEF Readable
    <3> QED
      BY <1>2, <3>1 DEF TurnInv
  <2> QED
    BY <1>1, <2>1, <2>2
<1>5. c \in Int /\ 1 <= c /\ c <= N /\ N \in Int
  BY <1>2, OwedType
<1>6. /\ \A s \in Sockets : passed'[s] = passed[s] /\ passed[s] \in Int /\ Owed(s)' = Owed(s)
      /\ \A s \in Sockets : queue'[s] = <<>> => passed'[s] = 0
  BY <1>1 DEF TurnInv, QueuesOK, Owed
<1> DEFINE n(s) == IF mode = "Spin" THEN c - s ELSE IF s < c THEN c - 1 ELSE c
<1>7. ASSUME NEW s \in Sockets \ ready
      PROVE  /\ n(s) \in Int /\ passed[s] <= Bursts(n(s)) - left /\ Bursts(n(s)) \in Int
             /\ s # c /\ (mode = "Spin" => s < c)
  <2>1. n(s) \in Int
    BY <1>5, OwedType
  <2>2. Bursts(n(s)) \in Int
    BY <2>1, BurstsAdd
  <2>3. Behind(s) = Bursts(n(s)) - left
    BY DEF Behind
  <2> QED
    BY <1>1, <1>2, <2>1, <2>2, <2>3 DEF TurnInv
<1>8. ASSUME NEW s \in ready, s # c
      PROVE  /\ passed[s] <= Bursts(Owed(s) + c - 1) + (Burst - left) /\ s \in Sockets
             /\ Owed(s) + c - 1 \in Int /\ Bursts(Owed(s) + c - 1) \in Int
             /\ Bursts(Owed(s) + c) = Bursts(Owed(s) + c - 1) + Burst /\ Bursts(Owed(s) + c) \in Int
  <2> DEFINE m == Owed(s) + c - 1
  <2>1. m \in Int /\ s \in Sockets /\ m + 1 = Owed(s) + c
    BY <1>2, <1>5, OwedType
  <2>2. passed[s] <= Bursts(m) + (Burst - left)
    BY <1>1, <1>8 DEF TurnInv, Ahead
  <2>3. Bursts(m) \in Int /\ Bursts(m + 1) = Bursts(m) + Burst /\ Bursts(m + 1) \in Int
    BY <1>2, <2>1, BurstsAdd
  <2> QED
    BY <2>1, <2>2, <2>3
<1> HIDE DEF c
<1>9. CASE ready \ {c} = {}
  <2>1. ASSUME NEW s \in Sockets PROVE passed'[s] <= Bursts(Owed(s))'
    <3>1. Bursts(Owed(s))' = Bursts(Owed(s)) /\ passed'[s] = passed[s] /\ passed[s] \in Int
      BY <1>6
    <3>2. CASE s = c
      BY <1>4, <3>1, <3>2, OwedType
    <3>3. CASE s # c
      <4>1. s \in Sockets \ ready
        BY <1>9, <3>3
      <4>2. n(s) <= Owed(s) /\ Owed(s) \in Int /\ Bursts(Owed(s)) \in Int
        <5>1. CASE mode = "Spin"
          BY <1>5, <5>1, OwedType
        <5>2. CASE mode # "Spin"
          BY <1>5, <3>3, <5>2, OwedType
        <5> QED
          BY <5>1, <5>2
      <4>3. n(s) \in Int /\ passed[s] <= Bursts(n(s)) - left /\ Bursts(n(s)) \in Int
        BY <1>7, <4>1
      <4> HIDE DEF n
      <4>4. Bursts(n(s)) <= Bursts(Owed(s))
        BY <4>2, <4>3, BurstsAdd
      <4> QED
        BY <1>2, <3>1, <4>2, <4>3, <4>4
    <3> QED
      BY <3>2, <3>3
  <2> QED
    BY <1>3, <1>6, <1>9, <2>1 DEF TurnInv
<1>10. CASE ready \ {c} # {}
  <2> DEFINE e == Min(ready \ {c})
  <2>1. e \in ready \ {c} /\ Current' = e
    <3>1. ready \ {c} \subseteq Nat
      BY <1>2, Constants DEF Sockets
    <3> QED
      BY <1>3, <1>10, <3>1, LeastOf DEF Current
  <2> HIDE DEF e
  <2>2. e \in Int /\ c + 1 <= e /\ e <= N /\ c # e
    BY <1>2, <1>5, <2>1, OwedType
  <2>3. ASSUME NEW s \in ready \ {c} PROVE passed'[s] <= Ahead(s)'
    <3>1. Ahead(s)' = Bursts(Owed(s) + e - 1) + 0
      <4>1. Burst - left' = 0
        BY <1>2, <1>3
      <4> QED
        BY <1>2, <1>6, <2>1, <4>1 DEF Ahead
    <3>2. Owed(s) \in Int /\ s \in Sockets
      BY <1>2, OwedType
    <3>3. Bursts(Owed(s) + c) <= Bursts(Owed(s) + e - 1) /\ Bursts(Owed(s) + e - 1) \in Int
      <4> DEFINE x == Owed(s) + c
                 y == Owed(s) + e - 1
      <4>1. x \in Int /\ y \in Int /\ x <= y
        BY <1>5, <2>2, <3>2
      <4> HIDE DEF x, y
      <4>2. Bursts(x) <= Bursts(y) /\ Bursts(y) \in Int
        BY <4>1, BurstsAdd
      <4> QED
        BY <4>2 DEF x, y
    <3>4. /\ passed[s] <= Bursts(Owed(s) + c - 1) + (Burst - left)
          /\ Bursts(Owed(s) + c - 1) \in Int
          /\ Bursts(Owed(s) + c) = Bursts(Owed(s) + c - 1) + Burst /\ Bursts(Owed(s) + c) \in Int
      BY <1>8
    <3>5. passed'[s] = passed[s] /\ passed[s] \in Int
      BY <1>6, <3>2
    <3> QED
      BY <1>2, <3>1, <3>3, <3>4, <3>5
  <2>4. ASSUME NEW s \in Sockets \ (ready \ {c})
        PROVE  passed'[s] <= Behind(s)' /\ (mode' = "Spin" => s < Current')
    <3> DEFINE k == IF mode = "Spin" THEN e - s ELSE IF s < e THEN e - 1 ELSE e
    <3>1. s \in Int /\ 1 <= s /\ s # e /\ k \in Int /\ k - 1 \in Int /\ (k - 1) + 1 = k
      <4>1. s \in Int /\ 1 <= s /\ s # e
        BY <2>1, OwedType
      <4>2. k \in Int
        BY <2>2, <4>1
      <4> HIDE DEF k
      <4> QED
        BY <4>1, <4>2
    <3>2. Behind(s)' = Bursts(k) - Burst
      BY <1>1, <1>3, <2>1 DEF Behind
    <3>3. passed'[s] = passed[s] /\ passed[s] \in Int
      BY <1>6
    <3>4. CASE s = c
      <4>1. 0 <= k - 1
        BY <1>5, <2>2, <3>4
      <4> HIDE DEF k
      <4>2. 0 <= Bursts(k - 1) /\ Bursts(k - 1) \in Int /\ Bursts(k) = Bursts(k - 1) + Burst
        BY <3>1, <4>1, BurstsAdd
      <4>3. passed'[s] <= Behind(s)'
        BY <1>2, <1>4, <3>2, <3>3, <3>4, <4>2
      <4> QED
        BY <2>1, <2>2, <3>4, <1>5, <4>3
    <3>5. CASE s # c
      <4>1. s \in Sockets \ ready
        BY <3>5
      <4>2. /\ n(s) \in Int /\ passed[s] <= Bursts(n(s)) - left /\ Bursts(n(s)) \in Int
            /\ (mode = "Spin" => s < c)
        BY <1>7, <4>1
      <4>3. n(s) <= k - 1
        <5>1. CASE mode = "Spin"
          BY <1>5, <2>2, <3>1, <5>1
        <5>2. CASE mode # "Spin" /\ s < c
          BY <1>5, <2>2, <3>1, <5>2
        <5>3. CASE mode # "Spin" /\ ~(s < c) /\ s < e
          BY <1>5, <2>2, <3>1, <3>5, <5>3
        <5>4. CASE mode # "Spin" /\ ~(s < c) /\ ~(s < e)
          BY <1>5, <2>2, <3>1, <5>4
        <5> QED
          BY <5>1, <5>2, <5>3, <5>4
      <4> HIDE DEF k, n
      <4>4. Bursts(n(s)) <= Bursts(k - 1) /\ Bursts(k - 1) \in Int /\ Bursts(k) = Bursts(k - 1) + Burst
        BY <3>1, <4>2, <4>3, BurstsAdd
      <4>5. passed'[s] <= Behind(s)'
        BY <1>2, <3>2, <3>3, <4>2, <4>4
      <4>6. mode' = "Spin" => s < Current'
        BY <1>1, <1>5, <2>1, <2>2, <3>1, <4>2
      <4> QED
        BY <4>5, <4>6
    <3> QED
      BY <3>4, <3>5
  <2> QED
    BY <1>2, <1>3, <1>6, <1>10, <2>1, <2>3, <2>4 DEF TurnInv
<1> QED
  BY <1>9, <1>10

(* Every step keeps the account of turns.                                  *)
LEMMA TurnStep ==
  ASSUME ControlOK, FlagsOK, QueuesOK, PaceInv, TurnInv, ControlOK', QueuesOK', Next
  PROVE  TurnInv'
<1>1. ASSUME UNCHANGED <<mode, pc, ready, left, passed>>,
             \A s \in Sockets : queue'[s] = <<>> => queue[s] = <<>>,
             \A s \in Sockets : pc = "dead" => queue'[s] = queue[s]
      PROVE  TurnInv'
  BY <1>1 DEF TurnInv, Ahead, Behind, Owed, Current, NoSocketStarves
<1>2. ASSUME UNCHANGED <<mode, queue, passed>>, pc \notin {"drain", "dead"}, pc' \notin {"drain", "dead"}
      PROVE  TurnInv'
  BY <1>2 DEF TurnInv, Owed
<1>3. ASSUME UNCHANGED <<mode, queue, passed>>, pc' = "dead" PROVE TurnInv'
  <2>1. NoSocketStarves'
    BY <1>3, TurnsBounded DEF NoSocketStarves
  <2> QED
    BY <1>3, <2>1 DEF TurnInv
<1>4. CASE SpinRound
  <2>1. pc = "round" /\ Visit(Sockets) /\ UNCHANGED <<mode, queue, passed>>
    BY <1>4 DEF SpinRound, network, history
  <2> QED
    BY <2>1, RoundOpens
<1>5. CASE BlockRound \/ StopSeen
  BY <1>2, <1>5 DEF BlockRound, StopSeen, network, history
<1>6. CASE PollReturns
  <2>1. /\ pc = "wait" /\ mode # "Spin" /\ UNCHANGED <<mode, queue, passed>>
        /\ (Readable # {} /\ Visit(Readable)) \/ Visit({})
    BY <1>6 DEF PollReturns, network, history, PaceInv
  <2>2. ASSUME NEW s \in Sockets \ Readable PROVE passed[s] = 0
    BY DEF Readable, TurnInv
  <2>3. Readable \in SUBSET Sockets
    BY DEF Readable
  <2>4. CASE Visit(Readable)
    BY <2>1, <2>2, <2>3, <2>4, RoundOpens
  <2>5. CASE Visit({})
    BY <1>2, <2>1, <2>5 DEF Visit
  <2> QED
    BY <2>1, <2>4, <2>5
<1>7. CASE PollFails \/ RecvFatal
  BY <1>3, <1>7 DEF PollFails, RecvFatal, network, history
<1>8. CASE RecvDatagram
  <2>1. /\ pc = "drain" /\ left > 0 /\ UNCHANGED <<mode, pc, ready>> /\ left' = left - 1
        /\ queue' = [queue EXCEPT ![Current] = Tail(@)]
        /\ passed' = [s \in Sockets |-> IF s = Current \/ queue[s] = <<>> THEN 0 ELSE passed[s] + 1]
    BY <1>8 DEF RecvDatagram, SpendTurn
  <2>2. Current \in Sockets /\ (\A s \in Sockets : passed[s] \in Nat)
    BY <2>1, CurrentSocket DEF QueuesOK
  <2>3. passed'[Current] = 0
    BY <2>1, <2>2
  <2>4. \A s \in Sockets : passed'[s] <= passed[s] + 1
    BY <2>1, <2>2
  <2>5. ASSUME NEW s \in Sockets, queue'[s] = <<>> PROVE passed'[s] = 0
    <3>1. s = Current \/ queue[s] = <<>>
      BY <2>1, <2>2, <2>5 DEF QueuesOK
    <3> QED
      BY <2>1, <3>1
  <2> QED
    BY <2>1, <2>3, <2>4, <2>5, TurnTaken
<1>9. CASE RecvTransient
  <2>1. /\ pc = "drain" /\ left > 0 /\ UNCHANGED <<mode, pc, ready, queue>> /\ left' = left - 1
        /\ passed' = [passed EXCEPT ![Current] = 0]
    BY <1>9 DEF RecvTransient, SpendTurn
  <2>2. Current \in Sockets /\ (\A s \in Sockets : passed[s] \in Nat) /\ passed \in [Sockets -> Nat]
    BY <2>1, CurrentSocket DEF QueuesOK
  <2>3. passed'[Current] = 0
    BY <2>1, <2>2
  <2>4. \A s \in Sockets : passed'[s] = 0 \/ passed'[s] = passed[s]
    BY <2>1, <2>2
  <2>5. \A s \in Sockets : passed'[s] <= passed[s] + 1
    BY <2>2, <2>4
  <2>6. \A s \in Sockets : queue'[s] = <<>> => passed'[s] = 0
    BY <2>1, <2>4 DEF TurnInv
  <2> QED
    BY <2>1, <2>3, <2>5, <2>6, TurnTaken
<1>10. CASE NextSocket
  BY <1>10, TurnPasses
<1>11. CASE Beat \/ NoBeat
  BY <1>2, <1>11 DEF Beat, NoBeat, EndRound, network
<1>12. CASE Environment
  <2>1. UNCHANGED <<mode, pc, ready, left, passed>> /\ pc # "dead"
    BY <1>12 DEF Environment, PassTime, Arrive, SocketError, StepClock, AskToStop, receiver, history
  <2>2. ASSUME NEW s \in Sockets, queue'[s] = <<>> PROVE queue[s] = <<>>
    <3>1. CASE UNCHANGED queue
      BY <2>2, <3>1
    <3>2. ASSUME NEW t \in Sockets, NEW v \in Variants \cup {Ordinary}, Arrive(t, v)
          PROVE  queue[s] = <<>>
      <4> DEFINE d == [flaws |-> v.flaws, m4 |-> v.m4, at |-> time - v.delay]
      <4>1. queue' = queue \/ queue' = [queue EXCEPT ![t] = Append(@, d)]
        BY <3>2 DEF Arrive
      <4> HIDE DEF d
      <4>2. queue[t] \in Seq(Datagram) /\ queue \in [Sockets -> Seq(Datagram)]
        BY DEF QueuesOK
      <4>3. Append(queue[t], d) # <<>>
        BY <4>2
      <4> QED
        BY <2>2, <4>1, <4>2, <4>3
    <3> QED
      BY <1>12, <3>1, <3>2
      DEF Environment, PassTime, SocketError, StepClock, AskToStop, network
  <2> QED
    BY <1>1, <2>1, <2>2
<1> QED
  BY <1>4, <1>5, <1>6, <1>7, <1>8, <1>9, <1>10, <1>11, <1>12 DEF Next, Feed

-----------------------------------------------------------------------------
(***************************************************************************)
(* The record published.                                                   *)
(***************************************************************************)
(* A record is flagged STALE exactly when it is old, and carries the       *)
(* instant the exchange stamped.                                           *)
LEMMA StampedRecord ==
  ASSUME NEW d \in Datagram, NEW recv \in Nat, OutOK, StampsAfterEpoch => StaleMeansOld,
         StampsAfterEpoch => 0 <= d.at, Ingest(d, recv)
  PROVE  OutOK' /\ (StampsAfterEpoch => StaleMeansOld')
<1> DEFINE venueNs == AbsoluteNs((d.at + KstOffset) % Day, recv)
           stale   == Outcome(d) = "published" /\ ~d.m4 /\ IsStale(venueNs, recv)
<1>1. \/ UNCHANGED out
      \/ d.m4 /\ out' = [NoRecord EXCEPT !.stale = stale]
      \/ out' = [age |-> recv - d.at, error |-> venueNs - d.at, stale |-> stale, timed |-> TRUE]
           /\ Outcome(d) = "published" /\ ~d.m4
  BY DEF Ingest
<1>2. d.at \in Int
  BY DEF Datagram
<1>3. (d.at + KstOffset) % Day \in Int
  BY <1>2, Constants
<1>4. venueNs \in Nat
  BY <1>3, AbsoluteType
<1>5. CASE UNCHANGED out
  BY <1>5 DEF OutOK, StaleMeansOld
<1>6. CASE d.m4 /\ out' = [NoRecord EXCEPT !.stale = stale]
  <2>1. stale = FALSE
    BY <1>6
  <2> HIDE DEF stale
  <2>2. out' = [age |-> 0, error |-> 0, stale |-> FALSE, timed |-> FALSE]
    BY <1>6, <2>1 DEF NoRecord
  <2>3. OutOK'
    BY <2>2 DEF OutOK
  <2>4. out'.timed = FALSE /\ out'.stale = FALSE
    BY <2>2
  <2> QED
    BY <2>3, <2>4 DEF StaleMeansOld
<1>7. CASE /\ out' = [age |-> recv - d.at, error |-> venueNs - d.at, stale |-> stale, timed |-> TRUE]
           /\ Outcome(d) = "published" /\ ~d.m4
  <2>1. stale \in BOOLEAN
    OBVIOUS
  <2>2. OutOK'
    <3> HIDE DEF stale, venueNs
    <3>1. recv - d.at \in Int /\ venueNs - d.at \in Int
      BY <1>2, <1>4
    <3> QED
      BY <1>7, <2>1, <3>1 DEF OutOK
  <2>3. ASSUME StampsAfterEpoch, 2 * (recv - d.at) < Day, -2 * (recv - d.at) < Day
        PROVE  venueNs = d.at
    <3>1. d.at \in Nat
      BY <1>2, <2>3
    <3> QED
      BY <2>3, <3>1, NearestDay
  <2>4. venueNs = d.at => (stale <=> StaleAge # 0 /\ recv - d.at > StaleAge)
    <3>1. venueNs = d.at => (IsStale(venueNs, recv) <=> StaleAge # 0 /\ recv - d.at > StaleAge)
      BY <1>2, <1>4, Constants DEF IsStale, Saturating
    <3> QED
      BY <1>7, <3>1
  <2>5. out'.age = recv - d.at /\ out'.error = venueNs - d.at /\ (out'.stale <=> stale) /\ out'.timed
    <3> HIDE DEF stale, venueNs
    <3> QED
      BY <1>7
  <2> HIDE DEF stale, venueNs
  <2>6. StampsAfterEpoch => StaleMeansOld'
    BY <1>2, <2>3, <2>4, <2>5 DEF StaleMeansOld
  <2> QED
    BY <2>2, <2>6
<1> QED
  BY <1>1, <1>5, <1>6, <1>7

(* The last record is what the last datagram made it, until the round ends. *)
LEMMA OutStep ==
  ASSUME ControlOK, QueuesOK, ClockOK, StampInv, OutOK, StampsAfterEpoch => StaleMeansOld, Next
  PROVE  OutOK' /\ (StampsAfterEpoch => StaleMeansOld')
<1>1. CASE UNCHANGED out
  BY <1>1 DEF OutOK, StaleMeansOld
<1>2. CASE Beat \/ NoBeat
  <2>1. out' = [age |-> 0, error |-> 0, stale |-> FALSE, timed |-> FALSE]
    BY <1>2 DEF Beat, NoBeat, EndRound, NoRecord
  <2>2. OutOK'
    BY <2>1 DEF OutOK
  <2>3. out'.timed = FALSE /\ out'.stale = FALSE
    BY <2>1
  <2> QED
    BY <2>2, <2>3 DEF StaleMeansOld
<1>3. CASE RecvDatagram
  <2> DEFINE d == Head(queue[Current])
  <2>1. Current \in Sockets /\ queue[Current] # <<>> /\ Ingest(d, NowNs)
    BY <1>3, CurrentSocket DEF RecvDatagram
  <2>2. queue[Current] \in Seq(Datagram)
    BY <2>1 DEF QueuesOK
  <2>3. d \in Datagram /\ 1 \in 1 .. Len(queue[Current]) /\ d = queue[Current][1]
    BY <2>1, <2>2
  <2>4. StampsAfterEpoch => 0 <= d.at
    BY <2>1, <2>3 DEF StampInv
  <2>5. NowNs \in Nat
    BY Constants DEF ClockOK, NowNs
  <2> HIDE DEF d
  <2> QED
    BY <2>1, <2>3, <2>4, <2>5, StampedRecord
<1>4. CASE \/ SpinRound \/ BlockRound \/ PollReturns \/ PollFails
           \/ RecvTransient \/ RecvFatal \/ NextSocket \/ StopSeen
  BY <1>1, <1>4 DEF SpinRound, BlockRound, PollReturns, PollFails, RecvTransient, RecvFatal,
     NextSocket, StopSeen, history
<1>5. CASE Environment
  BY <1>1, <1>5 DEF Environment, PassTime, Arrive, SocketError, StepClock, AskToStop, history
<1> QED
  BY <1>2, <1>3, <1>4, <1>5 DEF Next, Feed

-----------------------------------------------------------------------------
(***************************************************************************)
(* The invariant, and what follows from it.                                *)
(***************************************************************************)
TypeInv  == ControlOK /\ FlagsOK /\ CountsOK /\ QueuesOK /\ ClockOK /\ OutOK
TimeInv  == SkewInv /\ PaceInv /\ ReadInv /\ StopInv /\ LagInv
TrafficInv == TallyInv /\ Totals /\ TurnInv /\ StampInv /\ (StampsAfterEpoch => StaleMeansOld)

SafetyInv == TypeInv /\ TimeInv /\ TrafficInv

(* The feed starts with nothing received and the liveness record due.      *)
LEMMA InitSafety == Init => SafetyInv
<1> SUFFICES ASSUME Init PROVE SafetyInv
  OBVIOUS
<1> USE Constants, WaitBounded
<1>1. ControlOK
  BY DEF Init, ControlOK
<1>2. FlagsOK
  BY DEF Init, FlagsOK
<1>3. CountsOK /\ TallyInv
  <2>1. [received |-> 0, published |-> 0, errors |-> 0] \in [received : Nat, published : Nat, errors : Nat]
    OBVIOUS
  <2>2. channels \in [Sockets -> [received : Nat, published : Nat, errors : Nat]]
    BY <2>1 DEF Init
  <2>3. stats \in [Counters -> Nat] /\ \A c \in Counters : stats[c] = 0
    BY DEF Init
  <2>4. carried \in Nat /\ drops = carried /\ ringSeq = 0
    BY KrxConfigAssumption DEF Init
  <2>5. TallyInv
    BY <2>3, <2>4 DEF TallyInv, DroppedOf, FilteredOf, Counters, Outcomes, Dropped, Filtered
  <2> QED
    BY <2>2, <2>3, <2>4, <2>5 DEF Init, CountsOK
<1>4. QueuesOK /\ StampInv
  <2>1. /\ queue \in [Sockets -> Seq(Datagram)] /\ (\A s \in Sockets : queue[s] = <<>>)
        /\ passed \in [Sockets -> Nat]
    BY DEF Init
  <2>2. \A s \in Sockets : Len(queue[s]) = 0
    BY <2>1
  <2> QED
    BY <2>1, <2>2 DEF Init, QueuesOK, StampInv
<1>5. ClockOK
  BY DEF Init, ClockOK, Readings
<1>6. OutOK /\ StaleMeansOld
  <2>1. out = [age |-> 0, error |-> 0, stale |-> FALSE, timed |-> FALSE]
    BY DEF Init, NoRecord
  <2>2. OutOK
    BY <2>1 DEF OutOK
  <2>3. out.timed = FALSE /\ out.stale = FALSE
    BY <2>1
  <2> QED
    BY <2>2, <2>3 DEF StaleMeansOld
<1>7. SkewInv
  BY DEF Init, SkewInv, Saturating
<1>8. PaceInv
  BY DEF Init, PaceInv
<1>9. ReadInv
  <2>1. reading.at = Epoch /\ reading.back = 0 /\ reading.forth = 0 /\ lastBeat = reading
    BY DEF Init
  <2>2. stats["heartbeats"] = 0 /\ nextBeat = 0 /\ latest = None /\ back = 0 /\ forth = 0
    BY DEF Init, Counters
  <2> QED
    BY <2>1, <2>2 DEF ReadInv, Raw
<1>10. StopInv
  BY DEF Init, StopInv
<1>11. LagInv
  <2>1. time = Epoch /\ lastBeat.at = Epoch /\ lastBeat.back = 0 /\ back = 0 /\ waited = 0
          /\ One(worked) = 0
    BY DEF Init, One
  <2> QED
    BY <2>1 DEF LagInv
<1>13. Totals
  <2>1. \A s \in Sockets : channels[s].received = 0 /\ channels[s].published = 0 /\ channels[s].errors = 0
    BY DEF Init
  <2>2. \A s \in Sockets : Len(queue[s]) = 0
    BY DEF Init
  <2>3. /\ [s \in Sockets |-> channels[s].received] = [s \in Sockets |-> 0]
        /\ [s \in Sockets |-> channels[s].published] = [s \in Sockets |-> 0]
        /\ [s \in Sockets |-> channels[s].errors] = [s \in Sockets |-> 0]
        /\ [s \in Sockets |-> Len(queue[s])] = [s \in Sockets |-> 0]
    BY <2>1, <2>2
  <2>4. stats["received"] = 0 /\ stats["published"] = 0 /\ stats["socket_errors"] = 0
    BY DEF Init, Counters, Outcomes
  <2> QED
    BY <2>3, <2>4, TotalOfNone DEF Init, Totals
<1>12. TurnInv
  <2>1. pc = "round" /\ \A s \in Sockets : passed[s] = 0
    BY DEF Init
  <2>2. \A s \in Sockets : 0 <= Bursts(Owed(s))
    BY OwedType
  <2> QED
    BY <2>1, <2>2 DEF TurnInv
<1> QED
  BY <1>1, <1>2, <1>3, <1>4, <1>5, <1>6, <1>7, <1>8, <1>9, <1>10, <1>11, <1>12, <1>13
  DEF SafetyInv, TypeInv, TimeInv, TrafficInv

(* Every step keeps every part.                                            *)
LEMMA SafetyStep ==
  ASSUME SafetyInv, [Next]_vars
  PROVE  SafetyInv'
<1>1. CASE Next
  <2>1. /\ ControlOK /\ FlagsOK /\ CountsOK /\ QueuesOK /\ ClockOK /\ OutOK
        /\ SkewInv /\ PaceInv /\ ReadInv /\ StopInv /\ LagInv
        /\ TallyInv /\ Totals /\ TurnInv /\ StampInv /\ (StampsAfterEpoch => StaleMeansOld)
    BY DEF SafetyInv, TypeInv, TimeInv, TrafficInv
  <2>2. ControlOK' /\ FlagsOK' /\ CountsOK' /\ TallyInv'
    BY <1>1, <2>1, ControlStep, FlagsStep, CountsStep
  <2>3. QueuesOK' /\ StampInv' /\ ClockOK' /\ SkewInv'
    BY <1>1, <2>1, QueuesStep, ClockTypes
  <2>7. Totals'
    BY <1>1, <2>1, <2>2, <2>3, TotalsStep
  <2>4. PaceInv' /\ StopInv' /\ ReadInv' /\ LagInv'
    BY <1>1, <2>1, PaceStep, ReadStep, LagStep
  <2>5. TurnInv'
    BY <1>1, <2>1, <2>2, <2>3, TurnStep
  <2>6. OutOK' /\ (StampsAfterEpoch => StaleMeansOld')
    BY <1>1, <2>1, OutStep
  <2> QED
    BY <2>2, <2>3, <2>4, <2>5, <2>6, <2>7 DEF SafetyInv, TypeInv, TimeInv, TrafficInv
<1>2. CASE UNCHANGED vars
  <2> USE <1>2 DEF vars, steps, receiver, pipeline, network, pacing, history
  <2>1. TypeInv'
    BY DEF SafetyInv, TypeInv, ControlOK, FlagsOK, CountsOK, QueuesOK, ClockOK, OutOK
  <2>2. TimeInv'
    BY DEF SafetyInv, TimeInv, SkewInv, PaceInv, ReadInv, StopInv, LagInv, Shown, Raw
  <2>3. TrafficInv'
    BY DEF SafetyInv, TrafficInv, TallyInv, Totals, TurnInv, StampInv, StaleMeansOld, NoSocketStarves,
       Ahead, Behind, Owed, Current
  <2> QED
    BY <2>1, <2>2, <2>3 DEF SafetyInv
<1> QED
  BY <1>1, <1>2

(* The invariant holds throughout.                                         *)
LEMMA SafetyInvariant == Spec => []SafetyInv
<1>1. SafetyInv /\ [Next]_vars => SafetyInv'
  BY SafetyStep
<1> QED
  BY <1>1, InitSafety, PTL DEF Spec

(* Type correctness: the buffers, turns and counters of the feed keep      *)
(* their kinds and bounds, for any number of sockets.                      *)
THEOREM TypeCorrect == Spec => []KrxTypeOK
<1>1. SafetyInv => KrxTypeOK
  BY DEF SafetyInv, TypeInv, ControlOK, FlagsOK, CountsOK, QueuesOK, ClockOK, OutOK, KrxTypeOK
<1> QED
  BY <1>1, SafetyInvariant, PTL

(* A stop is prompt: whatever the liveness interval, and however busy the  *)
(* sockets, the feed ends within one bounded wait (Receiver::run_until,    *)
(* Config::poll_timeout_ms).                                               *)
THEOREM PromptStop == Spec => []StopIsPrompt
<1>1. SafetyInv => StopIsPrompt
  <2> SUFFICES ASSUME SafetyInv, stop, pc \notin ended PROVE time - stopAt <= MaxWait + 1
    BY DEF StopIsPrompt
  <2>1. /\ time \in Int /\ stopAt \in Int /\ waited \in 0..MaxWait /\ MaxWait \in Nat
        /\ One(worked) \in {0, 1}
    BY Constants DEF SafetyInv, TypeInv, ClockOK, One
  <2> QED
    BY <2>1 DEF SafetyInv, TimeInv, StopInv
<1> QED
  BY <1>1, SafetyInvariant, PTL

(* No socket starves, whatever the number of sockets, the burst and the    *)
(* order in which datagrams and errors arrive (Receiver::drain).           *)
THEOREM NobodyStarves == Spec => []NoSocketStarves
<1>1. SafetyInv => NoSocketStarves
  BY TurnsBounded DEF SafetyInv, TypeInv, TrafficInv
<1> QED
  BY <1>1, SafetyInvariant, PTL

(* The liveness record keeps its cadence, as long as the system clock is   *)
(* not stepped back before 1970, where it would stand still                *)
(* (Receiver::poll_once, beat, clock::now_ns).                             *)
THEOREM CadenceKept ==
  ASSUME ClockAfterEpoch
  PROVE  Spec => []BeatCadence
<1>1. SafetyInv => BeatCadence
  <2> SUFFICES ASSUME SafetyInv, pc \notin ended, Heartbeat # 0
               PROVE  time - lastBeat.at <=
                        Heartbeat + (back - lastBeat.back) + 1 + (IF mode = "Block" THEN PollTimeout ELSE 0)
    BY DEF BeatCadence
  <2>1. /\ time \in Int /\ back \in Int /\ waited \in Int /\ One(worked) \in {0, 1}
        /\ lastBeat.at \in Int /\ lastBeat.back \in Int /\ PollTimeout \in Nat /\ Heartbeat \in Int
    BY Constants, WaitBounded DEF SafetyInv, TypeInv, ClockOK, Readings, One
  <2>2. time - lastBeat.at <= Heartbeat + (back - lastBeat.back) + waited + One(worked)
    BY DEF SafetyInv, TimeInv, LagInv
  <2>3. waited <= (IF mode = "Block" THEN PollTimeout ELSE 0)
    <3>1. mode \in {"Spin", "Block"}
      BY KrxConfigAssumption DEF SafetyInv, TypeInv, ControlOK
    <3> QED
      BY <3>1 DEF SafetyInv, TimeInv, PaceInv
  <2> QED
    BY <2>1, <2>2, <2>3
<1> QED
  BY <1>1, SafetyInvariant, PTL

(* A loop that fell behind does not catch up: two liveness records are at  *)
(* least the interval apart, less what the clock was stepped forward in    *)
(* between (Receiver::beat).                                               *)
THEOREM NoBurstOfBeats == Spec => BeatsNotBunched
<1> DEFINE Apart == stats'["heartbeats"] > stats["heartbeats"] /\ stats["heartbeats"] > 0 =>
                      lastBeat'.at - lastBeat.at >= Heartbeat - (lastBeat'.forth - lastBeat.forth)
<1>1. ASSUME SafetyInv, [Next]_vars PROVE [Apart]_vars
  <2>0. SUFFICES ASSUME Next, stats'["heartbeats"] > stats["heartbeats"], stats["heartbeats"] > 0
                 PROVE  lastBeat'.at - lastBeat.at >= Heartbeat - (lastBeat'.forth - lastBeat.forth)
    BY <1>1
  <2>1. ControlOK /\ CountsOK /\ ClockOK /\ SkewInv /\ ReadInv
    BY <1>1 DEF SafetyInv, TypeInv, TimeInv
  <2>2. stats["heartbeats"] \in Nat /\ Heartbeat \in Nat
    BY <2>1, Constants DEF CountsOK, Counters
  <2>3. Beat
    <3>1. ~(stats'["heartbeats"] = stats["heartbeats"])
      BY <2>0, <2>2
    <3>2. ~RecvDatagram /\ ~NoBeat /\ ~Still
      BY <2>1, <3>1, ReadMoves, NoBeatMoves DEF Still
    <3>3. ~PassTime /\ ~AskToStop /\ ~(\E k \in Steps : StepClock(k))
      BY <3>1 DEF PassTime, AskToStop, StepClock, pipeline
    <3> QED
      BY <2>0, <2>1, <3>2, <3>3, StillSteps DEF Next, Feed, Environment
  <2> DEFINE r == IF latest = None THEN Reading ELSE reading
  <2>4. lastBeat' = r /\ Now >= nextBeat /\ Heartbeat # 0
    BY <2>1, <2>3, BeatMoves
  <2>5. Now = Shown(r) /\ nextBeat = Shown(lastBeat) + Heartbeat
    BY <2>0, <2>1, <2>2, ClockShown DEF ReadInv, Now
  <2>6. r \in Readings /\ lastBeat \in Readings
    BY <2>1, ClockShown DEF ClockOK
  <2>7. lastBeat.back <= r.back
    <3>1. Reading.back = back
      BY DEF Reading
    <3> QED
      BY <2>1, <2>6, <3>1 DEF ReadInv, ClockOK, Readings
  <2> HIDE DEF r
  <2>8. /\ r.at \in Int /\ r.back \in Nat /\ r.forth \in Nat
        /\ lastBeat.at \in Int /\ lastBeat.back \in Nat /\ lastBeat.forth \in Nat
    BY <2>6 DEF Readings
  <2>9. Raw(r) >= Raw(lastBeat) + Heartbeat
    BY <2>2, <2>4, <2>5, <2>8 DEF Shown, Raw
  <2> QED
    BY <2>2, <2>4, <2>7, <2>8, <2>9 DEF Raw
<1> QED
  BY <1>1, SafetyInvariant, PTL DEF BeatsNotBunched, Spec

(* STALE means old, midnight or not, for every datagram the exchange       *)
(* stamps after 1970 (clock::absolute_ns, mark_stale).                     *)
THEOREM StaleIsOld ==
  ASSUME StampsAfterEpoch
  PROVE  Spec => []StaleMeansOld
<1>1. SafetyInv => StaleMeansOld
  BY DEF SafetyInv, TrafficInv
<1> QED
  BY <1>1, SafetyInvariant, PTL

(* Every counter tells the same story, for any number of sockets and any   *)
(* traffic: what the sockets count adds up to what the pipeline counts,    *)
(* every datagram received has one outcome, the segment's drop counter is  *)
(* what it was when the segment was taken over, whatever that was, plus    *)
(* every datagram this run wanted and could not deliver and nothing else,  *)
(* the ring holds what was published and the liveness records, and every   *)
(* datagram the venue sent was received, waits in a buffer or found it     *)
(* full (Pipeline::ingest, Receiver::drain, Receiver::beat).               *)
THEOREM EveryCounterAgrees == Spec => []CountersAgree
<1>1. SafetyInv => CountersAgree
  BY DEF SafetyInv, TrafficInv, TallyInv, Totals, CountersAgree
<1> QED
  BY <1>1, SafetyInvariant, PTL
=============================================================================

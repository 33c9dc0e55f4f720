--------------------------- MODULE CryptoFeedProofs ---------------------------
(***************************************************************************)
(* Safety of CryptoFeed for every venue, every interval and every limit.   *)
(***************************************************************************)
EXTENDS CryptoFeed, TLAPS

-----------------------------------------------------------------------------
(* Where the thread is says what the connection and the counters are.  An  *)
(* open is seen by run() before a socket can be read, and the ticket and   *)
(* the sleep belong to a link that is down.                                *)
PlaceInv ==
  /\ pc \in {"poll", "sleep"} => link = "Down"
  /\ pc \in {"burst", "subscribe"} => link = "Open"
  /\ "opens" \in moved => pc = "beat" /\ link = "Open"

\* Everything has been asked for on this connection.
AllAsked == "streams" \in asked /\ (Has("rest") => "books" \in asked)

AskInv ==
  /\ link = "Open" /\ pc \in {"top", "burst"} => AllAsked
  /\ link = "Open" /\ pc = "beat" /\ "opens" \notin moved => AllAsked
  /\ link = "Open" /\ pc = "books" => "streams" \in asked

\* How far the liveness record can be overdue at each place of a pass.
BeatInv ==
  /\ pc \in {"subscribe", "books"} => timer.beat >= 1
  /\ pc = "sleep" => timer.beat >= 1 - RestTime
  /\ pc = "top" /\ link = "Open" => timer.beat >= 1 - RestTime
  /\ pc \in {"top", "done"} => timer.beat >= -RestTime
  /\ pc = "poll" => timer.beat >= -(2 * RestTime)
  /\ pc = "burst" => timer.beat >= -RestTime
  /\ pc = "beat" => timer.beat >= -(2 * RestTime) - DialTime

\* The clock of the silence rule is that of the last frame taken, and a burst
\* that has taken one knows it.
QuietInv ==
  /\ timer.quiet = timer.idle
  /\ pc = "burst" /\ left < Burst => timer.quiet = 0

\* The parts gathered so far are the first of one message of this connection.
AsmInv ==
  /\ asm \in Seq(Frame)
  /\ \A i \in 1..Len(asm) : /\ asm[i].part = i - 1 /\ ~asm[i].fin /\ asm[i].fresh
                            /\ asm[i].op = IF i = 1 THEN "Text" ELSE "Cont"

(* The frames on the way, in order: the buffer, then the wire.  Frame 0 is  *)
(* the state of the assembly.                                              *)
Flying  == Len(buf) + Len(wire)
Nth(j)  == IF j <= Len(buf) THEN buf[j] ELSE wire[j - Len(buf)]
Told(k) == k = 0 \/ Nth(k).op \in {"Text", "Cont"}
Next1(f) == IF f.fin THEN 0 ELSE Least(f.part + 1, MaxParts + 1)
PartAfter(k) == IF k = 0 THEN Len(asm) ELSE Next1(Nth(k))

\* Frame k is the last data frame before frame j.
LastBefore(k, j) == Told(k) /\ \A i \in k + 1 .. j - 1 : ~Told(i)

\* A continuation carries the part after that of the data frame before it.
FlowInv ==
  link = "Open" =>
    /\ \A j \in 1..Flying : Nth(j).fresh /\ (Nth(j).op = "Text" => Nth(j).part = 0)
    /\ \A k \in 0..Flying : \A j \in k + 1 .. Flying :
         LastBefore(k, j) /\ Nth(j).op = "Cont" => Nth(j).part = Most(PartAfter(k), 1)
    /\ \A k \in 0..Flying : LastBefore(k, Flying + 1) => part = PartAfter(k)

SafetyInv ==
  /\ CryptoTypeOK /\ PlaceInv /\ AskInv /\ BeatInv /\ QuietInv /\ AsmInv /\ FlowInv

-----------------------------------------------------------------------------
(* The constants, one by one.                                              *)
LEMMA Constants ==
  /\ Ping \in Nat /\ Ping >= 1 /\ Keep \in Nat /\ Keep >= 1
  /\ Reconnect \in Nat /\ Reconnect >= 1 /\ RecordBeat \in Nat /\ RecordBeat >= 1
  /\ Burst \in Nat /\ Burst >= 1 /\ MaxParts \in Nat /\ MaxParts >= 1
  /\ MaxWaiting \in Nat /\ MaxWaiting >= 1
  /\ DialTime \in Nat /\ RestTime \in Nat
  /\ LongestRound \in Nat /\ LongestRound >= 1 /\ OldestAge \in Nat /\ OldestAge >= 2
BY CryptoAssumption DEF LongestRound, OldestAge

(* Time passes: the timers keep their ranges, the two ages run together,   *)
(* and the liveness record is overdue by no more than what has passed.     *)
LEMMA TimePasses ==
  ASSUME NEW t \in TimerType, NEW d \in Nat
  PROVE  /\ After(t, d) \in TimerType
         /\ t.quiet = t.idle => After(t, d).quiet = After(t, d).idle
         /\ After(t, d).beat >= t.beat - d
<1>1. /\ t.quiet \in 0..OldestAge /\ t.idle \in 0..OldestAge /\ t.dial \in 0..Reconnect
      /\ t.beat \in -LongestRound..RecordBeat /\ t.keep \in -1..Keep
      /\ t.ticket \in 0..Reconnect
  BY DEF TimerType
<1> DEFINE a == After(t, d)
<1>2. /\ a.quiet = IF link = "Open" THEN Least(t.quiet + d, OldestAge) ELSE 0
      /\ a.idle = IF link = "Open" THEN Least(t.idle + d, OldestAge) ELSE 0
      /\ a.lag = 0 /\ a.dial = Most(t.dial - d, 0)
      /\ a.beat = Most(t.beat - d, -LongestRound)
      /\ a.keep = Most(t.keep - d, -1)
      /\ a.ticket = Most(t.ticket - d, 0)
  BY DEF After
<1>3. /\ a.quiet \in 0..OldestAge /\ a.idle \in 0..OldestAge /\ a.lag \in 0..1
      /\ a.dial \in 0..Reconnect /\ a.beat \in -LongestRound..RecordBeat
      /\ a.keep \in -1..Keep /\ a.ticket \in 0..Reconnect /\ a.beat >= t.beat - d
  BY <1>1, <1>2, Constants DEF Least, Most
<1>4. a = [quiet |-> a.quiet, idle |-> a.idle, lag |-> a.lag, dial |-> a.dial,
           beat |-> a.beat, keep |-> a.keep, ticket |-> a.ticket]
  BY DEF After
<1> HIDE DEF a
<1>5. a \in TimerType
  BY <1>3, <1>4 DEF TimerType
<1>6. t.quiet = t.idle => a.quiet = a.idle
  BY <1>2
<1> QED
  BY <1>3, <1>5, <1>6 DEF a

(* A deadline set during a call is within its interval.                    *)
LEMMA InRange ==
  ASSUME NEW n \in Nat, NEW d \in Nat
  PROVE  In(n, d) \in 0..n
BY DEF In, Most

-----------------------------------------------------------------------------
(* The fields of a timer record, and a record with some of them replaced.  *)
LEMMA TimerFields ==
  ASSUME NEW t \in TimerType
  PROVE  /\ t.quiet \in 0..OldestAge /\ t.idle \in 0..OldestAge /\ t.lag \in 0..1
         /\ t.dial \in 0..Reconnect /\ t.beat \in -LongestRound..RecordBeat
         /\ t.keep \in -1..Keep /\ t.ticket \in 0..Reconnect
BY DEF TimerType

(* Where the thread is and what the connection is stay in step: no read is *)
(* tried on a socket that is down, no ticket fetched while one is open.    *)
LEMMA PlaceStep ==
  ASSUME CryptoTypeOK, PlaceInv, Next
  PROVE  PlaceInv'
<1> USE DEF PlaceInv, conn, remote
<1>1. CASE RenewTicket
  BY <1>1 DEF RenewTicket, TicketFetched, TicketFails, TicketTime
<1>2. CASE TryConnect
  BY <1>2 DEF TryConnect, BackOff, DialFails, Connect, Polling
<1>3. CASE Pump
  <2>1. ASSUME NEW k \in 1..MaxWaiting, NEW d \in 0..1, FillReads(k, d) PROVE PlaceInv'
    BY <2>1 DEF FillReads, Pumping, Polling
  <2>2. CASE FillEmpty BY <2>2 DEF FillEmpty, Pumping, Polling
  <2>3. CASE FillFails BY <2>3 DEF FillFails, Fail, DropLink, Pumping, Polling
  <2>4. CASE TakeControl \/ TakeWhole \/ TakeFragment \/ TakeLast
    BY <2>4 DEF TakeControl, TakeWhole, TakeFragment, TakeLast, Bursting
  <2>5. CASE PongFails \/ TakeEnds
    BY <2>5 DEF PongFails, TakeEnds, Fail, DropLink, Bursting
  <2> QED BY <1>3, <2>1, <2>2, <2>3, <2>4, <2>5 DEF Pump, OnFrame
<1>4. CASE Tick
  BY <1>4 DEF Tick, PeerSilent, TickSends, TickFails, Ticking, Fail, DropLink
<1>5. CASE EndRound
  BY <1>5 DEF EndRound, Opened, CryptoTypeOK
<1>6. CASE AskVenue
  BY <1>6 DEF AskVenue, Subscribe, SubscribeFails, StartBooks, AfterAsking, Fail, DropLink,
     CryptoTypeOK
<1>7. CASE Sleep \/ Shutdown \/ StopAsked
  BY <1>7 DEF Sleep, Shutdown, StopAsked, DropLink
<1>8. CASE Venue
  BY <1>8 DEF Venue, VenueSendsControl, VenueStarts, VenueContinues, VenueLeaves, TicketLapses,
     Sends
<1> QED
  BY <1>1, <1>2, <1>3, <1>4, <1>5, <1>6, <1>7, <1>8 DEF Next, Feed

(* Nothing is read before everything was asked for on this connection.     *)
LEMMA AskStep ==
  ASSUME CryptoTypeOK, PlaceInv, AskInv, Next
  PROVE  AskInv'
<1> USE DEF AskInv, AllAsked, conn, remote, Has
<1>1. CASE RenewTicket
  BY <1>1 DEF RenewTicket, TicketFetched, TicketFails, TicketTime
<1>2. CASE TryConnect
  BY <1>2 DEF TryConnect, BackOff, DialFails, Connect, Polling
<1>3. CASE Pump
  <2>1. ASSUME NEW k \in 1..MaxWaiting, NEW d \in 0..1, FillReads(k, d) PROVE AskInv'
    BY <2>1 DEF FillReads, Pumping, Polling, PlaceInv
  <2>2. CASE FillEmpty BY <2>2 DEF FillEmpty, Pumping, Polling, PlaceInv
  <2>3. CASE FillFails BY <2>3 DEF FillFails, Fail, DropLink
  <2>4. CASE TakeControl \/ TakeWhole \/ TakeFragment \/ TakeLast
    BY <2>4 DEF TakeControl, TakeWhole, TakeFragment, TakeLast, Bursting
  <2>5. CASE PongFails \/ TakeEnds
    BY <2>5 DEF PongFails, TakeEnds, Fail, DropLink
  <2> QED BY <1>3, <2>1, <2>2, <2>3, <2>4, <2>5 DEF Pump, OnFrame
<1>4. CASE Tick
  BY <1>4 DEF Tick, PeerSilent, TickSends, TickFails, Ticking, Fail, DropLink
<1>5. CASE EndRound
  BY <1>5 DEF EndRound, Opened, PlaceInv
<1>6. CASE AskVenue
  BY <1>6 DEF AskVenue, Subscribe, SubscribeFails, StartBooks, AfterAsking, Fail, DropLink,
     CryptoTypeOK
<1>7. CASE Sleep \/ Shutdown \/ StopAsked
  BY <1>7 DEF Sleep, Shutdown, StopAsked, DropLink, PlaceInv
<1>8. CASE Venue
  BY <1>8 DEF Venue, VenueSendsControl, VenueStarts, VenueContinues, VenueLeaves, TicketLapses,
     Sends
<1> QED
  BY <1>1, <1>2, <1>3, <1>4, <1>5, <1>6, <1>7, <1>8 DEF Next, Feed

\* What is at stake when the timers move.
TimersOK == timer \in TimerType /\ left \in 0..Burst /\ BeatInv /\ QuietInv

(* No pass of the loop lets the liveness record wait for more than its own *)
(* blocking calls, and the silence rule's clock is the last frame's.       *)
LEMMA TimerStep ==
  ASSUME CryptoTypeOK, PlaceInv, BeatInv, QuietInv, Next
  PROVE  TimersOK'
<1>ty. timer \in TimerType /\ left \in 0..Burst /\ link \in {"Down", "Open"}
  BY DEF CryptoTypeOK
<1>f. /\ timer.quiet \in 0..OldestAge /\ timer.idle \in 0..OldestAge /\ timer.lag \in 0..1
      /\ timer.dial \in 0..Reconnect /\ timer.beat \in -LongestRound..RecordBeat
      /\ timer.keep \in -1..Keep /\ timer.ticket \in 0..Reconnect
  BY <1>ty, TimerFields
<1> USE Constants DEF TimersOK, BeatInv, QuietInv
<1>1. CASE RenewTicket
  <2>1. PICK d \in 0..RestTime : TicketFetched(d) \/ TicketFails(d)
    BY <1>1 DEF RenewTicket
  <2> DEFINE a == After(timer, d)
  <2>2. a \in TimerType /\ a.quiet = a.idle /\ a.beat >= timer.beat - d
    BY <1>ty, TimePasses
  <2> HIDE DEF a
  <2>3. /\ timer' = a \/ timer' = [a EXCEPT !.ticket = In(Reconnect, d)]
        /\ pc' = "poll" /\ pc = "top" /\ left' = left /\ link' = link
    BY <2>1 DEF TicketFetched, TicketFails, conn, a
  <2>4. timer' \in TimerType /\ timer'.quiet = timer'.idle /\ timer'.beat = a.beat
    BY <2>2, <2>3, InRange DEF TimerType
  <2> QED
    BY <2>2, <2>3, <2>4, <1>ty, <1>f, TimerFields
<1>2. CASE TryConnect
  <2>1. CASE BackOff
    BY <2>1, <1>ty, <1>f DEF BackOff, Polling, conn
  <2>2. ASSUME NEW d \in 0..DialTime, DialFails(d) \/ Connect(d) PROVE TimersOK'
    <3> DEFINE a == After(timer, d)
               m == Least(d, OldestAge)
    <3>1. a \in TimerType /\ a.quiet = a.idle /\ a.beat >= timer.beat - d
      BY <1>ty, TimePasses
    <3>2. m \in 0..OldestAge /\ In(Reconnect, d) \in 0..Reconnect
      BY InRange DEF Least
    <3>3. /\ \/ timer' = [a EXCEPT !.dial = In(Reconnect, d)]
             \/ timer' = [a EXCEPT !.dial = In(Reconnect, d), !.quiet = m, !.idle = m]
          /\ pc' = "beat" /\ pc \in {"top", "poll"} /\ left' = left
      BY <2>2 DEF DialFails, Connect, Polling
    <3> HIDE DEF a, m
    <3>4. timer' \in TimerType /\ timer'.quiet = timer'.idle /\ timer'.beat = a.beat
      BY <3>1, <3>2, <3>3 DEF TimerType
    <3> QED
      BY <3>1, <3>3, <3>4, <1>ty, <1>f, TimerFields
  <2> QED BY <1>2, <2>1, <2>2 DEF TryConnect
<1>3. CASE Pump
  <2>1. ASSUME NEW d \in 0..1, Pumping, left' = Burst, pc' = "burst",
               timer' = [After(timer, d) EXCEPT !.lag = d]
        PROVE  TimersOK'
    <3> DEFINE a == After(timer, d)
    <3>1. a \in TimerType /\ a.quiet = a.idle /\ a.beat >= timer.beat - d
      BY <1>ty, TimePasses
    <3> HIDE DEF a
    <3>2. timer' \in TimerType /\ timer'.quiet = timer'.idle /\ timer'.beat = a.beat
      BY <2>1, <3>1 DEF TimerType, a
    <3>3. pc = "top" /\ link = "Open"
      BY <2>1 DEF Pumping, Polling, PlaceInv
    <3> QED
      BY <2>1, <3>1, <3>2, <3>3, <1>f, TimerFields
  <2>2. ASSUME NEW k \in 1..MaxWaiting, NEW d \in 0..1, FillReads(k, d) PROVE TimersOK'
    BY <2>1, <2>2 DEF FillReads
  <2>3. CASE FillEmpty
    BY <2>1, <2>3 DEF FillEmpty
  <2>4. CASE FillFails
    <3> DEFINE a == After(timer, 0)
    <3>1. a \in TimerType /\ a.quiet = a.idle /\ a.beat >= timer.beat - 0
      BY <1>ty, TimePasses
    <3> HIDE DEF a
    <3>2. timer' = a /\ pc' = "beat" /\ left' = left /\ pc = "top"
      BY <2>4 DEF FillFails, Pumping, Polling, PlaceInv, a
    <3> QED
      BY <3>1, <3>2, <1>ty, <1>f, TimerFields
  <2>5. CASE OnFrame
    <3>1. /\ timer' = [timer EXCEPT !.quiet = 0, !.idle = 0]
          /\ pc = "burst" /\ left' \in 0..Burst
          /\ pc' = "burst" \/ pc' = "beat"
      BY <2>5, <1>ty DEF OnFrame, TakeControl, PongFails, TakeWhole, TakeFragment, TakeLast,
         TakeEnds, Consumed, Bursting
    <3>2. /\ timer' \in TimerType /\ timer'.quiet = 0 /\ timer'.idle = 0
          /\ timer'.beat = timer.beat
      <4>1. 0 \in 0..OldestAge
        OBVIOUS
      <4> QED
        BY <3>1, <4>1, <1>ty DEF TimerType
    <3> QED
      BY <3>1, <3>2, <1>f
  <2> QED BY <1>3, <2>2, <2>3, <2>4, <2>5 DEF Pump
<1>4. CASE Tick
  <2>1. /\ timer' = timer \/ timer' = [timer EXCEPT !.keep = In(Keep, timer.lag)]
        /\ pc = "burst" /\ pc' = "beat" /\ left' = left
    BY <1>4 DEF Tick, PeerSilent, TickSends, TickFails, Ticking
  <2>2. In(Keep, timer.lag) \in 0..Keep
    <3>1. timer.lag \in Nat
      BY <1>f
    <3> QED
      BY <3>1, InRange
  <2>3. timer' \in TimerType /\ timer'.quiet = timer'.idle /\ timer'.beat = timer.beat
    BY <2>1, <2>2, <1>ty DEF TimerType
  <2> QED
    BY <2>1, <2>3, <1>ty, <1>f
<1>5. CASE EndRound
  <2>1. /\ timer' = [timer EXCEPT !.lag = 0, !.beat = BeatRecord]
        /\ pc' \in {"subscribe", "sleep", "top"} /\ left' = 0
    BY <1>5 DEF EndRound
  <2>2. BeatRecord \in 1..RecordBeat
    BY <1>f DEF BeatRecord
  <2>3. timer' \in TimerType /\ timer'.quiet = timer'.idle /\ timer'.beat = BeatRecord
    <3>1. BeatRecord \in -LongestRound..RecordBeat /\ 0 \in 0..1
      BY <2>2
    <3> QED
      BY <2>1, <3>1, <1>ty DEF TimerType
  <2> QED
    BY <2>1, <2>2, <2>3
<1>6. CASE Subscribe \/ SubscribeFails
  <2>1. /\ timer' = timer /\ left' = left /\ pc = "subscribe"
        /\ pc' \in {"books", "sleep", "top"}
    BY <1>6 DEF Subscribe, SubscribeFails, AfterAsking
  <2> QED
    BY <2>1, <1>ty, <1>f
<1>7. ASSUME NEW d \in 0..RestTime, StartBooks(d) PROVE TimersOK'
  <2> DEFINE a == After(timer, d)
  <2>1. a \in TimerType /\ a.quiet = a.idle /\ a.beat >= timer.beat - d
    BY <1>ty, TimePasses
  <2> HIDE DEF a
  <2>2. timer' = a /\ pc = "books" /\ pc' \in {"sleep", "top"} /\ left' = left
    BY <1>7 DEF StartBooks, a
  <2> QED
    BY <2>1, <2>2, <1>ty, <1>f, TimerFields
<1>8. CASE Sleep
  <2> DEFINE a == After(timer, 1)
  <2>1. a \in TimerType /\ a.quiet = a.idle /\ a.beat >= timer.beat - 1
    BY <1>ty, TimePasses
  <2> HIDE DEF a
  <2>2. /\ timer' = a /\ pc = "sleep" /\ pc' = "top" /\ left' = left /\ link' = link
        /\ link = "Down"
    BY <1>8 DEF Sleep, PlaceInv, conn, a
  <2> QED
    BY <2>1, <2>2, <1>ty, <1>f, TimerFields
<1>9. CASE Shutdown \/ StopAsked \/ Venue
  <2>1. /\ timer' = timer /\ left' = left
        /\ \/ pc' = pc /\ link' = link
           \/ pc = "top" /\ pc' = "done"
    BY <1>9 DEF Shutdown, StopAsked, Venue, VenueSendsControl, VenueStarts, VenueContinues,
       VenueLeaves, TicketLapses, Sends, conn
  <2> QED
    BY <2>1, <1>ty, <1>f
<1> QED
  BY <1>1, <1>2, <1>3, <1>4, <1>5, <1>6, <1>7, <1>8, <1>9 DEF Next, Feed, AskVenue

-----------------------------------------------------------------------------
(* The frame at the head of the buffer, and what is left without it.       *)
LEMMA HeadOfBuffer ==
  ASSUME CryptoTypeOK, Bursting
  PROVE  /\ Head1 \in Frame /\ Len(buf) \in Nat \ {0} /\ Len(wire) \in Nat
         /\ Tail(buf) \in Seq(Frame) /\ Len(Tail(buf)) = Len(buf) - 1
         /\ \A i \in 1 .. Len(buf) - 1 : Tail(buf)[i] = buf[i + 1]
BY DEF CryptoTypeOK, Bursting, Head1

(* What the venue sends is a frame, and its numbering of parts stays in    *)
(* range.                                                                  *)
LEMMA VenueSends ==
  ASSUME CryptoTypeOK, VenueSendsControl \/ VenueStarts \/ VenueContinues
  PROVE  \E f \in Frame, p \in 0 .. MaxParts + 1 :
           /\ Sends(f, p) /\ f.fresh
           /\ \/ f.op \in {"Ping", "Close"} /\ p = part
              \/ f.op = "Text" /\ f.part = 0 /\ p = Next1(f)
              \/ f.op = "Cont" /\ f.part = Most(part, 1) /\ p = Next1(f)
<1> USE Constants
<1>p. part \in 0 .. MaxParts + 1
  BY DEF CryptoTypeOK
<1>1. CASE VenueSendsControl
  <2>1. PICK op \in {"Ping", "Close"} : Sends(Control(op), part)
    BY <1>1 DEF VenueSendsControl
  <2>2. Control(op) \in Frame /\ Control(op).fresh /\ Control(op).op = op
    BY DEF Control, Frame
  <2> QED
    BY <2>1, <2>2, <1>p
<1>2. CASE VenueStarts
  <2>1. PICK fin \in BOOLEAN : Sends(Data("Text", 0, fin), IF fin THEN 0 ELSE 1)
    BY <1>2 DEF VenueStarts
  <2> DEFINE f == Data("Text", 0, fin)
  <2>2. f \in Frame /\ f.fresh /\ f.op = "Text" /\ f.part = 0 /\ f.fin = fin
    BY DEF Data, Frame
  <2> HIDE DEF f
  <2>3. Next1(f) = IF fin THEN 0 ELSE 1
    BY <2>2 DEF Next1, Least
  <2>4. Next1(f) \in 0 .. MaxParts + 1
    BY <2>3
  <2>5. Sends(f, Next1(f))
    BY <2>1, <2>3 DEF f
  <2> QED
    BY <2>2, <2>4, <2>5
<1>3. CASE VenueContinues
  <2> DEFINE i == Most(part, 1)
  <2>1. PICK fin \in BOOLEAN :
          Sends(Data("Cont", i, fin), IF fin THEN 0 ELSE Least(i + 1, MaxParts + 1))
    BY <1>3 DEF VenueContinues
  <2>2. i \in 1 .. MaxParts + 1
    BY <1>p DEF Most
  <2> HIDE DEF i
  <2> DEFINE f == Data("Cont", i, fin)
  <2>3. f \in Frame /\ f.fresh /\ f.op = "Cont" /\ f.part = i /\ f.fin = fin
    BY <2>2 DEF Data, Frame
  <2> HIDE DEF f
  <2>4. Next1(f) = IF fin THEN 0 ELSE Least(i + 1, MaxParts + 1)
    BY <2>3 DEF Next1
  <2>5. Next1(f) \in 0 .. MaxParts + 1
    BY <2>2, <2>4 DEF Least
  <2>6. Sends(f, Next1(f))
    BY <2>1, <2>4 DEF f
  <2> QED
    BY <2>3, <2>5, <2>6 DEF i
<1> QED
  BY <1>1, <1>2, <1>3

(* A read moves frames from the wire to the buffer, in order.              *)
LEMMA ReadMoves ==
  ASSUME CryptoTypeOK, NEW k \in 1..MaxWaiting, NEW d \in 0..1, FillReads(k, d)
  PROVE  /\ buf' \in Seq(Frame) /\ wire' \in Seq(Frame)
         /\ Len(buf') = Len(buf) + k /\ Len(wire') = Len(wire) - k
         /\ k <= Len(wire)
         /\ \A j \in 1 .. Len(buf) + Len(wire) : Nth(j)' = Nth(j)
<1>1. /\ buf \in Seq(Frame) /\ wire \in Seq(Frame) /\ k \in 1..Len(wire)
      /\ buf' = buf \o SubSeq(wire, 1, k) /\ wire' = SubSeq(wire, k + 1, Len(wire))
  BY DEF FillReads, CryptoTypeOK
<1> DEFINE a == SubSeq(wire, 1, k)
           b == SubSeq(wire, k + 1, Len(wire))
<1>2. /\ a \in Seq(Frame) /\ Len(a) = k /\ \A i \in 1..k : a[i] = wire[i]
  BY <1>1
<1>3. /\ b \in Seq(Frame) /\ Len(b) = Len(wire) - k
      /\ \A i \in 1 .. Len(wire) - k : b[i] = wire[k + i]
  BY <1>1
<1>4. buf' = buf \o a /\ wire' = b
  BY <1>1
<1> HIDE DEF a, b
<1>5. /\ buf' \in Seq(Frame) /\ Len(buf') = Len(buf) + k
      /\ \A i \in 1..Len(buf) : buf'[i] = buf[i]
      /\ \A i \in Len(buf) + 1 .. Len(buf) + k : buf'[i] = a[i - Len(buf)]
  BY <1>1, <1>2, <1>4
<1>6. ASSUME NEW j \in 1 .. Len(buf) + Len(wire) PROVE Nth(j)' = Nth(j)
  <2>1. CASE j <= Len(buf)
    BY <1>1, <1>5, <2>1 DEF Nth
  <2>2. CASE j > Len(buf) /\ j <= Len(buf) + k
    <3>1. j - Len(buf) \in 1..k
      BY <1>1, <2>2
    <3> QED
      BY <1>1, <1>2, <1>5, <2>2, <3>1 DEF Nth
  <2>3. CASE j > Len(buf) + k
    <3>1. j - Len(buf) - k \in 1 .. Len(wire) - k /\ ~(j <= Len(buf)) /\ ~(j <= Len(buf) + k)
      BY <1>1, <2>3
    <3>2. k + (j - Len(buf) - k) = j - Len(buf) /\ j - (Len(buf) + k) = j - Len(buf) - k
      BY <1>1
    <3> QED
      BY <1>3, <1>4, <1>5, <3>1, <3>2 DEF Nth
  <2> QED
    BY <1>1, <2>1, <2>2, <2>3
<1>7. \A j \in 1 .. Len(buf) + Len(wire) : Nth(j)' = Nth(j)
  BY <1>6
<1>8. wire' \in Seq(Frame) /\ Len(wire') = Len(wire) - k /\ k <= Len(wire)
  BY <1>1, <1>3, <1>4
<1> QED
  BY <1>5, <1>7, <1>8

\* The parts of the type invariant.
ControlOK ==
  /\ venue \in Venues
  /\ pc \in {"top", "poll", "burst", "beat", "subscribe", "books", "sleep", "done"}
  /\ link \in {"Down", "Open"} /\ peer \in {"Gone", "Up", "Closed", "Dead"}
  /\ moved \subseteq {"opens", "disconnects"} /\ asked \subseteq {"streams", "books"}

FlagsOK == /\ stop \in BOOLEAN /\ pinged \in BOOLEAN
           /\ ticket \in [due : BOOLEAN, state : {"Unset", "Fresh", "Lapsed"}]

FramesOK ==
  /\ buf \in Seq(Frame) /\ wire \in Seq(Frame) /\ Len(buf) + Len(wire) <= MaxWaiting
  /\ asm \in Seq(Frame) /\ Len(asm) <= MaxParts
  /\ part \in 0..(MaxParts + 1)
  /\ link = "Down" => buf = <<>> /\ asm = <<>> /\ ~pinged

(* The thread's place, the link and the sets of what moved and was asked.  *)
LEMMA ControlStep ==
  ASSUME ControlOK, Next
  PROVE  ControlOK'
<1> USE DEF ControlOK, conn, remote
<1>1. CASE RenewTicket
  BY <1>1 DEF RenewTicket, TicketFetched, TicketFails
<1>2. CASE TryConnect
  BY <1>2 DEF TryConnect, BackOff, DialFails, Connect
<1>3. CASE Pump
  BY <1>3 DEF Pump, FillReads, FillEmpty, FillFails, OnFrame, TakeControl, PongFails, TakeWhole,
     TakeFragment, TakeLast, TakeEnds, Consumed, Fail, DropLink
<1>4. CASE Tick
  BY <1>4 DEF Tick, PeerSilent, TickSends, TickFails, Fail, DropLink
<1>5. CASE EndRound \/ AskVenue
  BY <1>5 DEF EndRound, AskVenue, Subscribe, SubscribeFails, StartBooks, AfterAsking, Fail,
     DropLink
<1>6. CASE Sleep \/ Shutdown \/ StopAsked
  BY <1>6 DEF Sleep, Shutdown, StopAsked, DropLink
<1>7. CASE Venue
  BY <1>7 DEF Venue, VenueSendsControl, VenueStarts, VenueContinues, VenueLeaves, TicketLapses,
     Sends
<1> QED
  BY <1>1, <1>2, <1>3, <1>4, <1>5, <1>6, <1>7 DEF Next, Feed

(* The flags and the ticket.                                               *)
LEMMA FlagsStep ==
  ASSUME FlagsOK, Next
  PROVE  FlagsOK'
<1> USE DEF FlagsOK, conn, remote
<1>1. ASSUME NEW d \in 0..RestTime, TicketFetched(d) \/ TicketFails(d) PROVE FlagsOK'
  <2>1. UNCHANGED <<stop, pinged>> /\ (ticket' = ticket \/ ticket' = [due |-> FALSE, state |-> "Fresh"])
    BY <1>1 DEF TicketFetched, TicketFails
  <2>2. [due |-> FALSE, state |-> "Fresh"] \in [due : BOOLEAN, state : {"Unset", "Fresh", "Lapsed"}]
    OBVIOUS
  <2> QED
    BY <2>1, <2>2
<1>2. CASE TryConnect
  BY <1>2 DEF TryConnect, BackOff, DialFails, Connect
<1>3. CASE Pump
  BY <1>3 DEF Pump, FillReads, FillEmpty, FillFails, OnFrame, TakeControl, PongFails, TakeWhole,
     TakeFragment, TakeLast, TakeEnds, Consumed, Fail, DropLink
<1>4. CASE PeerSilent \/ TickFails
  BY <1>4 DEF PeerSilent, TickFails, Fail, DropLink
<1>5. CASE TickSends
  <2>1. pinged' \in BOOLEAN
    BY <1>5, Zenon DEF TickSends
  <2> QED
    BY <1>5, <2>1 DEF TickSends
<1>6. CASE EndRound
  <2>1. Has("ticket") \in BOOLEAN
    BY DEF Has
  <2> QED
    BY <1>6, <2>1 DEF EndRound
<1>7. CASE AskVenue
  BY <1>7 DEF AskVenue, Subscribe, SubscribeFails, StartBooks, Fail, DropLink
<1>8. CASE Sleep \/ Shutdown \/ StopAsked
  BY <1>8 DEF Sleep, Shutdown, StopAsked, DropLink
<1>9. CASE Venue
  BY <1>9 DEF Venue, VenueSendsControl, VenueStarts, VenueContinues, VenueLeaves, TicketLapses,
     Sends
<1> QED
  BY <1>1, <1>2, <1>3, <1>4, <1>5, <1>6, <1>7, <1>8, <1>9 DEF Next, Feed, Tick, RenewTicket

(* The frames of a connection go with it, and the assembly never outgrows  *)
(* its buffer.                                                             *)
LEMMA FramesStep ==
  ASSUME CryptoTypeOK, FramesOK, Next
  PROVE  FramesOK'
<1> USE Constants
<1>1. ASSUME UNCHANGED <<buf, wire, asm, part, link, pinged>> PROVE FramesOK'
  BY <1>1 DEF FramesOK
<1>2. CASE RenewTicket \/ BackOff \/ (\E d \in 0..DialTime : DialFails(d)) \/ FillEmpty
           \/ EndRound \/ Subscribe \/ (\E d \in 0..RestTime : StartBooks(d)) \/ Sleep
           \/ VenueLeaves \/ TicketLapses \/ StopAsked
  <2>1. UNCHANGED <<buf, wire, asm, part, link, pinged>>
    BY <1>2 DEF RenewTicket, TicketFetched, TicketFails, BackOff, DialFails, FillEmpty, EndRound,
       Subscribe, StartBooks, Sleep, VenueLeaves, TicketLapses, StopAsked, conn, remote
  <2> QED BY <1>1, <2>1
<1>3. CASE FillFails \/ PongFails \/ TakeEnds \/ PeerSilent \/ TickFails \/ SubscribeFails
           \/ Shutdown
  <2>1. /\ link' = "Down" /\ buf' = <<>> /\ asm' = <<>> /\ pinged' = FALSE
        /\ wire' = <<>> /\ part' = 0
    BY <1>3 DEF FillFails, PongFails, TakeEnds, PeerSilent, TickFails, SubscribeFails, Shutdown,
       Fail, DropLink
  <2> QED BY <2>1 DEF FramesOK
<1>4. ASSUME NEW d \in 0..DialTime, Connect(d) PROVE FramesOK'
  <2>1. /\ buf = <<>> /\ buf' = [i \in 1..Len(buf) |-> [buf[i] EXCEPT !.fresh = FALSE]]
        /\ wire' = <<>> /\ asm' = <<>> /\ part' = 0 /\ link' = "Open"
    BY <1>4 DEF Connect, FramesOK
  <2>2. buf' = <<>>
    BY <2>1
  <2> QED
    BY <2>1, <2>2 DEF FramesOK
<1>5. ASSUME NEW k \in 1..MaxWaiting, NEW d \in 0..1, FillReads(k, d) PROVE FramesOK'
  <2>1. /\ buf' \in Seq(Frame) /\ wire' \in Seq(Frame)
        /\ Len(buf') = Len(buf) + k /\ Len(wire') = Len(wire) - k
    BY <1>5, ReadMoves
  <2>2. Len(buf') + Len(wire') <= MaxWaiting
    BY <2>1 DEF FramesOK
  <2>3. link' = "Open" /\ UNCHANGED <<asm, part>>
    BY <1>5 DEF FillReads, Pumping
  <2> QED
    BY <2>1, <2>2, <2>3 DEF FramesOK
<1>6. CASE TakeControl \/ TakeWhole \/ TakeFragment \/ TakeLast
  <2>1. Bursting /\ Consumed /\ UNCHANGED <<link, wire, part>>
    BY <1>6 DEF TakeControl, TakeWhole, TakeFragment, TakeLast, remote
  <2>2. /\ Head1 \in Frame /\ buf' \in Seq(Frame) /\ Len(buf') = Len(buf) - 1
        /\ Len(buf) \in Nat /\ Len(wire) \in Nat
    BY <2>1, HeadOfBuffer DEF Consumed
  <2>3. asm' \in Seq(Frame) /\ Len(asm') <= MaxParts
    <3>1. CASE TakeFragment
      <4>1. asm' = Append(asm, Head1) /\ Len(asm) # MaxParts
        BY <3>1 DEF TakeFragment, Refused
      <4> QED
        BY <4>1, <2>2 DEF FramesOK
    <3>2. CASE TakeControl \/ TakeWhole \/ TakeLast
      <4>1. asm' = asm \/ asm' = <<>>
        BY <3>2 DEF TakeControl, TakeWhole, TakeLast
      <4>2. <<>> \in Seq(Frame) /\ Len(<<>>) <= MaxParts
        OBVIOUS
      <4>3. asm \in Seq(Frame) /\ Len(asm) <= MaxParts
        BY DEF FramesOK
      <4> QED
        BY <4>1, <4>2, <4>3
    <3> QED BY <1>6, <3>1, <3>2
  <2>4. link = "Open"
    BY <2>1 DEF Bursting
  <2>5. Len(buf') + Len(wire) <= MaxWaiting
    BY <2>2 DEF FramesOK
  <2> QED
    BY <2>1, <2>2, <2>3, <2>4, <2>5 DEF FramesOK
<1>7. CASE TickSends
  BY <1>7 DEF TickSends, Ticking, FramesOK, remote
<1>8. CASE VenueSendsControl \/ VenueStarts \/ VenueContinues
  <2>1. PICK f \in Frame, p \in 0 .. MaxParts + 1 : Sends(f, p)
    BY <1>8, VenueSends
  <2>2. /\ wire' = Append(wire, f) /\ part' = p /\ link = "Open"
        /\ Len(wire) + Len(buf) < MaxWaiting /\ UNCHANGED <<buf, asm, link>>
    BY <2>1 DEF Sends, MaySend, conn
  <2>3. wire' \in Seq(Frame) /\ Len(buf) + Len(wire') <= MaxWaiting
    BY <2>2 DEF FramesOK
  <2> QED
    BY <2>1, <2>2, <2>3 DEF FramesOK
<1> QED
  BY <1>2, <1>3, <1>4, <1>5, <1>6, <1>7, <1>8
  DEF Next, Feed, TryConnect, Pump, OnFrame, Tick, AskVenue, Venue

-----------------------------------------------------------------------------
(* The frames on the way when the first of them is taken: the rest keep    *)
(* their order, and the assembly stands for the frame that was taken.      *)
LEMMA FlowTaken ==
  ASSUME FramesOK, FlowInv, link = "Open", link' = "Open", part' = part,
         Flying \in Nat \ {0}, Flying' = Flying - 1,
         \A j \in 1 .. Flying - 1 : Nth(j)' = Nth(j + 1),
         Len(asm') = IF Told(1) THEN Next1(Nth(1)) ELSE Len(asm)
  PROVE  FlowInv'
<1> DEFINE Old(k) == IF k = 0 /\ ~Told(1) THEN 0 ELSE k + 1
<1>1. ASSUME NEW k \in 0 .. Flying - 1, NEW j \in k + 1 .. Flying, LastBefore(k, j)'
      PROVE  Old(k) \in 0..Flying /\ LastBefore(Old(k), j + 1) /\ PartAfter(k)' = PartAfter(Old(k))
  <2>1. \A i \in 1 .. Flying - 1 : Told(i)' <=> Told(i + 1)
    BY DEF Told
  <2>2. \A i \in k + 2 .. j : ~Told(i)
    <3>1. ASSUME NEW i \in k + 2 .. j PROVE ~Told(i)
      <4>1. i - 1 \in k + 1 .. j - 1 /\ i - 1 \in 1 .. Flying - 1 /\ (i - 1) + 1 = i
        BY <1>1
      <4>2. ~Told(i - 1)'
        BY <1>1, <4>1 DEF LastBefore
      <4>3. Told(i - 1)' <=> Told((i - 1) + 1)
        BY <2>1, <4>1
      <4> QED
        BY <4>1, <4>2, <4>3
    <3> QED BY <3>1
  <2>3. CASE k = 0 /\ ~Told(1)
    <3>1. \A i \in 1 .. j : ~Told(i)
      BY <2>2, <2>3
    <3>2. Told(0) /\ LastBefore(0, j + 1)
      BY <3>1, <1>1 DEF LastBefore, Told
    <3>3. PartAfter(0)' = PartAfter(0)
      BY <2>3 DEF PartAfter
    <3> QED
      BY <2>3, <3>2, <3>3
  <2>4. CASE ~(k = 0 /\ ~Told(1))
    <3>1. Old(k) = k + 1 /\ k + 1 \in 1..Flying /\ k + 1 # 0
      BY <1>1, <2>4
    <3>2. Told(k + 1)
      <4>1. CASE k = 0
        BY <2>4, <4>1
      <4>2. CASE k # 0
        <5>1. k \in 1 .. Flying - 1
          BY <4>2
        <5> QED
          BY <1>1, <2>1, <5>1 DEF LastBefore
      <4> QED BY <4>1, <4>2
    <3>3. LastBefore(k + 1, j + 1)
      <4>1. (k + 1) + 1 = k + 2 /\ (j + 1) - 1 = j
        BY <1>1
      <4> QED
        BY <2>2, <3>2, <4>1 DEF LastBefore
    <3>4. PartAfter(k)' = PartAfter(k + 1)
      <4>1. CASE k = 0
        <5>1. Told(1) /\ PartAfter(0)' = Next1(Nth(1))
          BY <2>4, <4>1 DEF PartAfter
        <5>2. PartAfter(1) = Next1(Nth(1))
          BY DEF PartAfter
        <5> QED
          BY <4>1, <5>1, <5>2
      <4>2. CASE k # 0
        <5>1. k \in 1 .. Flying - 1
          BY <4>2
        <5>2. Nth(k)' = Nth(k + 1)
          BY <5>1
        <5> QED
          BY <3>1, <4>2, <5>2 DEF PartAfter, Next1
      <4> QED BY <4>1, <4>2
    <3> QED
      BY <3>1, <3>3, <3>4
  <2> QED BY <2>3, <2>4
<1> HIDE DEF Old
<1>2. ASSUME NEW j \in 1 .. Flying - 1
      PROVE  Nth(j)'.fresh /\ (Nth(j)'.op = "Text" => Nth(j)'.part = 0)
  <2>1. j + 1 \in 1..Flying /\ Nth(j)' = Nth(j + 1)
    OBVIOUS
  <2> QED
    BY <2>1 DEF FlowInv
<1>3. ASSUME NEW k \in 0 .. Flying - 1, NEW j \in k + 1 .. Flying - 1, LastBefore(k, j)',
             Nth(j)'.op = "Cont"
      PROVE  Nth(j)'.part = Most(PartAfter(k)', 1)
  <2>1. j \in k + 1 .. Flying /\ j \in 1 .. Flying - 1
    BY <1>3
  <2>2. Old(k) \in 0..Flying /\ LastBefore(Old(k), j + 1) /\ PartAfter(k)' = PartAfter(Old(k))
    BY <1>1, <1>3, <2>1
  <2>3. j + 1 \in Old(k) + 1 .. Flying /\ Nth(j)' = Nth(j + 1)
    BY <1>3, <2>1 DEF Old
  <2> QED
    BY <1>3, <2>2, <2>3 DEF FlowInv
<1>4. ASSUME NEW k \in 0 .. Flying - 1, LastBefore(k, Flying + 1)'
      PROVE  part = PartAfter(k)'
  <2>0. PICK n \in Nat : n = Flying
    OBVIOUS
  <2>1. n \in k + 1 .. Flying /\ LastBefore(k, n)'
    <3>1. Flying' + 1 = n
      BY <2>0
    <3> QED
      BY <1>4, <2>0, <3>1 DEF LastBefore
  <2>2. Old(k) \in 0..Flying /\ LastBefore(Old(k), n + 1) /\ PartAfter(k)' = PartAfter(Old(k))
    BY <1>1, <1>4, <2>1
  <2> QED
    BY <2>0, <2>2 DEF FlowInv
<1>5. /\ \A j \in 1 .. Flying' : Nth(j)'.fresh /\ (Nth(j)'.op = "Text" => Nth(j)'.part = 0)
      /\ \A k \in 0 .. Flying' : \A j \in k + 1 .. Flying' :
           LastBefore(k, j)' /\ Nth(j)'.op = "Cont" => Nth(j)'.part = Most(PartAfter(k)', 1)
      /\ \A k \in 0 .. Flying' : LastBefore(k, Flying + 1)' => part' = PartAfter(k)'
  BY <1>2, <1>3, <1>4
<1> QED
  BY <1>5, Zenon DEF FlowInv, Most

(* The frames on the way when the venue adds one at the end.               *)
LEMMA FlowSent ==
  ASSUME FlowInv, link = "Open", UNCHANGED <<link, asm>>,
         NEW n \in Nat, Flying = n, Flying' = n + 1,
         \A j \in 1 .. n : Nth(j)' = Nth(j),
         NEW f, Nth(n + 1)' = f, f.fresh,
         \/ f.op \in {"Ping", "Close"} /\ part' = part
         \/ f.op = "Text" /\ f.part = 0 /\ part' = Next1(f)
         \/ f.op = "Cont" /\ f.part = Most(part, 1) /\ part' = Next1(f)
  PROVE  FlowInv'
<1>1. \A i \in 0..n : (Told(i)' <=> Told(i)) /\ PartAfter(i)' = PartAfter(i)
  BY DEF Told, PartAfter, Next1
<1>2. ASSUME NEW k \in 0..n, NEW j \in k + 1 .. n + 1
      PROVE  LastBefore(k, j)' <=> LastBefore(k, j)
  <2>1. \A i \in k + 1 .. j - 1 : i \in 0..n
    BY <1>2
  <2> QED
    BY <1>1, <2>1 DEF LastBefore
<1>3. /\ Told(n + 1)' <=> f.op \in {"Text", "Cont"}
      /\ PartAfter(n + 1)' = Next1(f)
  BY DEF Told, PartAfter, Next1
<1>4. ASSUME NEW j \in 1 .. n + 1
      PROVE  Nth(j)'.fresh /\ (Nth(j)'.op = "Text" => Nth(j)'.part = 0)
  BY <1>4 DEF FlowInv
<1>5. ASSUME NEW k \in 0 .. n + 1, NEW j \in k + 1 .. n + 1, LastBefore(k, j)',
             Nth(j)'.op = "Cont"
      PROVE  Nth(j)'.part = Most(PartAfter(k)', 1)
  <2>1. k \in 0..n /\ LastBefore(k, j) /\ PartAfter(k)' = PartAfter(k)
    BY <1>1, <1>2, <1>5
  <2>2. CASE j <= n
    <3>1. Nth(j)' = Nth(j) /\ j \in k + 1 .. Flying
      BY <1>5, <2>2
    <3> QED
      BY <1>5, <2>1, <3>1 DEF FlowInv
  <2>3. CASE j = n + 1
    <3>1. part = PartAfter(k) /\ f.op = "Cont"
      BY <1>5, <2>1, <2>3 DEF FlowInv
    <3> QED
      BY <2>1, <2>3, <3>1
  <2> QED
    BY <1>5, <2>2, <2>3
<1>6. ASSUME NEW k \in 0 .. n + 1, LastBefore(k, n + 2)'
      PROVE  part' = PartAfter(k)'
  <2>1. CASE k = n + 1
    BY <1>3, <1>6, <2>1 DEF LastBefore
  <2>2. CASE k # n + 1
    <3>1. k \in 0..n /\ n + 1 \in k + 1 .. n + 1 /\ (n + 2) - 1 = n + 1 /\ (n + 1) - 1 = n
      BY <2>2
    <3>2. ~Told(n + 1)'
      BY <1>6, <3>1 DEF LastBefore
    <3>3. LastBefore(k, n + 1)'
      BY <1>6, <3>1 DEF LastBefore
    <3>4. LastBefore(k, n + 1)
      BY <1>2, <3>1, <3>3
    <3>5. part = PartAfter(k) /\ part' = part
      BY <1>3, <3>1, <3>2, <3>4 DEF FlowInv
    <3> QED
      BY <1>1, <3>1, <3>5
  <2> QED BY <2>1, <2>2
<1>7. /\ \A j \in 1 .. Flying' : Nth(j)'.fresh /\ (Nth(j)'.op = "Text" => Nth(j)'.part = 0)
      /\ \A k \in 0 .. Flying' : \A j \in k + 1 .. Flying' :
           LastBefore(k, j)' /\ Nth(j)'.op = "Cont" => Nth(j)'.part = Most(PartAfter(k)', 1)
      /\ \A k \in 0 .. Flying' : LastBefore(k, n + 2)' => part' = PartAfter(k)'
  BY <1>4, <1>5, <1>6
<1>8. Flying' + 1 = n + 2
  OBVIOUS
<1>9. \A k \in 0 .. Flying' : LastBefore(k, Flying + 1)' => part' = PartAfter(k)'
  BY <1>7, <1>8 DEF LastBefore
<1> QED
  BY <1>7, <1>9, Zenon DEF FlowInv, Most

(* What is asked of the assembly and of the frames on the way is kept by   *)
(* every step: fragments are joined in the order the venue sent them, and  *)
(* nothing of an earlier connection is among them.                         *)
LEMMA FlowStep ==
  ASSUME CryptoTypeOK, FramesOK, AsmInv, FlowInv, FramesOK', Next
  PROVE  AsmInv' /\ FlowInv'
<1> USE Constants
<1>n. /\ Len(buf) \in Nat /\ Len(wire) \in Nat /\ Len(asm) \in Nat /\ Flying \in Nat
      /\ buf \in Seq(Frame) /\ wire \in Seq(Frame) /\ asm \in Seq(Frame)
  BY DEF FramesOK, Flying
<1>1. ASSUME UNCHANGED <<buf, wire, asm, part, link>> PROVE AsmInv' /\ FlowInv'
  <2>1. AsmInv'
    BY <1>1 DEF AsmInv
  <2>2. FlowInv'
    BY <1>1 DEF FlowInv, Flying, Nth, Told, Next1, PartAfter, LastBefore, Most
  <2> QED BY <2>1, <2>2
<1>2. CASE RenewTicket \/ BackOff \/ (\E d \in 0..DialTime : DialFails(d)) \/ FillEmpty
           \/ EndRound \/ Subscribe \/ (\E d \in 0..RestTime : StartBooks(d)) \/ Sleep
           \/ VenueLeaves \/ TicketLapses \/ StopAsked \/ TickSends
  <2>1. UNCHANGED <<buf, wire, asm, part, link>>
    BY <1>2 DEF RenewTicket, TicketFetched, TicketFails, BackOff, DialFails, FillEmpty, EndRound,
       Subscribe, StartBooks, Sleep, VenueLeaves, TicketLapses, StopAsked, TickSends, conn, remote
  <2> QED BY <1>1, <2>1
<1>3. CASE FillFails \/ PongFails \/ TakeEnds \/ PeerSilent \/ TickFails \/ SubscribeFails
           \/ Shutdown
  <2>1. link' = "Down" /\ asm' = <<>>
    BY <1>3 DEF FillFails, PongFails, TakeEnds, PeerSilent, TickFails, SubscribeFails, Shutdown,
       Fail, DropLink
  <2> QED BY <2>1 DEF AsmInv, FlowInv
<1>4. ASSUME NEW d \in 0..DialTime, Connect(d) PROVE AsmInv' /\ FlowInv'
  <2>1. /\ buf = <<>> /\ buf' = [i \in 1..Len(buf) |-> [buf[i] EXCEPT !.fresh = FALSE]]
        /\ wire' = <<>> /\ asm' = <<>> /\ part' = 0 /\ link' = "Open"
    BY <1>4 DEF Connect, FramesOK
  <2>2. buf' = <<>>
    BY <2>1
  <2>3. Flying' = 0 /\ Len(asm') = 0
    BY <2>1, <2>2 DEF Flying
  <2>4. AsmInv'
    BY <2>1 DEF AsmInv
  <2>5. PartAfter(0)' = 0
    BY <2>3 DEF PartAfter
  <2>6. /\ \A j \in 1 .. Flying' : FALSE
        /\ \A k \in 0 .. Flying' : k = 0
        /\ \A k \in 0 .. Flying' : \A j \in k + 1 .. Flying' : FALSE
    BY <2>3
  <2>7. FlowInv'
    BY <2>1, <2>5, <2>6 DEF FlowInv
  <2> QED
    BY <2>4, <2>7
<1>5. ASSUME NEW k \in 1..MaxWaiting, NEW d \in 0..1, FillReads(k, d) PROVE AsmInv' /\ FlowInv'
  <2>1. /\ Len(buf') = Len(buf) + k /\ Len(wire') = Len(wire) - k
        /\ \A j \in 1 .. Len(buf) + Len(wire) : Nth(j)' = Nth(j)
    BY <1>5, ReadMoves
  <2>2. UNCHANGED <<asm, part, link>>
    BY <1>5 DEF FillReads
  <2>3. Flying' = Flying /\ \A j \in 1..Flying : Nth(j)' = Nth(j)
    BY <2>1, <1>n DEF Flying
  <2>4. \A j \in 0..Flying : (Told(j)' <=> Told(j)) /\ PartAfter(j)' = PartAfter(j)
    BY <2>2, <2>3, <1>n DEF Told, PartAfter, Next1
  <2>5. ASSUME NEW i \in 0..Flying, NEW j \in i + 1 .. Flying + 1
        PROVE  LastBefore(i, j)' <=> LastBefore(i, j)
    <3>1. \A h \in i + 1 .. j - 1 : h \in 0..Flying
      BY <2>5, <1>n
    <3> QED
      BY <2>4, <3>1 DEF LastBefore
  <2>6. PICK n \in Nat : n = Flying
    BY <1>n
  <2>7. \A i \in 0..Flying : LastBefore(i, Flying + 1)' => LastBefore(i, Flying + 1)
    <3>1. ASSUME NEW i \in 0..Flying, LastBefore(i, Flying + 1)'
          PROVE  LastBefore(i, Flying + 1)
      <4>1. LastBefore(i, n + 1)'
        BY <2>3, <2>6, <3>1 DEF LastBefore
      <4>2. n + 1 \in i + 1 .. Flying + 1
        BY <2>6
      <4> QED
        BY <2>5, <2>6, <4>1, <4>2
    <3> QED BY <3>1
  <2>8. AsmInv'
    BY <2>2 DEF AsmInv
  <2>9. ASSUME link = "Open"
        PROVE  /\ \A j \in 1 .. Flying' : Nth(j)'.fresh /\ (Nth(j)'.op = "Text" => Nth(j)'.part = 0)
               /\ \A i \in 0 .. Flying' : \A j \in i + 1 .. Flying' :
                    LastBefore(i, j)' /\ Nth(j)'.op = "Cont" => Nth(j)'.part = Most(PartAfter(i)', 1)
               /\ \A i \in 0 .. Flying' : LastBefore(i, Flying + 1)' => part' = PartAfter(i)'
    <3>1. \A j \in 1 .. Flying' : Nth(j)'.fresh /\ (Nth(j)'.op = "Text" => Nth(j)'.part = 0)
      BY <2>3, <2>9 DEF FlowInv
    <3>2. ASSUME NEW i \in 0 .. Flying', NEW j \in i + 1 .. Flying', LastBefore(i, j)',
                 Nth(j)'.op = "Cont"
          PROVE  Nth(j)'.part = Most(PartAfter(i)', 1)
      <4>1. i \in 0..Flying /\ j \in i + 1 .. Flying + 1 /\ j \in 1..Flying /\ j \in i + 1 .. Flying
        BY <2>3, <3>2, <1>n
      <4>2. LastBefore(i, j) /\ Nth(j)' = Nth(j) /\ PartAfter(i)' = PartAfter(i)
        BY <2>3, <2>4, <2>5, <3>2, <4>1
      <4> QED
        BY <2>9, <3>2, <4>1, <4>2 DEF FlowInv
    <3>3. \A i \in 0 .. Flying' : LastBefore(i, Flying + 1)' => part' = PartAfter(i)'
      BY <2>2, <2>3, <2>4, <2>7, <2>9 DEF FlowInv
    <3> QED BY <3>1, <3>2, <3>3
  <2>10. FlowInv'
    BY <2>2, <2>9, Zenon DEF FlowInv, Most
  <2> QED
    BY <2>8, <2>10
<1>6. CASE TakeControl \/ TakeWhole \/ TakeFragment \/ TakeLast
  <2>1. Bursting /\ buf' = Tail(buf) /\ UNCHANGED <<link, wire, part>> /\ link = "Open"
    BY <1>6 DEF TakeControl, TakeWhole, TakeFragment, TakeLast, Consumed, Bursting, remote
  <2>2. /\ Head1 \in Frame /\ Len(buf) \in Nat \ {0} /\ Len(buf') = Len(buf) - 1
        /\ \A i \in 1 .. Len(buf) - 1 : buf'[i] = buf[i + 1]
    BY <2>1, HeadOfBuffer
  <2>3. Flying \in Nat \ {0} /\ Flying' = Flying - 1
    BY <2>1, <2>2, <1>n DEF Flying
  <2>4. ASSUME NEW j \in 1 .. Flying - 1 PROVE Nth(j)' = Nth(j + 1)
    <3>1. CASE j <= Len(buf) - 1
      BY <2>2, <3>1 DEF Nth
    <3>2. CASE j > Len(buf) - 1
      <4>1. ~(j <= Len(buf')) /\ ~(j + 1 <= Len(buf)) /\ j - Len(buf') = (j + 1) - Len(buf)
        BY <2>2, <2>4, <3>2, <1>n
      <4> QED
        BY <2>1, <4>1 DEF Nth
    <3> QED BY <2>2, <2>4, <3>1, <3>2
  <2>5. Nth(1) = Head1 /\ (Told(1) <=> Head1.op \in {"Text", "Cont"}) /\ 1 \in 1..Flying
    BY <2>2, <2>3, <1>n DEF Nth, Told, Head1
  <2>6. Head1.fresh /\ (Head1.op = "Text" => Head1.part = 0)
    BY <2>1, <2>5 DEF FlowInv
  <2>7. Head1.op = "Cont" => Head1.part = Most(Len(asm), 1)
    <3>1. LastBefore(0, 1) /\ PartAfter(0) = Len(asm) /\ 0 \in 0..Flying /\ 1 \in 0 + 1 .. Flying
      BY <2>3 DEF LastBefore, Told, PartAfter
    <3> QED
      BY <2>1, <2>5, <3>1 DEF FlowInv
  <2>8. AsmInv' /\ Len(asm') = IF Told(1) THEN Next1(Nth(1)) ELSE Len(asm)
    <3>1. CASE TakeControl
      <4>1. asm' = asm /\ ~Told(1)
        BY <2>5, <3>1 DEF TakeControl
      <4> QED
        BY <4>1 DEF AsmInv
    <3>2. CASE TakeWhole
      <4>1. asm' = asm /\ Told(1) /\ asm = <<>> /\ Next1(Nth(1)) = 0
        BY <2>5, <3>2 DEF TakeWhole, Refused, Next1
      <4> QED
        BY <4>1 DEF AsmInv
    <3>3. CASE TakeLast
      <4>1. asm' = <<>> /\ Told(1) /\ Next1(Nth(1)) = 0
        BY <2>5, <3>3 DEF TakeLast, Next1
      <4> QED
        BY <4>1 DEF AsmInv
    <3>4. CASE TakeFragment
      <4>1. /\ asm' = Append(asm, Head1) /\ ~Head1.fin /\ Told(1) /\ Len(asm) < MaxParts
            /\ Head1.op \in {"Text", "Cont"}
            /\ Head1.op = "Text" => asm = <<>>
            /\ Head1.op = "Cont" => asm # <<>>
        BY <2>5, <3>4, <1>n DEF TakeFragment, Refused, IsData, CryptoTypeOK
      <4>2. Head1.part = Len(asm) /\ (Head1.op = "Text" <=> Len(asm) = 0)
        BY <2>6, <2>7, <4>1, <1>n DEF Most
      <4>3. /\ Len(asm') = Len(asm) + 1 /\ asm'[Len(asm) + 1] = Head1
            /\ \A i \in 1..Len(asm) : asm'[i] = asm[i]
        BY <4>1, <2>2, <1>n
      <4>4. Next1(Nth(1)) = Len(asm) + 1
        BY <2>5, <4>1, <4>2, <1>n DEF Next1, Least
      <4>5. ASSUME NEW i \in 1 .. Len(asm) + 1
            PROVE  /\ asm'[i].part = i - 1 /\ ~asm'[i].fin /\ asm'[i].fresh
                   /\ asm'[i].op = IF i = 1 THEN "Text" ELSE "Cont"
        <5>1. CASE i <= Len(asm)
          <6>1. i \in 1..Len(asm)
            BY <5>1, <1>n
          <6> QED
            BY <4>3, <6>1 DEF AsmInv
        <5>2. CASE i = Len(asm) + 1
          BY <2>6, <4>1, <4>2, <4>3, <5>2, <1>n
        <5> QED BY <5>1, <5>2, <1>n
      <4>6. asm' \in Seq(Frame)
        BY DEF FramesOK
      <4> QED
        BY <4>1, <4>3, <4>4, <4>5, <4>6 DEF AsmInv
    <3> QED BY <1>6, <3>1, <3>2, <3>3, <3>4
  <2>9. FlowInv'
    BY <2>1, <2>3, <2>4, <2>8, FlowTaken
  <2> QED
    BY <2>8, <2>9
<1>7. CASE VenueSendsControl \/ VenueStarts \/ VenueContinues
  <2>1. PICK f \in Frame, p \in 0 .. MaxParts + 1 :
           /\ Sends(f, p) /\ f.fresh
           /\ \/ f.op \in {"Ping", "Close"} /\ p = part
              \/ f.op = "Text" /\ f.part = 0 /\ p = Next1(f)
              \/ f.op = "Cont" /\ f.part = Most(part, 1) /\ p = Next1(f)
    BY <1>7, VenueSends
  <2>2. /\ wire' = Append(wire, f) /\ part' = p /\ link = "Open" /\ UNCHANGED <<buf, asm, link>>
    BY <2>1 DEF Sends, MaySend, conn
  <2>3. PICK n \in Nat : n = Flying
    BY <1>n
  <2>4. /\ Len(wire') = Len(wire) + 1 /\ wire'[Len(wire) + 1] = f
        /\ \A i \in 1..Len(wire) : wire'[i] = wire[i]
    BY <2>2, <1>n
  <2>5. Flying' = n + 1
    BY <2>2, <2>3, <2>4, <1>n DEF Flying
  <2>6. ASSUME NEW j \in 1..n PROVE Nth(j)' = Nth(j)
    <3>1. CASE j <= Len(buf)
      BY <2>2, <3>1 DEF Nth
    <3>2. CASE j > Len(buf)
      <4>1. j - Len(buf) \in 1..Len(wire) /\ ~(j <= Len(buf))
        BY <2>3, <2>6, <3>2, <1>n DEF Flying
      <4> QED
        BY <2>2, <2>4, <4>1 DEF Nth
    <3> QED BY <3>1, <3>2, <1>n
  <2>7. Nth(n + 1)' = f
    <3>1. ~(n + 1 <= Len(buf)) /\ (n + 1) - Len(buf) = Len(wire) + 1
      BY <2>3, <1>n DEF Flying
    <3> QED
      BY <2>2, <2>4, <3>1 DEF Nth
  <2>8. FlowInv'
    BY <2>1, <2>2, <2>3, <2>5, <2>6, <2>7, FlowSent
  <2>9. AsmInv'
    BY <2>2 DEF AsmInv
  <2> QED
    BY <2>8, <2>9
<1> QED
  BY <1>2, <1>3, <1>4, <1>5, <1>6, <1>7
  DEF Next, Feed, TryConnect, Pump, OnFrame, Tick, AskVenue, Venue

-----------------------------------------------------------------------------
(* The feed starts down, with nothing on the way and the record due.       *)
LEMMA InitSafety == Init => SafetyInv
<1> SUFFICES ASSUME Init PROVE SafetyInv
  OBVIOUS
<1> USE Constants
<1>1. timer \in TimerType /\ timer.beat = 0 /\ timer.quiet = 0 /\ timer.idle = 0
  BY DEF Init, TimerType
<1>2. ticket \in [due : BOOLEAN, state : {"Unset", "Fresh", "Lapsed"}]
  <2>1. Has("ticket") \in BOOLEAN
    BY DEF Has
  <2> QED
    BY <2>1 DEF Init
<1>3. CryptoTypeOK
  <2>1. ControlOK
    BY DEF Init, ControlOK
  <2>2. FlagsOK
    BY <1>2 DEF Init, FlagsOK
  <2>3. FramesOK
    <3>1. <<>> \in Seq(Frame) /\ Len(<<>>) = 0
      OBVIOUS
    <3>2. 0 \in 0 .. (MaxParts + 1) /\ 0 <= MaxWaiting /\ 0 <= MaxParts
      OBVIOUS
    <3> QED
      BY <3>1, <3>2 DEF Init, FramesOK
  <2>4. left \in 0..Burst
    BY DEF Init
  <2> QED
    BY <1>1, <2>1, <2>2, <2>3, <2>4 DEF CryptoTypeOK, ControlOK, FlagsOK, FramesOK
<1>4. PlaceInv /\ AskInv /\ BeatInv /\ QuietInv
  BY <1>1 DEF Init, PlaceInv, AskInv, BeatInv, QuietInv
<1>5. AsmInv /\ FlowInv
  BY DEF Init, AsmInv, FlowInv
<1> QED
  BY <1>3, <1>4, <1>5 DEF SafetyInv

(* Every step keeps every part.                                            *)
LEMMA SafetyStep ==
  ASSUME SafetyInv, [Next]_vars
  PROVE  SafetyInv'
<1>1. CASE UNCHANGED vars
  BY <1>1 DEF vars, conn, remote, SafetyInv, CryptoTypeOK, PlaceInv, AskInv, AllAsked, Has, BeatInv,
     QuietInv, AsmInv, FlowInv, Flying, Nth, Told, Next1, PartAfter, LastBefore, Most
<1>2. CASE Next
  <2>1. /\ CryptoTypeOK /\ PlaceInv /\ AskInv /\ BeatInv /\ QuietInv /\ AsmInv /\ FlowInv
    BY DEF SafetyInv
  <2>2. ControlOK /\ FlagsOK /\ FramesOK
    BY <2>1 DEF CryptoTypeOK, AsmInv, ControlOK, FlagsOK, FramesOK
  <2>3. ControlOK' /\ FlagsOK' /\ FramesOK' /\ TimersOK'
    BY <1>2, <2>1, <2>2, ControlStep, FlagsStep, FramesStep, TimerStep
  <2>4. CryptoTypeOK'
    BY <2>3 DEF CryptoTypeOK, ControlOK, FlagsOK, FramesOK, TimersOK
  <2>5. BeatInv' /\ QuietInv'
    BY <2>3 DEF TimersOK
  <2>6. PlaceInv' /\ AskInv' /\ AsmInv' /\ FlowInv'
    BY <1>2, <2>1, <2>2, <2>3, PlaceStep, AskStep, FlowStep
  <2> QED
    BY <2>4, <2>5, <2>6 DEF SafetyInv
<1> QED
  BY <1>1, <1>2

(* The invariant holds of every state of a feed.                           *)
LEMMA SafetyInvariant == Spec => []SafetyInv
BY InitSafety, SafetyStep, PTL DEF Spec

(* CryptoTypeOK holds for every venue, interval and limit: buffers and     *)
(* timers keep their bounds, and a socket that is down leaves nothing.     *)
THEOREM TypeCorrect == Spec => []CryptoTypeOK
<1>1. SafetyInv => CryptoTypeOK
  BY DEF SafetyInv
<1> QED BY <1>1, SafetyInvariant, PTL

(* AskedBeforeHandled holds for every venue: no frame is handled before    *)
(* this connection's subscriptions, and its start books, were asked for.   *)
THEOREM AskedFirst == Spec => []AskedBeforeHandled
<1>1. SafetyInv => AskedBeforeHandled
  BY DEF SafetyInv, PlaceInv, AskInv, AllAsked, AskedBeforeHandled
<1> QED BY <1>1, SafetyInvariant, PTL

(* BeatsThroughBlocking holds for every interval and time-out: whatever    *)
(* the link does, the liveness record waits for one pass at most.          *)
THEOREM BeatsKeepComing == Spec => []BeatsThroughBlocking
<1>1. SafetyInv => BeatsThroughBlocking
  BY Constants, TimerFields DEF SafetyInv, CryptoTypeOK, BeatInv, BeatsThroughBlocking, LongestRound
<1> QED BY <1>1, SafetyInvariant, PTL

(* WholeMessages holds for every interleaving of data, control frames and  *)
(* reconnects: the router sees whole messages of the open connection.      *)
THEOREM MessagesWhole == Spec => WholeMessages
<1>1. ASSUME SafetyInv, [Next]_vars
      PROVE  [(TakeWhole => Whole(<<Head1>>)) /\ (TakeLast => Whole(Append(asm, Head1)))]_vars
  <2>ty. CryptoTypeOK /\ AsmInv /\ FlowInv /\ asm \in Seq(Frame) /\ Len(asm) \in Nat
    BY <1>1 DEF SafetyInv, AsmInv
  <2>1. ASSUME Bursting
        PROVE  /\ Head1 \in Frame /\ Head1.fresh
               /\ Head1.op = "Text" => Head1.part = 0
               /\ Head1.op = "Cont" => Head1.part = Most(Len(asm), 1)
    <3>1. Head1 \in Frame /\ Len(buf) \in Nat \ {0} /\ Len(wire) \in Nat
      BY <2>ty, <2>1, HeadOfBuffer
    <3>2. Flying \in Nat \ {0} /\ Nth(1) = Head1 /\ 1 \in 1..Flying
      BY <3>1 DEF Flying, Nth, Head1
    <3>3. LastBefore(0, 1) /\ PartAfter(0) = Len(asm) /\ 0 \in 0..Flying /\ 1 \in 0 + 1 .. Flying
      BY <3>2 DEF LastBefore, Told, PartAfter
    <3>4. link = "Open"
      BY <2>1 DEF Bursting
    <3> QED
      BY <2>ty, <3>1, <3>2, <3>3, <3>4 DEF FlowInv
  <2>2. ASSUME TakeWhole PROVE Whole(<<Head1>>)
    <3>1. Bursting /\ Head1.op = "Text" /\ Head1.fin
      BY <2>2 DEF TakeWhole
    <3>2. Len(<<Head1>>) = 1 /\ <<Head1>>[1] = Head1
      OBVIOUS
    <3>3. ASSUME NEW i \in 1..Len(<<Head1>>) PROVE i = 1
      BY <3>2, <3>3
    <3> QED
      BY <2>1, <3>1, <3>2, <3>3 DEF Whole
  <2>3. ASSUME TakeLast PROVE Whole(Append(asm, Head1))
    <3>1. Bursting /\ Head1.op = "Cont" /\ Head1.fin /\ asm # <<>>
      BY <2>3 DEF TakeLast, Refused
    <3>2. Head1.part = Len(asm) /\ Len(asm) >= 1
      BY <2>1, <3>1, <2>ty DEF Most
    <3> DEFINE m == Append(asm, Head1)
    <3>3. /\ Len(m) = Len(asm) + 1 /\ m[Len(asm) + 1] = Head1
          /\ \A i \in 1..Len(asm) : m[i] = asm[i]
      BY <2>1, <3>1, <2>ty
    <3> HIDE DEF m
    <3>4. ASSUME NEW i \in 1..Len(m)
          PROVE  /\ m[i].part = i - 1 /\ (m[i].fin <=> i = Len(m)) /\ m[i].fresh
                 /\ m[i].op = IF i = 1 THEN "Text" ELSE "Cont"
      <4>1. CASE i = Len(asm) + 1
        BY <2>1, <3>1, <3>2, <3>3, <4>1, <2>ty
      <4>2. CASE i # Len(asm) + 1
        <5>1. i \in 1..Len(asm) /\ i # Len(m)
          BY <3>3, <3>4, <4>2, <2>ty
        <5> QED
          BY <3>3, <5>1, <2>ty DEF AsmInv
      <4> QED BY <4>1, <4>2
    <3> QED
      BY <3>4 DEF Whole, m
  <2> QED
    BY <2>2, <2>3
<1> QED
  BY <1>1, SafetyInvariant, PTL DEF Spec, WholeMessages

(* NotDroppedWhileTalking holds for every interval: a venue is given up as *)
(* silent only after two intervals without a frame and with none waiting.  *)
THEOREM SilenceIsReal == Spec => NotDroppedWhileTalking
<1>1. ASSUME SafetyInv, [Next]_vars
      PROVE  [PeerSilent => timer.idle > 2 * Ping /\ buf = <<>>]_vars
  <2>1. ASSUME PeerSilent PROVE timer.idle > 2 * Ping /\ buf = <<>>
    <3>1. /\ pc = "burst" /\ (left = 0 \/ buf = <<>>)
          /\ Most(timer.quiet - timer.lag, 0) > 2 * Ping
      BY <2>1 DEF PeerSilent, Ticking, QuietAtNow
    <3>2. /\ timer \in TimerType /\ timer.quiet = timer.idle
          /\ left < Burst => timer.quiet = 0
      BY <1>1, <3>1 DEF SafetyInv, CryptoTypeOK, QuietInv
    <3>3. timer.quiet \in Nat /\ timer.lag \in 0..1
      BY <3>2, TimerFields, Constants
    <3>4. timer.quiet > 2 * Ping
      BY <3>1, <3>3, Constants DEF Most
    <3>5. left # 0
      BY <3>2, <3>4, Constants
    <3> QED
      BY <3>1, <3>2, <3>4, <3>5
  <2> QED
    BY <2>1
<1> QED
  BY <1>1, SafetyInvariant, PTL DEF Spec, NotDroppedWhileTalking
=============================================================================

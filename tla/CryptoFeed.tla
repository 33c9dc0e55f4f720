----------------------------- MODULE CryptoFeed -----------------------------
(***************************************************************************)
(* One crypto feed: the thread of jeed/src/crypto.rs around the Receiver,  *)
(* Pipeline, Link and Assembly of jeed-crypto/src/recv.                    *)
(*                                                                         *)
(* A pass of the loop renews the ticket if one is due, dials or pumps the  *)
(* socket (poll_once), writes the liveness record, and after an open sends *)
(* the subscriptions and fetches the start books.                          *)
(*                                                                         *)
(* Time is counted in units and kept relative to the clock: an age grows   *)
(* and a deadline shrinks as the thread blocks, so no bound on the length  *)
(* of a behaviour is needed.  Only blocking calls take time: a read that   *)
(* finds nothing and the sleep while disconnected take one unit (for a     *)
(* spinning feed, one unit of empty rounds), a dial up to DialTime, an     *)
(* HTTP request up to RestTime.                                            *)
(***************************************************************************)
EXTENDS Integers, Sequences, FiniteSets

CONSTANTS
  Venues,       \* the venues whose feeds are checked, a subset of DOMAIN Traits
  Ping,         \* Config::ping_interval_ns
  Keep,         \* the venue's own ping interval
  Reconnect,    \* Config::reconnect_ns
  RecordBeat,   \* Config::record_heartbeat_ns
  Burst,        \* Config::burst
  DialTime,     \* connect and handshake timeouts
  RestTime,     \* REST_TIMEOUT of a ticket, or of all start books of an open
  MaxParts,     \* fragments that fit the assembly buffer
  MaxWaiting    \* bound: frames sent by the venue and not yet handled

ASSUME CryptoAssumption ==
  /\ {Ping, Keep, Reconnect, RecordBeat, Burst, MaxParts, MaxWaiting} \subseteq Nat \ {0}
  /\ {DialTime, RestTime} \subseteq Nat

(* What the router of a venue asks of the loop beside subscriptions: an    *)
(* address from a ticket, start books over REST, a keepalive of its own.   *)
Traits ==
  [ binance |-> {}, upbit |-> {}, okx |-> {"keep"}, bybit |-> {"keep"},
    bitget |-> {"keep"}, gate |-> {"keep", "rest"},
    kucoin |-> {"keep", "rest", "ticket"} ]

ASSUME VenuesAssumption == Venues \subseteq DOMAIN Traits

VARIABLES
  venue,      \* the feed's venue
  pc,         \* where the thread is
  stop,       \* the stop flag
  link,       \* LinkState
  buf,        \* frames received and not consumed (RecvBuffer)
  asm,        \* Assembly: the fragments of the open message
  left,       \* frames the burst may still take
  pinged,     \* a ping is out and nothing has come back
  timer,      \* ages and deadlines, see TimerType
  ticket,     \* [due, state]: ticket_due, and what the endpoint is worth
  moved,      \* counters of Stats that moved since run() looked: opens, disconnects
  asked,      \* history: what was asked on this connection
  peer,       \* the venue's end of the connection
  wire,       \* frames on the way from the venue
  part        \* parts of an unfinished message the venue has sent

conn == <<link, buf, asm, pinged>>
remote == <<peer, wire, part>>
vars == <<venue, pc, stop, conn, left, timer, ticket, moved, asked, remote>>

Has(trait) == trait \in Traits[venue]

-----------------------------------------------------------------------------
(* Frames.  `part` numbers the data frames of a message as the venue meant *)
(* them, `fresh` is FALSE for a frame of an earlier connection.  Ping is   *)
(* any Ping or Pong (a Pong only needs no answer), Close any Close or      *)
(* frame with an unreadable header.                                        *)
Frame == [op : {"Text", "Cont", "Ping", "Close"},
          fin : BOOLEAN, part : 0..(MaxParts + 1), fresh : BOOLEAN]
Control(op) == [op |-> op, fin |-> TRUE, part |-> 0, fresh |-> TRUE]
Data(op, i, fin) == [op |-> op, fin |-> fin, part |-> i, fresh |-> TRUE]

(* A whole message: parts 0, 1, ... in order, the last and only the last   *)
(* final, all of this connection.                                          *)
Whole(m) ==
  \A i \in 1..Len(m) : /\ m[i].part = i - 1
                       /\ m[i].fin <=> i = Len(m)
                       /\ m[i].fresh
                       /\ m[i].op = IF i = 1 THEN "Text" ELSE "Cont"

(* Timers.  Ages stop growing and deadlines stop falling where no guard    *)
(* and no property tells the values apart: last_rx_ns is read only while   *)
(* the link is open.                                                       *)
LongestRound == 2 * RestTime + 1 + DialTime
OldestAge == 2 * Ping + 2
TimerType ==
  [ quiet  : 0..OldestAge,                          \* clock - last_rx_ns
    idle   : 0..OldestAge,                          \* history: clock - last frame consumed
    lag    : 0..1,                                  \* clock - the now of this round
    dial   : 0..Reconnect,                          \* next_connect_ns - clock
    beat   : -LongestRound..RecordBeat,       \* next_record_heartbeat_ns - clock
    keep   : -1..Keep,                              \* the router's next_ping_ns - clock
    ticket : 0..Reconnect ]                         \* ticket_retry_ns - clock

Least(a, b) == IF a < b THEN a ELSE b
Most(a, b) == IF a > b THEN a ELSE b

After(t, d) ==
  [ quiet  |-> IF link = "Open" THEN Least(t.quiet + d, OldestAge) ELSE 0,
    idle   |-> IF link = "Open" THEN Least(t.idle + d, OldestAge) ELSE 0,
    lag    |-> 0,
    dial   |-> Most(t.dial - d, 0),
    beat   |-> Most(t.beat - d, -LongestRound),
    keep   |-> Most(t.keep - d, -1),
    ticket |-> Most(t.ticket - d, 0) ]

(* A deadline set to now + n when d units of the call had passed by its end. *)
In(n, d) == Most(n - d, 0)

-----------------------------------------------------------------------------
Init ==
  /\ venue \in Venues
  /\ pc = "top" /\ stop = FALSE
  /\ link = "Down" /\ buf = <<>> /\ asm = <<>> /\ left = 0 /\ pinged = FALSE
  /\ timer = [quiet |-> 0, idle |-> 0, lag |-> 0, dial |-> 0, beat |-> 0,
              keep |-> -1, ticket |-> 0]
  /\ ticket = [due |-> Has("ticket"), state |-> "Unset"]
  /\ moved = {} /\ asked = {}
  /\ peer = "Gone" /\ wire = <<>> /\ part = 0

(* Mutant: the half message of the old connection is kept.                 *)
DropLinkKeepsParts ==
  /\ link' = "Down" /\ buf' = <<>> /\ asm' = asm /\ pinged' = FALSE
  /\ peer' = "Gone" /\ wire' = <<>> /\ part' = 0
  /\ asked' = {}

(* The connection is given up and the venue notices sooner or later.       *)
DropLink ==
  /\ link' = "Down" /\ buf' = <<>> /\ asm' = <<>> /\ pinged' = FALSE
  /\ peer' = "Gone" /\ wire' = <<>> /\ part' = 0
  /\ asked' = {}

Fail ==
  /\ DropLink
  /\ moved' = moved \cup {"disconnects"}

-----------------------------------------------------------------------------
(* The ticket, at the top of the loop.                                     *)
TicketTime == ticket.due /\ link = "Down" /\ timer.ticket = 0

TicketFetched(d) ==
  /\ pc = "top" /\ ~stop /\ TicketTime
  /\ ticket' = [due |-> FALSE, state |-> "Fresh"]
  /\ timer' = After(timer, d)
  /\ pc' = "poll"
  /\ UNCHANGED <<venue, stop, conn, left, moved, asked, remote>>

(* Mutant: one failed request and no ticket is wanted any more.            *)
TicketGivenUp(d) ==
  /\ pc = "top" /\ ~stop /\ TicketTime
  /\ ticket' = [ticket EXCEPT !.due = FALSE]
  /\ timer' = After(timer, d)
  /\ pc' = "poll"
  /\ UNCHANGED <<venue, stop, conn, left, moved, asked, remote>>

TicketFails(d) ==
  /\ pc = "top" /\ ~stop /\ TicketTime
  /\ timer' = [After(timer, d) EXCEPT !.ticket = In(Reconnect, d)]
  /\ pc' = "poll"
  /\ UNCHANGED <<venue, stop, conn, left, ticket, moved, asked, remote>>

(* poll_once is entered: from the top when no ticket is wanted now.        *)
Polling == \/ pc = "poll"
           \/ pc = "top" /\ ~stop /\ ~TicketTime

-----------------------------------------------------------------------------
(* try_connect                                                             *)
BackOff ==
  /\ Polling /\ link = "Down" /\ timer.dial > 0
  /\ pc' = "beat"
  /\ UNCHANGED <<venue, stop, conn, left, timer, ticket, moved, asked, remote>>

DialFails(d) ==
  /\ Polling /\ link = "Down" /\ timer.dial = 0
  /\ timer' = [After(timer, d) EXCEPT !.dial = In(Reconnect, d)]
  /\ pc' = "beat"
  /\ UNCHANGED <<venue, stop, conn, left, ticket, moved, asked, remote>>

(* last_rx_ns is the clock before the dial.  A frame left over from an     *)
(* earlier connection would keep its place, no longer fresh.               *)
Connect(d) ==
  /\ Polling /\ link = "Down" /\ timer.dial = 0
  /\ Has("ticket") => ticket.state = "Fresh"
  /\ timer' = [After(timer, d) EXCEPT !.dial = In(Reconnect, d),
                                      !.quiet = Least(d, OldestAge), !.idle = Least(d, OldestAge)]
  /\ link' = "Open" /\ asm' = <<>> /\ pinged' = FALSE
  /\ buf' = [i \in 1..Len(buf) |-> [buf[i] EXCEPT !.fresh = FALSE]]
  /\ moved' = moved \cup {"opens"}
  /\ asked' = {}
  /\ peer' = "Up" /\ wire' = <<>> /\ part' = 0
  /\ pc' = "beat"
  /\ UNCHANGED <<venue, stop, left, ticket>>

-----------------------------------------------------------------------------
(* pump: one read, up to Burst frames, then the timers with the now from   *)
(* before the read.                                                        *)
Pumping == Polling /\ link = "Open"

FillReads(k, d) ==
  /\ Pumping /\ k \in 1..Len(wire)
  /\ buf' = buf \o SubSeq(wire, 1, k)
  /\ wire' = SubSeq(wire, k + 1, Len(wire))
  /\ timer' = [After(timer, d) EXCEPT !.lag = d]
  /\ left' = Burst /\ pc' = "burst"
  /\ UNCHANGED <<venue, stop, link, asm, pinged, ticket, moved, asked, peer, part>>

(* Mutant: a read that found nothing counts as word from the venue.        *)
FillEmptyIsWord ==
  /\ Pumping /\ wire = <<>> /\ peer # "Closed"
  /\ timer' = [After(timer, 1) EXCEPT !.lag = 1, !.quiet = 0]
  /\ left' = Burst /\ pc' = "burst"
  /\ UNCHANGED <<venue, stop, conn, ticket, moved, asked, remote>>

FillEmpty ==
  /\ Pumping /\ wire = <<>> /\ peer # "Closed"
  /\ timer' = [After(timer, 1) EXCEPT !.lag = 1]
  /\ left' = Burst /\ pc' = "burst"
  /\ UNCHANGED <<venue, stop, conn, ticket, moved, asked, remote>>

(* The peer closed, or the read failed: what is still buffered is dropped. *)
FillFails ==
  /\ Pumping /\ (peer = "Closed" => wire = <<>>)
  /\ Fail
  /\ timer' = After(timer, 0)
  /\ pc' = "beat"
  /\ UNCHANGED <<venue, stop, left, ticket>>

(* What on_frame makes of the head of the buffer.                          *)
Bursting == pc = "burst" /\ link = "Open" /\ left > 0 /\ buf # <<>>
Head1 == buf[1]
IsData == Head1.op \in {"Text", "Cont"}
(* Mutant: a continuation of nothing begins a message.                     *)
RefusedNoOrphans == \/ Head1.op = "Text" /\ asm # <<>>
                    \/ (Head1.op = "Cont" \/ ~Head1.fin) /\ Len(asm) = MaxParts

(* begin() and append() refuse the frame, or it does not fit.              *)
Refused == \/ Head1.op = "Text" /\ asm # <<>>
           \/ Head1.op = "Cont" /\ asm = <<>>
           \/ (Head1.op = "Cont" \/ ~Head1.fin) /\ Len(asm) = MaxParts

(* Mutant: only market data counts as word from the venue.                 *)
ConsumedDataOnly ==
  /\ buf' = Tail(buf)
  /\ left' = left - 1
  /\ timer' = [timer EXCEPT !.quiet = IF IsData THEN 0 ELSE @, !.idle = 0]
  /\ pinged' = FALSE

Consumed ==
  /\ buf' = Tail(buf)
  /\ left' = left - 1
  /\ timer' = [timer EXCEPT !.quiet = 0, !.idle = 0]
  /\ pinged' = FALSE

TakeControl ==
  /\ Bursting /\ Head1.op = "Ping"
  /\ Consumed
  /\ UNCHANGED <<venue, pc, stop, link, asm, ticket, moved, asked, remote>>

(* The pong cannot be sent.                                                *)
PongFails ==
  /\ Bursting /\ Head1.op = "Ping"
  /\ Fail
  /\ timer' = [timer EXCEPT !.quiet = 0, !.idle = 0]
  /\ pc' = "beat"
  /\ UNCHANGED <<venue, stop, left, ticket>>

TakeWhole ==
  /\ Bursting /\ Head1.op = "Text" /\ Head1.fin /\ ~Refused
  /\ Consumed
  /\ UNCHANGED <<venue, pc, stop, link, asm, ticket, moved, asked, remote>>

TakeFragment ==
  /\ Bursting /\ IsData /\ ~Refused /\ ~Head1.fin
  /\ Consumed
  /\ asm' = Append(asm, Head1)
  /\ UNCHANGED <<venue, pc, stop, link, ticket, moved, asked, remote>>

TakeLast ==
  /\ Bursting /\ Head1.op = "Cont" /\ ~Refused /\ Head1.fin
  /\ Consumed
  /\ asm' = <<>>
  /\ UNCHANGED <<venue, pc, stop, link, ticket, moved, asked, remote>>

(* A Close frame, a protocol error of the peer, an unreadable header.      *)
TakeEnds ==
  /\ Bursting /\ (Head1.op = "Close" \/ (IsData /\ Refused))
  /\ Fail
  /\ timer' = [timer EXCEPT !.quiet = 0, !.idle = 0]
  /\ pc' = "beat"
  /\ UNCHANGED <<venue, stop, left, ticket>>

-----------------------------------------------------------------------------
(* tick, with the now of the round                                         *)
Ticking == pc = "burst" /\ link = "Open" /\ (left = 0 \/ buf = <<>>)
QuietAtNow == Most(timer.quiet - timer.lag, 0)
KeepDue == Has("keep") /\ timer.keep + timer.lag <= 0

PeerSilent ==
  /\ Ticking /\ QuietAtNow > 2 * Ping
  /\ Fail
  /\ pc' = "beat"
  /\ UNCHANGED <<venue, stop, left, timer, ticket>>

(* The ping, then the venue's keepalive: next_ping_ns is set before the    *)
(* send.                                                                   *)
TickSends ==
  /\ Ticking /\ QuietAtNow <= 2 * Ping
  /\ pinged' = (pinged \/ QuietAtNow > Ping)
  /\ timer' = IF KeepDue THEN [timer EXCEPT !.keep = In(Keep, timer.lag)] ELSE timer
  /\ pc' = "beat"
  /\ UNCHANGED <<venue, stop, link, buf, asm, left, ticket, moved, asked, remote>>

TickFails ==
  /\ Ticking /\ QuietAtNow <= 2 * Ping
  /\ \/ ~pinged /\ QuietAtNow > Ping /\ UNCHANGED timer
     \/ KeepDue /\ timer' = [timer EXCEPT !.keep = In(Keep, timer.lag)]
  /\ Fail
  /\ pc' = "beat"
  /\ UNCHANGED <<venue, stop, left, ticket>>

-----------------------------------------------------------------------------
(* beat_record, at the end of poll_once, connected or not.                 *)
BeatRecordWhenOpen == IF timer.beat > 0 \/ link = "Down" THEN timer.beat ELSE RecordBeat \* mutant
BeatRecord == IF timer.beat > 0 THEN timer.beat ELSE RecordBeat

(* What run() reads off the counters: an open since it last looked.        *)
OpenedCountsOnce == moved = {"opens"}   \* mutant: not when the old connection was lost too
Opened == "opens" \in moved

(* The end of poll_once, and what run() does with the counters: a          *)
(* disconnect makes a ticket due, an open is followed by the subscriptions. *)
EndRound ==
  /\ pc = "beat"
  /\ timer' = [timer EXCEPT !.lag = 0, !.beat = BeatRecord]
  /\ ticket' = [ticket EXCEPT !.due = IF "disconnects" \in moved THEN Has("ticket") ELSE @]
  /\ moved' = {}
  /\ left' = 0
  /\ pc' = IF Opened THEN "subscribe" ELSE IF link = "Down" THEN "sleep" ELSE "top"
  /\ UNCHANGED <<venue, stop, conn, asked, remote>>

AfterAsking(l) == IF Has("rest") THEN "books" ELSE IF l = "Down" THEN "sleep" ELSE "top"

Subscribe ==
  /\ pc = "subscribe" /\ link = "Open"
  /\ asked' = asked \cup {"streams"}
  /\ pc' = AfterAsking("Open")
  /\ UNCHANGED <<venue, stop, conn, left, timer, ticket, moved, remote>>

(* A send fails half way.                                                  *)
SubscribeFails ==
  /\ pc = "subscribe" /\ link = "Open"
  /\ Fail
  /\ pc' = AfterAsking("Down")
  /\ UNCHANGED <<venue, stop, left, timer, ticket>>

(* start_books: every book fetched, published or given up, one after the   *)
(* other.                                                                  *)
StartBooks(d) ==
  /\ pc = "books"
  /\ asked' = asked \cup {"books"}
  /\ timer' = After(timer, d)
  /\ pc' = IF link = "Down" THEN "sleep" ELSE "top"
  /\ UNCHANGED <<venue, stop, conn, left, ticket, moved, remote>>

Sleep ==
  /\ pc = "sleep"
  /\ timer' = After(timer, 1)
  /\ pc' = "top"
  /\ UNCHANGED <<venue, stop, conn, left, ticket, moved, asked, remote>>

(* The flag is read once a round; shutdown sends Close and drops the link. *)
Shutdown ==
  /\ pc = "top" /\ stop
  /\ DropLink
  /\ pc' = "done"
  /\ UNCHANGED <<venue, stop, left, timer, ticket, moved>>

-----------------------------------------------------------------------------
(* The venue and the process around the feed (external).                   *)
MaySend == link = "Open" /\ peer = "Up" /\ Len(wire) + Len(buf) < MaxWaiting
Sends(f, p) ==
  /\ MaySend
  /\ wire' = Append(wire, f)
  /\ part' = p
  /\ UNCHANGED <<venue, pc, stop, conn, left, timer, ticket, moved, asked, peer>>

VenueSendsControl == \E op \in {"Ping", "Close"} : Sends(Control(op), part)

(* A venue may start a message before it has ended the one before.         *)
VenueStarts == \E fin \in BOOLEAN : Sends(Data("Text", 0, fin), IF fin THEN 0 ELSE 1)

(* The next part, or a continuation of nothing.                            *)
VenueContinues ==
  \E fin \in BOOLEAN :
    LET i == Most(part, 1) IN Sends(Data("Cont", i, fin), IF fin THEN 0 ELSE Least(i + 1, MaxParts + 1))

(* The venue closes, or stops without a word.                              *)
VenueLeaves ==
  /\ peer = "Up"
  /\ peer' \in {"Closed", "Dead"}
  /\ UNCHANGED <<venue, pc, stop, conn, left, timer, ticket, moved, asked, wire, part>>

TicketLapses ==
  /\ ticket.state = "Fresh"
  /\ ticket' = [ticket EXCEPT !.state = "Lapsed"]
  /\ UNCHANGED <<venue, pc, stop, conn, left, timer, moved, asked, remote>>

StopAsked ==
  /\ ~stop /\ pc # "done"
  /\ stop' = TRUE
  /\ UNCHANGED <<venue, pc, conn, left, timer, ticket, moved, asked, remote>>

-----------------------------------------------------------------------------
RenewTicket == \E d \in 0..RestTime : TicketFetched(d) \/ TicketFails(d)
TryConnect == BackOff \/ \E d \in 0..DialTime : DialFails(d) \/ Connect(d)
OnFrame == TakeControl \/ PongFails \/ TakeWhole \/ TakeFragment \/ TakeLast \/ TakeEnds
Pump == \/ \E k \in 1..MaxWaiting, d \in 0..1 : FillReads(k, d)
        \/ FillEmpty \/ FillFails \/ OnFrame
Tick == PeerSilent \/ TickSends \/ TickFails
AskVenue == Subscribe \/ SubscribeFails \/ \E d \in 0..RestTime : StartBooks(d)
Feed == \/ RenewTicket \/ TryConnect \/ Pump \/ Tick \/ EndRound \/ AskVenue
        \/ Sleep \/ Shutdown
Venue == VenueSendsControl \/ VenueStarts \/ VenueContinues \/ VenueLeaves \/ TicketLapses

Next == Feed \/ Venue \/ StopAsked

Spec == Init /\ [][Next]_vars

(* The thread runs, and neither the venue nor its ticket service is        *)
(* unreachable forever.                                                    *)
Fairness ==
  /\ WF_vars(Feed)
  /\ SF_vars(\E d \in 0..DialTime : Connect(d))
  /\ SF_vars(\E d \in 0..RestTime : TicketFetched(d))

FairSpec == Spec /\ Fairness

-----------------------------------------------------------------------------
(* Type correctness.  A socket that is down leaves nothing behind it: no   *)
(* buffered frame, no half message, no ping waiting for an answer.         *)
CryptoTypeOK ==
  /\ venue \in Venues
  /\ pc \in {"top", "poll", "burst", "beat", "subscribe", "books", "sleep", "done"}
  /\ stop \in BOOLEAN /\ pinged \in BOOLEAN
  /\ link \in {"Down", "Open"}
  /\ buf \in Seq(Frame) /\ wire \in Seq(Frame) /\ Len(buf) + Len(wire) <= MaxWaiting
  /\ Len(asm) <= MaxParts /\ left \in 0..Burst
  /\ timer \in TimerType
  /\ ticket \in [due : BOOLEAN, state : {"Unset", "Fresh", "Lapsed"}]
  /\ moved \subseteq {"opens", "disconnects"} /\ asked \subseteq {"streams", "books"}
  /\ peer \in {"Gone", "Up", "Closed", "Dead"} /\ part \in 0..(MaxParts + 1)
  /\ link = "Down" => buf = <<>> /\ asm = <<>> /\ ~pinged

(* What the router is given is one whole message of the connection that is *)
(* open, whatever control frames came between its fragments and whatever   *)
(* was cut off by a reconnect before it (on_frame, Assembly).              *)
WholeMessages ==
  [][(TakeWhole => Whole(<<Head1>>)) /\ (TakeLast => Whole(Append(asm, Head1)))]_vars

(* A frame is handled only on a connection whose subscriptions were sent,  *)
(* and, where a book has to be fetched, only after that was tried: deltas  *)
(* never reach the ring ahead of the start book they apply to (run).       *)
AskedBeforeHandled ==
  pc = "burst" => /\ "streams" \in asked
                  /\ Has("rest") => "books" \in asked

(* The liveness record is overdue by no more than what one pass can block: *)
(* the start books, the sleep, a ticket and a dial, whatever the           *)
(* connection does (poll_once, beat_record).                               *)
BeatsThroughBlocking == timer.beat > -LongestRound

(* The thread gives a venue up as silent only if nothing at all was taken  *)
(* off its connection for two intervals and nothing waits in the buffer,   *)
(* though the timers work with a clock read before the frames (tick).      *)
NotDroppedWhileTalking ==
  [][PeerSilent => timer.idle > 2 * Ping /\ buf = <<>>]_vars

(* A venue that stops without closing is noticed and the link dropped.     *)
DeadPeerNoticed == (link = "Open" /\ peer = "Dead") ~> (link = "Down")

(* A feed that is down comes back, unless it is stopped or holds a ticket  *)
(* that has lapsed: a ticket is renewed after a disconnect only, not after *)
(* a dial that failed (run).                                               *)
Reconnects == link = "Down" ~> (link = "Open" \/ stop \/ ticket.state = "Lapsed")
=============================================================================

------------------------------- MODULE KrxFeed -------------------------------
(***************************************************************************)
(* One KRX feed: the thread of jeed/src/krx.rs around jeed-krx's Receiver  *)
(* (the poll round over several multicast sockets and the liveness record) *)
(* and Pipeline (filters, decoding, staleness, counters).                  *)
(*                                                                         *)
(* The thread meets its environment at poll, at recv and at a clock        *)
(* reading: each is a step, with the private code that follows it.  Time   *)
(* is real time; the system clock is real time plus a skew that an         *)
(* administrator or NTP may step.  Time passes while the thread waits in   *)
(* poll, and at most one unit passes in the rest of a round.               *)
(***************************************************************************)
EXTENDS Integers, Sequences, FiniteSetsExt

CONSTANTS
  N,            \* number of endpoints; they are visited in order
  Modes,        \* Config::mode of the feeds considered
  Burst,        \* Config::burst
  Heartbeat,    \* Config::heartbeat_ns, 0 for none
  StaleAge,     \* Config::stale_ns, 0 for none
  MinWait, MaxWait, DefaultWait,  \* the 1, 1000 and 100 ms of poll_timeout_ms
  Day,          \* NS_PER_DAY
  KstOffset,    \* KST_OFFSET_NS
  Epoch,        \* when the feed starts
  OldDrops,     \* what the segment's drop counter may hold when the feed attaches
  Variants,     \* datagrams other than the ordinary one: flaws, m4, delay
  Steps,        \* by how much the system clock may be stepped
  MaxTime,      \* bound: how long the feed is watched
  MaxArrivals,  \* bound: datagrams sent; a clock step and a stop each take the place
                \* of one, an odd event that of two
  MaxOdd,       \* bound: odd events: a variant, a socket error
  QueueCap      \* datagrams SO_RCVBUF holds for a socket

None == -1
Sockets == 1 .. N
Flaws == {"Short", "OtherCode", "Unknown", "Length", "OtherIsin", "Undecodable"}

ASSUME KrxConfigAssumption ==
  /\ N \in Nat \ {0} /\ Modes \subseteq {"Spin", "Block"} /\ Burst \in Nat \ {0}
  /\ Heartbeat \in Nat /\ StaleAge \in Nat
  /\ MinWait \in Nat \ {0} /\ MaxWait \in Nat /\ DefaultWait \in Nat
  /\ MinWait <= MaxWait /\ DefaultWait <= MaxWait /\ OldDrops \subseteq Nat
ASSUME KrxClockAssumption ==
  /\ Day \in Nat \ {0} /\ KstOffset \in Nat /\ Epoch \in Nat /\ Steps \subseteq Int
  /\ \A v \in Variants : v.flaws \subseteq Flaws /\ v.m4 \in BOOLEAN /\ v.delay \in Nat
ASSUME KrxBoundAssumption ==
  MaxTime \in Nat /\ MaxArrivals \in Nat /\ MaxOdd \in Nat /\ QueueCap \in Nat \ {0}

VARIABLES
  time,      \* real time
  skew,      \* system clock minus real time
  mode,      \* Config::mode of this feed
  \* --- Receiver -------------------------------------------------------------
  pc,        \* where the round is
  ready,     \* sockets this round still visits
  left,      \* datagrams the socket being drained may still yield
  latest,    \* poll_once's latest: reception time of the round's newest datagram
  nextBeat,  \* next_heartbeat_ns
  channels,  \* per socket: received, published, errors
  \* --- Pipeline -------------------------------------------------------------
  stats,     \* Stats: one counter per name
  drops,     \* the segment's drop counter
  ringSeq,   \* records committed to the ring
  \* --- the environment ------------------------------------------------------
  queue,     \* datagrams in each socket's receive buffer
  fault,     \* the error each socket reports next
  stop,      \* the stop flag
  waited,    \* time spent in this round's poll
  worked,    \* the rest of this round has taken its unit of time
  arrived, lost, odd,  \* datagrams sent; those no buffer had room for; odd events
  \* --- what has happened ----------------------------------------------------
  passed,    \* per socket: others' datagrams read, while one of its own waited, since it
             \* was last asked for one
  back,      \* by how much the clock has been stepped back, in all
  forth,     \* by how much it has been stepped forward
  reading,   \* when, in real time, the round's clock reading was made
  lastBeat,  \* the reading of the last liveness record
  carried,   \* the drops of earlier runs that the segment was taken over with
  out,       \* the last record published
  stopAt     \* when the stop flag was set

receiver == <<ready, left, latest, nextBeat, channels>>
pipeline == <<stats, drops, ringSeq>>
network  == <<queue, fault, arrived, lost, odd>>
steps    == <<skew, back, forth>>
history  == <<passed, reading, lastBeat, out, carried>>
pacing   == <<waited, worked>>
vars     == <<time, steps, mode, pc, receiver, pipeline, network, stop, pacing, history, stopAt>>

-----------------------------------------------------------------------------
Dropped  == {"too_short", "unknown_trcode", "wrong_length", "decode_failed"}
Filtered == {"filtered_trcode", "filtered_isin"}
Outcomes == {"published"} \cup Dropped \cup Filtered
Counters == Outcomes \cup {"received", "heartbeats", "stale", "socket_errors"}

\* A datagram: what is wrong with it, whether it is an M4 schedule notice (which
\* the ISIN filter and the age check do not apply to), and when it was stamped.
Datagram == [flaws : SUBSET Flaws, m4 : BOOLEAN, at : Int]
Ordinary == [flaws |-> {}, m4 |-> FALSE, delay |-> 0]

Readings == [at : Int, back : Nat, forth : Nat]

NoRecord == [age |-> 0, error |-> 0, stale |-> FALSE, timed |-> FALSE]

ended == {"stopped", "dead"}

KrxTypeOK ==
  /\ time \in Epoch .. Epoch + MaxTime /\ skew \in Int /\ mode \in Modes
  /\ pc \in {"round", "wait", "drain", "beat"} \cup ended
  /\ ready \subseteq Sockets /\ left \in 0..Burst /\ latest \in Nat \cup {None}
  /\ pc = "drain" => ready # {}
  /\ nextBeat \in Nat
  /\ channels \in [Sockets -> [received : Nat, published : Nat, errors : Nat]]
  /\ stats \in [Counters -> Nat] /\ drops \in Nat /\ carried \in Nat /\ ringSeq \in Nat
  /\ queue \in [Sockets -> Seq(Datagram)] /\ \A s \in Sockets : Len(queue[s]) <= QueueCap
  /\ fault \in [Sockets -> {"none", "transient", "fatal"}]
  /\ stop \in BOOLEAN /\ waited \in 0..MaxWait /\ worked \in BOOLEAN
  /\ arrived \in 0..MaxArrivals /\ lost \in Nat /\ odd \in 0..MaxOdd
  /\ passed \in [Sockets -> Nat] /\ back \in Nat /\ forth \in Nat
  /\ reading \in Readings /\ lastBeat \in Readings /\ stopAt \in Int
  /\ out \in [age : Int, error : Int, stale : BOOLEAN, timed : BOOLEAN]

Init ==
  /\ time = Epoch /\ skew = 0 /\ mode \in Modes
  /\ pc = "round" /\ ready = {} /\ left = 0 /\ latest = None /\ nextBeat = 0
  /\ channels = [s \in Sockets |-> [received |-> 0, published |-> 0, errors |-> 0]]
  /\ stats = [c \in Counters |-> 0] /\ ringSeq = 0
  /\ drops \in OldDrops /\ carried = drops
  /\ queue = [s \in Sockets |-> <<>>] /\ fault = [s \in Sockets |-> "none"]
  /\ stop = FALSE /\ waited = 0 /\ worked = FALSE
  /\ arrived = 0 /\ lost = 0 /\ odd = 0
  /\ passed = [s \in Sockets |-> 0] /\ back = 0 /\ forth = 0
  /\ reading = [at |-> Epoch, back |-> 0, forth |-> 0] /\ lastBeat = reading
  /\ out = NoRecord /\ stopAt = 0

-----------------------------------------------------------------------------
(***************************************************************************)
(* The clock, and the venue's dateless time of day.                        *)
(***************************************************************************)
NowNs == IF time + skew < 0 THEN 0 ELSE time + skew

Reading == [at |-> time, back |-> back, forth |-> forth]

\* Mutant: the reading is put on the day of reception.
AbsoluteNsSameDay(tod, recv) ==
  recv - ((recv + KstOffset) % Day) + tod

\* The day that puts the reading nearest the moment of reception.
AbsoluteNs(tod, recv) ==
  LET base   == tod - KstOffset
      before == base + ((recv - base) \div Day) * Day
      after  == before + Day
      chosen == IF recv - before <= after - recv THEN before ELSE after
  IN  IF chosen < 0 THEN 0 ELSE chosen

Saturating(a, b) == IF a < b THEN 0 ELSE a - b

IsStale(venueNs, recv) == StaleAge # 0 /\ Saturating(recv, venueNs) > StaleAge

\* Mutant: the wait is the liveness interval, however long.
PollTimeoutUnclamped == IF Heartbeat = 0 THEN DefaultWait ELSE Heartbeat

\* The readiness wait: the liveness interval, within bounds.
PollTimeout ==
  IF Heartbeat = 0 THEN DefaultWait
  ELSE IF Heartbeat < MinWait THEN MinWait
  ELSE IF Heartbeat > MaxWait THEN MaxWait
  ELSE Heartbeat

-----------------------------------------------------------------------------
(***************************************************************************)
(* Pipeline::ingest: the first check a datagram fails decides what becomes *)
(* of it.  Another product's traffic is filtered and is nobody's drop.     *)
(***************************************************************************)
Checks == << <<"Short", "too_short">>, <<"OtherCode", "filtered_trcode">>,
             <<"Unknown", "unknown_trcode">>, <<"Length", "wrong_length">>,
             <<"OtherIsin", "filtered_isin">>, <<"Undecodable", "decode_failed">> >>

Fails(d, check) == check[1] \in d.flaws /\ ~(check[1] = "OtherIsin" /\ d.m4)

Outcome(d) ==
  LET failed == {i \in DOMAIN Checks : Fails(d, Checks[i])}
  IN  IF failed = {} THEN "published" ELSE Checks[Min(failed)][2]

Bump(f, c) == [f EXCEPT ![c] = @ + 1]

\* Mutant: the other products' traffic is reported as dropped, too.
IngestNotingFiltered(d, recv) ==
  LET o == Outcome(d) IN
  /\ stats' = Bump(Bump(stats, "received"), o)
  /\ drops' = IF o \in Dropped \cup Filtered THEN drops + 1 ELSE drops
  /\ ringSeq' = IF o = "published" THEN ringSeq + 1 ELSE ringSeq
  /\ UNCHANGED out

Ingest(d, recv) ==
  LET o       == Outcome(d)
      venueNs == AbsoluteNs((d.at + KstOffset) % Day, recv)
      stale   == o = "published" /\ ~d.m4 /\ IsStale(venueNs, recv)
      counted == Bump(Bump(stats, "received"), o)
  IN  /\ stats' = IF stale THEN Bump(counted, "stale") ELSE counted
      /\ drops' = IF o \in Dropped THEN drops + 1 ELSE drops
      /\ IF o = "published"
         THEN /\ ringSeq' = ringSeq + 1
              /\ out' = IF d.m4 THEN [NoRecord EXCEPT !.stale = stale]
                        ELSE [age |-> recv - d.at, error |-> venueNs - d.at,
                              stale |-> stale, timed |-> TRUE]
         ELSE UNCHANGED <<ringSeq, out>>

-----------------------------------------------------------------------------
(***************************************************************************)
(* Receiver::poll_once.                                                    *)
(***************************************************************************)
Readable == {s \in Sockets : queue[s] # <<>> \/ fault[s] # "none"}

\* Mutant: a readiness wait that found nothing still visits.
VisitAnyway(R) ==
  /\ ready' = R
  /\ left' = Burst
  /\ pc' = "drain"

Visit(R) ==
  /\ ready' = R
  /\ left' = Burst
  /\ pc' = IF R = {} THEN "beat" ELSE "drain"

SpinRound ==
  /\ pc = "round" /\ ~stop /\ mode = "Spin"
  /\ Visit(Sockets)
  /\ UNCHANGED <<time, steps, mode, latest, nextBeat, channels, pipeline, network, stop, pacing,
                 history, stopAt>>

BlockRound ==
  /\ pc = "round" /\ ~stop /\ mode = "Block"
  /\ pc' = "wait"
  /\ UNCHANGED <<time, steps, mode, receiver, pipeline, network, stop, pacing, history, stopAt>>

\* poll returns: with the readable sockets, after the timeout, or on EINTR.
PollReturns ==
  /\ pc = "wait"
  /\ \/ Readable # {} /\ Visit(Readable)
     \/ Readable = {} /\ waited = PollTimeout /\ Visit({})
     \/ Visit({})
  /\ UNCHANGED <<time, steps, mode, latest, nextBeat, channels, pipeline, network, stop,
                 pacing, history, stopAt>>

PollFails ==
  /\ pc = "wait"
  /\ pc' = "dead"
  /\ UNCHANGED <<time, steps, mode, receiver, pipeline, network, stop, pacing, history, stopAt>>

-----------------------------------------------------------------------------
(***************************************************************************)
(* Receiver::drain, for the first socket of the round not yet visited.     *)
(***************************************************************************)
Current == Min(ready)

\* Mutant: a socket is read until it is empty.
SpendNoTurn == UNCHANGED left

SpendTurn == left' = left - 1

RecvDatagram ==
  /\ pc = "drain" /\ left > 0 /\ fault[Current] = "none" /\ queue[Current] # <<>>
  /\ queue' = [queue EXCEPT ![Current] = Tail(@)]
  /\ SpendTurn
  /\ latest' = NowNs
  /\ reading' = Reading
  /\ Ingest(Head(queue[Current]), NowNs)
  /\ channels' = [channels EXCEPT ![Current].received = @ + 1,
                    ![Current].published = @ + (stats'["published"] - stats["published"])]
  /\ passed' = [s \in Sockets |->
                  IF s = Current \/ queue[s] = <<>> THEN 0 ELSE passed[s] + 1]
  /\ UNCHANGED <<time, steps, mode, pc, ready, nextBeat, fault, arrived, lost, odd, stop,
                 pacing, lastBeat, carried, stopAt>>

\* An error the loop absorbs uses up one of the socket's turns.
RecvTransient ==
  /\ pc = "drain" /\ left > 0 /\ fault[Current] = "transient"
  /\ fault' = [fault EXCEPT ![Current] = "none"]
  /\ SpendTurn
  /\ channels' = [channels EXCEPT ![Current].errors = @ + 1]
  /\ stats' = Bump(stats, "socket_errors")
  /\ passed' = [passed EXCEPT ![Current] = 0]
  /\ UNCHANGED <<time, steps, mode, pc, ready, latest, nextBeat, drops, ringSeq, queue, arrived,
                 lost, odd, stop, pacing, reading, lastBeat, out, carried, stopAt>>

RecvFatal ==
  /\ pc = "drain" /\ left > 0 /\ fault[Current] = "fatal"
  /\ pc' = "dead"
  /\ UNCHANGED <<time, steps, mode, receiver, pipeline, network, stop, pacing, history, stopAt>>

NextSocket ==
  /\ pc = "drain"
  /\ left = 0 \/ Current \notin Readable
  /\ Visit(ready \ {Current})
  /\ UNCHANGED <<time, steps, mode, latest, nextBeat, channels, pipeline, network, stop, pacing,
                 history, stopAt>>

-----------------------------------------------------------------------------
(***************************************************************************)
(* Receiver::beat, and the end of the round.                               *)
(***************************************************************************)
EndRound == pc' = "round" /\ latest' = None /\ waited' = 0 /\ worked' = FALSE /\ out' = NoRecord

\* Only a quiet round reads the clock.
Now == IF latest = None THEN NowNs ELSE latest

\* Mutant: only a quiet round writes the liveness record.
DueWhenQuiet(now) == Heartbeat # 0 /\ latest = None /\ now >= nextBeat

Due(now) == Heartbeat # 0 /\ now >= nextBeat

\* Mutant: the next record is scheduled from the one that was due.
ScheduleFromDue(now) == nextBeat' = nextBeat + Heartbeat

Schedule(now) == nextBeat' = now + Heartbeat

Beat ==
  /\ pc = "beat" /\ Due(Now)
  /\ Schedule(Now)
  /\ stats' = Bump(stats, "heartbeats")
  /\ ringSeq' = ringSeq + 1
  /\ lastBeat' = IF latest = None THEN Reading ELSE reading
  /\ reading' = lastBeat'
  /\ EndRound
  /\ UNCHANGED <<time, steps, mode, ready, left, channels, drops, network, stop, passed, carried,
                 stopAt>>

NoBeat ==
  /\ pc = "beat" /\ ~Due(Now)
  /\ reading' = lastBeat
  /\ EndRound
  /\ UNCHANGED <<time, steps, mode, ready, left, nextBeat, channels, pipeline, network, stop,
                 passed, lastBeat, carried, stopAt>>

\* The loop of run: the flag is read once a round.
StopSeen ==
  /\ pc = "round" /\ stop
  /\ pc' = "stopped"
  /\ UNCHANGED <<time, steps, mode, receiver, pipeline, network, stop, pacing, history, stopAt>>

Feed ==
  \/ SpinRound \/ BlockRound \/ PollReturns \/ PollFails
  \/ RecvDatagram \/ RecvTransient \/ RecvFatal \/ NextSocket
  \/ Beat \/ NoBeat \/ StopSeen

-----------------------------------------------------------------------------
(***************************************************************************)
(* The environment: the exchange, the network, the clock, the operator.    *)
(* It acts while the thread is in poll or recv; the steps between are       *)
(* private to the thread and nothing is gained by acting there.             *)
(***************************************************************************)
PassTime ==
  /\ time < Epoch + MaxTime
  /\ time' = time + 1
  /\ \/ /\ pc = "wait" /\ Readable = {} /\ waited < PollTimeout
        /\ waited' = waited + 1 /\ UNCHANGED worked
     \/ /\ pc = "drain" /\ ~worked
        /\ worked' = TRUE /\ UNCHANGED waited
  /\ UNCHANGED <<steps, mode, pc, receiver, pipeline, network, stop, history, stopAt>>

One(b) == IF b THEN 1 ELSE 0

WithinBounds ==
  odd' <= MaxOdd /\ arrived' + 2 * odd' + One(skew' # 0) + One(stop') <= MaxArrivals

Arrive(s, v) ==
  /\ arrived' = arrived + 1
  /\ IF v = Ordinary THEN UNCHANGED odd ELSE odd' = odd + 1
  /\ IF Len(queue[s]) < QueueCap
     THEN /\ queue' = [queue EXCEPT ![s] =
                         Append(@, [flaws |-> v.flaws, m4 |-> v.m4, at |-> time - v.delay])]
          /\ UNCHANGED lost
     ELSE lost' = lost + 1 /\ UNCHANGED queue
  /\ UNCHANGED <<time, steps, mode, pc, receiver, pipeline, fault, stop, pacing, history, stopAt>>
  /\ WithinBounds

SocketError(s, f) ==
  /\ fault[s] = "none"
  /\ fault' = [fault EXCEPT ![s] = f]
  /\ odd' = odd + 1
  /\ UNCHANGED <<time, steps, mode, pc, receiver, pipeline, queue, arrived, lost, stop, pacing,
                 history, stopAt>>
  /\ WithinBounds

StepClock(k) ==
  /\ skew = 0
  /\ skew' = k
  /\ back' = Saturating(0, k) /\ forth' = Saturating(k, 0)
  /\ UNCHANGED <<time, mode, pc, receiver, pipeline, network, stop, pacing, history, stopAt>>
  /\ WithinBounds

AskToStop ==
  /\ ~stop
  /\ stop' = TRUE /\ stopAt' = time
  /\ UNCHANGED <<time, steps, mode, pc, receiver, pipeline, network, pacing, history>>
  /\ WithinBounds

Environment ==
  /\ pc \in {"wait", "drain"}
  /\ \/ PassTime
     \/ \E s \in Sockets, v \in Variants \cup {Ordinary} : Arrive(s, v)
     \/ \E s \in Sockets, f \in {"transient", "fatal"} : SocketError(s, f)
     \/ \E k \in Steps : StepClock(k)
     \/ AskToStop

Next == Feed \/ Environment

Spec == Init /\ [][Next]_vars

-----------------------------------------------------------------------------
(***************************************************************************)
(* Properties.                                                             *)
(***************************************************************************)
\* Stats::dropped and Stats::filtered.
DroppedOf(c)  == c["too_short"] + c["unknown_trcode"] + c["wrong_length"] + c["decode_failed"]
FilteredOf(c) == c["filtered_trcode"] + c["filtered_isin"]

\* A count of each socket, added up over the sockets.
Total(x) ==
  LET upTo[s \in 0..N] == IF s = 0 THEN 0 ELSE upTo[s - 1] + x[s] IN upTo[N]

(* Every counter tells the same story: each datagram the venue sent is     *)
(* counted once by the socket and once by the pipeline, or is still queued *)
(* or was lost in the kernel; what this run added to the drops the segment *)
(* was taken over with is every datagram it wanted and could not deliver,  *)
(* Stats::dropped, and no other product's traffic (the four calls of       *)
(* note_drops in Pipeline::ingest); the ring holds the published records   *)
(* and the liveness records.                                               *)
CountersAgree ==
  /\ Total([s \in Sockets |-> channels[s].received]) = stats["received"]
  /\ Total([s \in Sockets |-> channels[s].published]) = stats["published"]
  /\ Total([s \in Sockets |-> channels[s].errors]) = stats["socket_errors"]
  /\ stats["received"] = stats["published"] + DroppedOf(stats) + FilteredOf(stats)
  /\ arrived = stats["received"] + lost + Total([s \in Sockets |-> Len(queue[s])])
  /\ drops = carried + DroppedOf(stats)
  /\ ringSeq = stats["published"] + stats["heartbeats"]

(* No socket starves: while a datagram waits on one socket, the others are *)
(* read at most a burst each before that socket is asked again             *)
(* (Receiver::drain), twice that when the datagram came just too late for  *)
(* the readiness wait of the round.  To be asked is not to be served: an   *)
(* error takes the place of a datagram in the socket's burst.              *)
NoSocketStarves ==
  \A s \in Sockets :
    queue[s] # <<>> =>
      passed[s] <= (N - 1) * Burst * (IF mode = "Spin" THEN 1 ELSE 2)

(* The liveness record keeps its cadence however busy or quiet the sockets *)
(* are: late by one round at most, and by what the system clock was        *)
(* stepped back since the last one (Receiver::poll_once, beat).            *)
BeatCadence ==
  pc \notin ended /\ Heartbeat # 0 =>
    time - lastBeat.at <=
      Heartbeat + (back - lastBeat.back) + 1 + (IF mode = "Block" THEN PollTimeout ELSE 0)

(* A loop that fell behind resumes the cadence and does not catch up:      *)
(* two liveness records are at least the interval apart, less what the     *)
(* clock was stepped forward in between (Receiver::beat).                  *)
BeatsNotBunched ==
  [][ stats'["heartbeats"] > stats["heartbeats"] /\ stats["heartbeats"] > 0 =>
        lastBeat'.at - lastBeat.at >= Heartbeat - (lastBeat'.forth - lastBeat.forth) ]_vars

(* STALE means old: as long as our clock and the exchange's are less than  *)
(* half a day apart, a published record carries the instant the exchange   *)
(* stamped, midnight or not, and is flagged exactly when it is older than  *)
(* the threshold; one without an exchange time is never flagged            *)
(* (clock::absolute_ns, mark_stale).                                       *)
StaleMeansOld ==
  /\ out.timed /\ 2 * out.age < Day /\ -2 * out.age < Day =>
       /\ out.error = 0
       /\ out.stale <=> StaleAge # 0 /\ out.age > StaleAge
  /\ ~out.timed => ~out.stale

(* A stop is prompt: the feed ends within one bounded wait of being asked, *)
(* whatever the liveness interval and however busy the sockets are         *)
(* (Receiver::run_until, Config::poll_timeout_ms).                         *)
StopIsPrompt ==
  stop /\ pc \notin ended => time - stopAt <= MaxWait + 1
====

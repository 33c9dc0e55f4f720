------------------------------ MODULE FixSession ------------------------------
(***************************************************************************)
(* One FIX 4.4 market-data session of jeed-fix: Receiver (the poll loop,   *)
(* the link and its timers), Pipeline (routing and replies), SessionState  *)
(* (inbound numbers and silence) and Emitter (outbound numbers), driven by *)
(* the feed thread of jeed/src/fix.rs.  The venue and the TCP connection   *)
(* are the environment.                                                    *)
(*                                                                         *)
(* The handler is one thread: it meets the venue and the clock only at a   *)
(* read, a write and a clock reading.  A round of the loop is therefore a  *)
(* connect or a read, then one step per framed message, then the timers.   *)
(* Time passes while the thread blocks: in the resolver and connect, for   *)
(* DialTime at most; in the reads, the writes and the sleep of a round,    *)
(* for RoundTime at most together.  The code between is instantaneous.     *)
(* recv_ns is the clock at the message, `now` the clock at the start of    *)
(* the round, before it has blocked, as in the code.                       *)
(***************************************************************************)
EXTENDS Integers, Sequences

CONSTANTS
  Heartbeat,     \* cfg.heartbeat_ns: 0 would disable the session's liveness
  LogonTimeout,  \* cfg.logon_timeout_ns
  Reconnect,     \* cfg.reconnect_ns
  RecordBeat,    \* cfg.record_heartbeat_ns
  Burst,         \* cfg.burst
  DialTime,      \* the longest attempt: DNS, link.connect_timeout, the Logon's write
  RoundTime,     \* the longest other blocking of a round: read_timeout, write_timeouts, sleep
  Offers,        \* HeartBtInt values the venue's Logon may name; Unset for none
  Firsts,        \* numbers the venue's first message may carry
  Kinds,         \* what the venue may send unasked
  GapFills,      \* the venue gap-fills numbers it will not replay
  MaxTime,       \* bound: how long the environment is watched
  MaxNumber,     \* bound: numbers the venue uses in a session
  MaxInFlight    \* bound: messages the venue has under way

Unset == -1

MarketData == {"MD", "Quiet"}     \* published; filtered or refused by the adapter
Admin      == {"Logon", "Heartbeat", "TestRequest", "ResendRequest",
               "GapFill", "Reset", "Logout"}
Unjudged   == {"Other", "Bad"}    \* not routed; refused by a decoder
Unframed   == {"Garbage"}         \* bytes that do not frame

\* What the venue sends of its own accord, with two faults: a number that never
\* comes and a number that comes back.
Unasked == MarketData \cup (Admin \ {"GapFill"}) \cup Unjudged \cup Unframed \cup {"Skip", "Regress"}

ASSUME TimersAssumption ==
  /\ Heartbeat \in Nat \ {0} /\ LogonTimeout \in Nat \ {0}
  /\ Reconnect \in Nat /\ RecordBeat \in Nat \ {0} /\ Burst \in Nat \ {0}
  /\ DialTime \in Nat /\ RoundTime \in Nat \ {0}
ASSUME VenueAssumption ==
  /\ Offers \subseteq Nat \cup {Unset} /\ Firsts \subseteq Nat \ {0}
  /\ Kinds \subseteq Unasked /\ GapFills \in BOOLEAN
ASSUME FixBoundAssumption ==
  MaxTime \in Nat \ {0} /\ MaxNumber \in Nat /\ MaxInFlight \in Nat

VARIABLES
  clock,        \* the system clock; starts after the 0 the code keeps for "never"
  \* --- Receiver -------------------------------------------------------------
  pc,           \* where the round is
  now,          \* poll_once's clock reading
  spent,        \* how long this round has blocked, a dial apart
  budget,       \* messages the round may still frame
  state,        \* LinkState
  tested,       \* a TestRequest has been sent for this silence
  nextConnect,  \* next_connect_ns
  logonSent,    \* logon_sent_ns
  nextBeat,     \* next_record_heartbeat_ns
  fresh,        \* stats.logons > logons_seen
  fits,         \* the 35=V this feed's conf describes fits MAX_EMIT_LEN
  ses,          \* SessionState: nextExpected, lastRecv, interval
  em,           \* Emitter: nextSeq, lastSent
  \* --- the connection -------------------------------------------------------
  inbox,        \* messages on the socket
  buffer,       \* messages read into the FrameBuffer
  outbox,       \* our messages the venue has something to say to
  closed,       \* the venue has closed its end
  \* --- the venue ------------------------------------------------------------
  vOn,          \* it has sent its Logon
  vNext,        \* the number its next message carries
  vLog,         \* what it has used its numbers for
  \* --- what has happened in this session ------------------------------------
  seen,         \* numbers judged, or declared void by a SequenceReset
  asked,        \* how often each number was asked for again
  lastPub,      \* number of the newest message published
  testAt,       \* when a TestRequest last went out
  wire,         \* number of our last message on this connection
  unsent,       \* numbers on this connection used up by a 35=V that was not written
  subscribed,   \* a 35=V went out
  lastBeat      \* when the last liveness record was published

loop     == <<pc, now, spent, budget>>
timers   == <<tested, nextConnect, logonSent, nextBeat, fresh, fits>>
network  == <<inbox, buffer, outbox, closed>>
venue    == <<vOn, vNext, vLog>>
history  == <<seen, asked, lastPub, testAt, wire, unsent, subscribed, lastBeat>>
vars     == <<clock, loop, state, timers, ses, em, network, venue, history>>

-----------------------------------------------------------------------------
Numbers == 1 .. MaxNumber

Message == [kind : MarketData \cup Admin \cup Unjudged \cup Unframed,
            seq : Nat, dup : BOOLEAN, arg : Nat \cup {Unset}]
Request == [kind : {"Logon", "TestRequest", "ResendRequest"}, from : Nat, to : Nat]

NewSession == [nextExpected |-> 1, lastRecv |-> 0, interval |-> 0]
NewEmitter == [nextSeq |-> 1, lastSent |-> 0]

FixTypeOK ==
  /\ clock \in 1..MaxTime /\ now \in 0..MaxTime
  /\ pc \in {"poll", "read", "burst", "end", "rest", "stopped"}
  /\ spent \in 0..RoundTime /\ budget \in 0..Burst
  /\ state \in {"Disconnected", "LoggingOn", "LoggedOn"}
  /\ tested \in BOOLEAN /\ fresh \in BOOLEAN /\ fits \in BOOLEAN
  /\ nextConnect \in Nat /\ logonSent \in 0..MaxTime /\ nextBeat \in Nat
  /\ ses \in [nextExpected : Nat, lastRecv : Nat, interval : Nat]
  /\ em \in [nextSeq : Nat \ {0}, lastSent : Nat]
  /\ inbox \in Seq(Message) /\ buffer \in Seq(Message) /\ outbox \in Seq(Request)
  /\ closed \in BOOLEAN /\ vOn \in BOOLEAN
  /\ vNext \in Nat /\ vLog \in [Numbers -> {"unused", "MD", "Admin"}]
  /\ seen \subseteq Numbers /\ asked \in [Numbers -> Nat] /\ lastPub \in Nat
  /\ testAt \in 0..MaxTime /\ wire \in Nat /\ unsent \subseteq Nat
  /\ subscribed \in BOOLEAN /\ lastBeat \in 0..MaxTime
  /\ state = "Disconnected" => inbox = <<>> /\ buffer = <<>> /\ outbox = <<>>

-----------------------------------------------------------------------------
Init ==
  /\ clock = 1 /\ now = 0
  /\ pc = "poll" /\ spent = 0 /\ budget = 0
  /\ state = "Disconnected" /\ tested = FALSE /\ fresh = FALSE /\ fits \in BOOLEAN
  /\ nextConnect = 0 /\ logonSent = 0 /\ nextBeat = 0
  /\ ses = NewSession /\ em = NewEmitter
  /\ inbox = <<>> /\ buffer = <<>> /\ outbox = <<>> /\ closed = FALSE
  /\ vOn = FALSE /\ vNext = 1 /\ vLog = [n \in Numbers |-> "unused"]
  /\ seen = {} /\ asked = [n \in Numbers |-> 0] /\ lastPub = 0
  /\ testAt = 0 /\ wire = 0 /\ unsent = {} /\ subscribed = FALSE /\ lastBeat = 0

-----------------------------------------------------------------------------
(***************************************************************************)
(* SessionState.                                                           *)
(***************************************************************************)
Verdict(s, m) ==
  CASE m.seq = s.nextExpected -> "InOrder"
    [] m.seq > s.nextExpected -> "Gap"
    [] m.seq < s.nextExpected /\ m.dup -> "Duplicate"
    [] m.seq < s.nextExpected /\ ~m.dup -> "Regression"

\* Mutant: a gap leaves the expected number at the hole.
ObserveStalling(s, m, t) ==
  [s EXCEPT !.lastRecv = t,
            !.nextExpected = IF m.seq = @ THEN m.seq + 1 ELSE @]

\* observe: a gap advances the expected number past the hole.
Observe(s, m, t) ==
  [s EXCEPT !.lastRecv = t,
            !.nextExpected = IF m.seq >= @ THEN m.seq + 1 ELSE @]

\* apply_admin, whatever the verdict was.
ApplyAdmin(s, m) ==
  [s EXCEPT !.interval = IF m.kind = "Logon" /\ m.arg # Unset THEN m.arg ELSE @,
            !.nextExpected = IF m.kind \in {"GapFill", "Reset"} THEN m.arg ELSE @]

IsSilent(t, factor) ==
  /\ ses.interval # 0 /\ ses.lastRecv # 0
  /\ t - ses.lastRecv > ses.interval * factor

(***************************************************************************)
(* Pipeline: the one reply a judged message leaves us owing, and whether   *)
(* the connection goes after it.                                           *)
(***************************************************************************)
OwnReply(m) ==
  CASE m.kind = "TestRequest"   -> "Heartbeat"
    [] m.kind = "ResendRequest" -> "SequenceReset"
    [] m.kind = "Logout"        -> "Logout"
    [] OTHER                    -> "none"

\* Mutant: a TestRequest is answered first.
AnswerTestFirst(m, v) ==
  CASE v = "Regression"    -> "Logout"
    [] v = "Duplicate"     -> "none"
    [] v = "Gap" /\ m.kind # "TestRequest" -> "ResendRequest"
    [] OTHER -> OwnReply(m)

Answer(m, v) ==
  CASE v = "Regression" -> "Logout"
    [] v = "Duplicate"  -> "none"
    [] v = "Gap"        -> "ResendRequest"
    [] OTHER            -> OwnReply(m)

Disconnects(m, v) ==
  v = "Regression" \/ (v \in {"InOrder", "unjudged"} /\ m.kind = "Logout")

-----------------------------------------------------------------------------
(***************************************************************************)
(* Sending.  Emitter::build consumes a number and stamps the time, then    *)
(* the message goes on the wire or fails to: a closed connection refuses   *)
(* it, and on an open one a write times out, or in spin mode would block.  *)
(* Only what the venue answers is kept in outbox.                          *)
(***************************************************************************)
Built(t) == [nextSeq |-> em.nextSeq + 1, lastSent |-> t]

\* Mutant: the receive buffer outlives its connection.
DropLinkOnly ==
  /\ state' = "Disconnected" /\ tested' = FALSE
  /\ inbox' = <<>> /\ UNCHANGED buffer /\ outbox' = <<>>
  /\ closed' = FALSE /\ vOn' = FALSE

(***************************************************************************)
(* drop_link, with the connection and the venue's end of it.               *)
(***************************************************************************)
DropLink ==
  /\ state' = "Disconnected" /\ tested' = FALSE
  /\ inbox' = <<>> /\ buffer' = <<>> /\ outbox' = <<>>
  /\ closed' = FALSE /\ vOn' = FALSE

\* A send or a read failed: note_disconnect, drop_link, out of the round.
Fail ==
  /\ DropLink
  /\ pc' = "end"

-----------------------------------------------------------------------------
(***************************************************************************)
(* poll_once on a session that is down: try_connect.                       *)
(***************************************************************************)
Dial == pc = "poll" /\ state = "Disconnected" /\ now' = clock /\ pc' = "end"

BackingOff ==
  /\ Dial
  /\ clock < nextConnect
  /\ UNCHANGED <<clock, spent, budget, state, timers, ses, em, network, venue, history>>

\* An attempt that blocks for d: the backoff counts from its start.
Attempt(d) ==
  /\ Dial
  /\ clock >= nextConnect
  /\ nextConnect' = clock + Reconnect
  /\ clock + d <= MaxTime /\ clock' = clock + d

\* The host does not resolve, or connect or set_mode fails.
DialFails(d) ==
  /\ Attempt(d)
  /\ UNCHANGED <<spent, budget, state, tested, logonSent, nextBeat, fresh, fits>>
  /\ UNCHANGED <<ses, em, network, venue, history>>

\* Both directions start over; then the Logon does not fit, or is not written.
LogonFails(d) ==
  /\ Attempt(d)
  /\ ses' = NewSession
  /\ em' \in {NewEmitter, [nextSeq |-> 2, lastSent |-> clock]}
  /\ UNCHANGED <<spent, budget, state, tested, logonSent, nextBeat, fresh, fits>>
  /\ UNCHANGED <<network, venue, history>>

\* Nothing of the last session is remembered, by the venue or in the record.
Forget ==
  /\ vLog' = [n \in Numbers |-> "unused"]
  /\ seen' = {} /\ asked' = [n \in Numbers |-> 0] /\ lastPub' = 0 /\ testAt' = 0

NewConnection(first) ==
  /\ Forget
  /\ vOn' = FALSE /\ vNext' = first
  /\ subscribed' = FALSE /\ unsent' = {}
  /\ outbox' = <<[kind |-> "Logon", from |-> 0, to |-> 0]>>

\* Mutant: our numbers go on from the last connection's.
ConnectResuming(first, d) ==
  /\ Attempt(d)
  /\ ses' = NewSession
  /\ em' = [nextSeq |-> em.nextSeq + 1, lastSent |-> clock]
  /\ wire' = em.nextSeq
  /\ state' = "LoggingOn" /\ logonSent' = clock /\ tested' = FALSE
  /\ NewConnection(first)
  /\ UNCHANGED <<spent, budget, nextBeat, fresh, fits, inbox, buffer, closed, lastBeat>>

\* The Logon and its deadline carry the clock from before the attempt.
Connect(first, d) ==
  /\ Attempt(d)
  /\ ses' = NewSession
  /\ em' = [nextSeq |-> 2, lastSent |-> clock]
  /\ wire' = 1
  /\ state' = "LoggingOn" /\ logonSent' = clock /\ tested' = FALSE
  /\ NewConnection(first)
  /\ UNCHANGED <<spent, budget, nextBeat, fresh, fits, inbox, buffer, closed, lastBeat>>

-----------------------------------------------------------------------------
(***************************************************************************)
(* poll_once on a live connection: pump.                                   *)
(***************************************************************************)
StartPump ==
  /\ pc = "poll" /\ state # "Disconnected"
  /\ now' = clock
  /\ pc' = "read"
  /\ UNCHANGED <<clock, spent, budget, state, timers, ses, em, network, venue, history>>

\* Link::fill: what is waiting, or nothing when the wait timed out.
Fill ==
  /\ pc = "read"
  /\ inbox # <<>> \/ ~closed
  /\ buffer' = buffer \o inbox /\ inbox' = <<>>
  /\ budget' = Burst
  /\ pc' = "burst"
  /\ UNCHANGED <<clock, now, spent, state, timers, ses, em, outbox, closed, venue, history>>

FillFails ==
  /\ pc = "read" /\ closed
  /\ Fail
  /\ UNCHANGED <<clock, now, spent, budget, nextConnect, logonSent, nextBeat, fresh, fits>>
  /\ UNCHANGED <<ses, em, vNext, vLog, history>>

\* The message at the head of the buffer, and whether the round may frame it.
Framed(kinds) ==
  pc = "burst" /\ budget > 0 /\ buffer # <<>> /\ Head(buffer).kind \in kinds

\* A stream that does not frame cannot be resynchronised.
FramingError ==
  /\ Framed(Unframed)
  /\ DropLink
  /\ pc' = "end"
  /\ UNCHANGED <<clock, now, spent, budget, nextConnect, logonSent, nextBeat, fresh, fits>>
  /\ UNCHANGED <<ses, em, vNext, vLog, history>>

\* Not routed, or refused by its decoder: counted, and not judged.
IngestUnjudged ==
  /\ Framed(Unjudged)
  /\ buffer' = Tail(buffer) /\ budget' = budget - 1
  /\ UNCHANGED <<clock, pc, now, spent, state, timers, ses, em, inbox, outbox, closed>>
  /\ UNCHANGED <<venue, history>>

(***************************************************************************)
(* Sends the reply r, then carries on or hangs up.  begin is the number    *)
(* that was expected, m the message that came.                             *)
(***************************************************************************)
Reply(r, m, begin, hangUp) ==
  \/ /\ IF r = "none"
        THEN UNCHANGED <<em, wire>>
        ELSE em' = Built(now) /\ wire' = em.nextSeq
     /\ asked' = IF r = "ResendRequest"
                 THEN [n \in Numbers |-> asked[n] + IF n \in begin .. m.seq - 1 THEN 1 ELSE 0]
                 ELSE asked
     /\ IF hangUp
        THEN DropLink /\ pc' = "end" /\ UNCHANGED budget
        ELSE /\ buffer' = Tail(buffer) /\ budget' = budget - 1
             /\ outbox' = IF r = "ResendRequest"
                          THEN Append(outbox, [kind |-> r, from |-> begin, to |-> m.seq - 1])
                          ELSE outbox
             /\ state' = IF m.kind = "Logon" THEN "LoggedOn" ELSE state
             /\ tested' = (tested /\ m.kind # "Logon")
             /\ UNCHANGED <<pc, inbox, closed, vOn>>
  \/ /\ r # "none"
     /\ Fail
     /\ em' = Built(now)
     /\ UNCHANGED <<wire, asked, budget>>

(***************************************************************************)
(* 35=W / 35=X: judged, and published unless it repeats a number.          *)
(***************************************************************************)
IngestMarketData ==
  /\ Framed(MarketData)
  /\ LET m == Head(buffer)
         v == Verdict(ses, m)
     IN /\ ses' = Observe(ses, m, clock)
        /\ seen' = seen \cup {m.seq}
        /\ lastPub' = IF m.kind = "MD" /\ v \in {"InOrder", "Gap"} THEN m.seq ELSE lastPub
        /\ Reply(Answer(m, v), m, ses.nextExpected, Disconnects(m, v))
  /\ UNCHANGED <<clock, now, spent, nextConnect, logonSent, nextBeat, fresh, fits>>
  /\ UNCHANGED <<vNext, vLog, testAt, unsent, subscribed, lastBeat>>

(***************************************************************************)
(* Administration: a SequenceReset without GapFillFlag is not judged; the  *)
(* message is applied whatever the verdict.  A Logon completes the session *)
(* and, naming no interval, leaves it with the one we proposed.            *)
(***************************************************************************)
\* Mutant: the venue's interval is taken as it comes.
AppliedAsOffered(m) ==
  ApplyAdmin(IF m.kind = "Reset" THEN ses ELSE Observe(ses, m, clock), m)

Applied(m) ==
  LET s == ApplyAdmin(IF m.kind = "Reset" THEN ses ELSE Observe(ses, m, clock), m)
  IN [s EXCEPT !.interval = IF m.kind = "Logon" /\ @ = 0 THEN Heartbeat ELSE @]

IngestAdmin ==
  /\ Framed(Admin)
  /\ LET m == Head(buffer)
         v == IF m.kind = "Reset" THEN "unjudged" ELSE Verdict(ses, m)
     IN /\ ses' = Applied(m)
        /\ seen' = seen \cup IF m.kind = "Reset" THEN Numbers \cap (1 .. m.arg - 1)
                                                 ELSE {m.seq}
        /\ fresh' = (fresh \/ m.kind = "Logon")
        /\ Reply(Answer(m, v), m, ses.nextExpected, Disconnects(m, v))
  /\ UNCHANGED <<clock, now, spent, nextConnect, logonSent, nextBeat, fits>>
  /\ UNCHANGED <<vNext, vLog, lastPub, testAt, unsent, subscribed, lastBeat>>

-----------------------------------------------------------------------------
(***************************************************************************)
(* tick: the timers, in the code's order, once the round has framed what   *)
(* it may.                                                                 *)
(***************************************************************************)
Tick(dies) ==
  /\ pc = "burst" /\ (budget = 0 \/ buffer = <<>>)
  /\ pc' = "end"
  /\ LET logonLate == state = "LoggingOn" /\ now - logonSent > LogonTimeout
     IN dies = (logonLate \/ IsSilent(now, 2))

LogonTimesOut ==
  /\ Tick(TRUE)
  /\ state = "LoggingOn" /\ now - logonSent > LogonTimeout
  /\ DropLink
  /\ UNCHANGED <<clock, now, spent, budget, nextConnect, logonSent, nextBeat, fresh, fits>>
  /\ UNCHANGED <<ses, em, vNext, vLog, history>>

\* shutdown("no response to TestRequest"): a Logout, then the link goes.
PeerSilent ==
  /\ Tick(TRUE)
  /\ ~(state = "LoggingOn" /\ now - logonSent > LogonTimeout)
  /\ em' = Built(now)
  /\ DropLink
  /\ UNCHANGED <<clock, now, spent, budget, nextConnect, logonSent, nextBeat, fresh, fits>>
  /\ UNCHANGED <<ses, vNext, vLog, history>>

TestDue == ~tested /\ IsSilent(now, 1)

OwesHeartbeat == em.lastSent # 0 /\ now - em.lastSent >= Heartbeat

\* The TestRequest counts as traffic, so no heartbeat is owed after it.
SendTestRequest ==
  /\ Tick(FALSE)
  /\ TestDue
  /\ em' = Built(now)
  /\ \/ /\ tested' = TRUE
        /\ wire' = em.nextSeq
        /\ testAt' = now
        /\ outbox' = Append(outbox, [kind |-> "TestRequest", from |-> 0, to |-> 0])
        /\ UNCHANGED <<state, inbox, buffer, closed, vOn>>
     \/ Fail /\ UNCHANGED <<wire, testAt>>
  /\ UNCHANGED <<clock, now, spent, budget, nextConnect, logonSent, nextBeat, fresh, fits, ses>>
  /\ UNCHANGED <<vNext, vLog, seen, asked, lastPub, unsent, subscribed, lastBeat>>

SendHeartbeat ==
  /\ Tick(FALSE)
  /\ ~TestDue /\ OwesHeartbeat
  /\ em' = Built(now)
  /\ \/ wire' = em.nextSeq /\ UNCHANGED <<state, tested, network, vOn>>
     \/ Fail /\ UNCHANGED wire
  /\ UNCHANGED <<clock, now, spent, budget, nextConnect, logonSent, nextBeat, fresh, fits, ses>>
  /\ UNCHANGED <<vNext, vLog, seen, asked, lastPub, testAt, unsent, subscribed, lastBeat>>

NothingDue ==
  /\ Tick(FALSE)
  /\ ~TestDue /\ ~OwesHeartbeat
  /\ UNCHANGED <<clock, now, spent, budget, state, timers, ses, em, network, venue, history>>

-----------------------------------------------------------------------------
(***************************************************************************)
(* The end of the feed thread's round: beat_record, the subscription a new *)
(* Logon calls for, and a sleep unless the session is up.  A 35=V that     *)
(* cannot be built or is not written is logged and not tried again; the    *)
(* connection stays, with the number of the unwritten one used up.         *)
(***************************************************************************)
\* Mutant: liveness records only from a live session.
BeatWhileUp ==
  IF clock >= nextBeat /\ state = "LoggedOn"
  THEN nextBeat' = clock + RecordBeat /\ lastBeat' = clock
  ELSE UNCHANGED <<nextBeat, lastBeat>>

Beat ==
  IF clock >= nextBeat
  THEN nextBeat' = clock + RecordBeat /\ lastBeat' = clock
  ELSE UNCHANGED <<nextBeat, lastBeat>>

\* The 35=V this feed's conf describes.
SendSubscription ==
  IF fits
  THEN /\ em' = Built(clock)
       /\ \/ wire' = em.nextSeq /\ subscribed' = TRUE /\ UNCHANGED unsent
          \/ unsent' = unsent \cup {em.nextSeq} /\ UNCHANGED <<wire, subscribed>>
  ELSE UNCHANGED <<em, wire, unsent, subscribed>>

\* Mutant: the subscription waits for the backlog to be drained.
SubscribeWhenDrained ==
  IF fresh /\ state = "LoggedOn" /\ buffer = <<>>
  THEN fresh' = FALSE /\ SendSubscription
  ELSE UNCHANGED <<fresh, em, wire, unsent, subscribed>>

Subscribe ==
  IF fresh /\ state = "LoggedOn"
  THEN fresh' = FALSE /\ SendSubscription
  ELSE UNCHANGED <<fresh, em, wire, unsent, subscribed>>

\* A session that is up goes on at once, unless it blocks in the 35=V.
EndRound ==
  /\ pc = "end"
  /\ Beat
  /\ Subscribe
  /\ IF state = "LoggedOn" /\ ~fresh
     THEN pc' = "poll" /\ spent' = 0
     ELSE pc' = "rest" /\ UNCHANGED spent
  /\ UNCHANGED <<clock, now, budget, state, tested, nextConnect, logonSent, fits, ses>>
  /\ IF state = "Disconnected"
     THEN Forget /\ vNext' = 1
     ELSE UNCHANGED <<vNext, vLog, seen, asked, lastPub, testAt>>
  /\ UNCHANGED <<inbox, buffer, outbox, closed, vOn>>

WakeUp ==
  /\ pc = "rest"
  /\ pc' = "poll" /\ spent' = 0
  /\ UNCHANGED <<clock, now, budget, state, timers, ses, em, network, venue, history>>

\* Time passes in a read, in a write of the burst or the timers, at rest.
Wait ==
  /\ pc \in {"read", "burst", "rest"} /\ spent < RoundTime
  /\ clock < MaxTime
  /\ clock' = clock + 1 /\ spent' = spent + 1
  /\ UNCHANGED <<pc, now, budget, state, timers, ses, em, network, venue, history>>

\* The stop flag is seen between rounds: shutdown("handler stopping").
Stop ==
  /\ pc = "poll"
  /\ pc' = "stopped"
  /\ em' = IF state = "Disconnected" THEN em ELSE Built(clock)
  /\ DropLink
  /\ UNCHANGED <<clock, now, spent, budget, nextConnect, logonSent, nextBeat, fresh, fits, ses>>
  /\ UNCHANGED <<vNext, vLog, history>>

-----------------------------------------------------------------------------
(***************************************************************************)
(* The venue and the network between us: external.  Messages arrive in the *)
(* order they were sent.                                                   *)
(***************************************************************************)
Msg(kind, seq, dup, arg) == [kind |-> kind, seq |-> seq, dup |-> dup, arg |-> arg]

handler == <<clock, loop, state, timers, ses, em, buffer, history>>

VenueUp == state # "Disconnected" /\ ~closed

\* The venue uses its next number for a message m of class c.
Uses(c, messages) ==
  /\ vNext <= MaxNumber
  /\ vLog' = [vLog EXCEPT ![vNext] = c]
  /\ vNext' = vNext + 1
  /\ inbox' = inbox \o messages

\* A number again: market data replayed, the rest gap-filled or passed over.
Again(n) == IF vLog[n] = "MD" THEN Msg("MD", n, TRUE, Unset) ELSE Msg("GapFill", n, TRUE, n + 1)

Resent(b, e) == {n \in b..e : vLog[n] = "MD" \/ GapFills}

\* Numbers b..e again, in order.
Replay(b, e) ==
  \E k \in 0..e : \E q \in [1..k -> Resent(b, e)] :
    /\ \A i, j \in 1..k : i < j => q[i] < q[j]
    /\ \A n \in Resent(b, e) : \E i \in 1..k : q[i] = n
    /\ inbox' = inbox \o [i \in 1..k |-> Again(q[i])]

VenueAnswers ==
  /\ VenueUp /\ outbox # <<>>
  /\ outbox' = Tail(outbox)
  /\ LET r == Head(outbox)
     IN \/ /\ r.kind = "Logon"
           /\ vOn' = TRUE
           /\ \E offer \in Offers : Uses("Admin", <<Msg("Logon", vNext, FALSE, offer)>>)
        \/ /\ r.kind = "TestRequest"
           /\ Uses("Admin", <<Msg("Heartbeat", vNext, FALSE, Unset)>>)
           /\ UNCHANGED vOn
        \/ /\ r.kind = "ResendRequest"
           /\ Replay(r.from, r.to)
           /\ UNCHANGED venue
  /\ UNCHANGED <<handler, closed>>

\* Unasked traffic.  A Skip is a number we never see; a Regress repeats one.
VenueSends(k) ==
  /\ VenueUp /\ Len(inbox) + Len(buffer) < MaxInFlight
  /\ vOn \/ k = "Logout"
  /\ CASE k = "Skip"    -> Uses("MD", <<>>)
       [] k = "Regress" -> Uses("MD", <<Msg("MD", 1, FALSE, Unset)>>)
       [] k = "Reset"   -> Uses("Admin", <<Msg("Reset", vNext, FALSE, vNext + 1)>>)
       [] k \in MarketData -> Uses("MD", <<Msg(k, vNext, FALSE, Unset)>>)
       [] OTHER         -> Uses("Admin", <<Msg(k, vNext, FALSE, Unset)>>)
  /\ UNCHANGED <<handler, outbox, closed, vOn>>

VenueCloses ==
  /\ VenueUp
  /\ closed' = TRUE
  /\ UNCHANGED <<handler, inbox, outbox, venue>>

-----------------------------------------------------------------------------
TryConnect ==
  \/ BackingOff
  \/ \E d \in 0..DialTime : DialFails(d) \/ LogonFails(d) \/ (\E f \in Firsts : Connect(f, d))

Pump ==
  \/ StartPump \/ Fill \/ FillFails
  \/ FramingError \/ IngestUnjudged \/ IngestMarketData \/ IngestAdmin
  \/ LogonTimesOut \/ PeerSilent \/ SendTestRequest \/ SendHeartbeat \/ NothingDue

Venue == VenueAnswers \/ VenueCloses \/ (\E k \in Kinds : VenueSends(k))

Next == TryConnect \/ Pump \/ EndRound \/ WakeUp \/ Wait \/ Stop \/ Venue

Spec == Init /\ [][Next]_vars

-----------------------------------------------------------------------------
(***************************************************************************)
(* Properties.                                                             *)
(***************************************************************************)

Longer(a, b) == IF a > b THEN a ELSE b

(* A connection on which the venue has gone quiet is given up in bounded   *)
(* time, whatever interval its Logon named or left out: a half-open socket *)
(* is never taken for a quiet market (receiver.rs apply and tick).  The    *)
(* slack is two rounds, since a round looks at the clock it read at its    *)
(* start.  The Logon's deadline counts from the start of the attempt,      *)
(* which may block for longer than it.                                     *)
HalfOpenNoticed ==
  /\ state = "LoggingOn" => clock - logonSent <= Longer(LogonTimeout, DialTime) + 2 * RoundTime
  /\ state = "LoggedOn" =>
       \E i \in {Heartbeat} \cup (Offers \ {0, Unset}) :
         clock - ses.lastRecv <= 2 * i + 2 * RoundTime

(* Market data goes to the ring in the order the venue numbered it, each   *)
(* message at most once in a session: a resend that comes after the hole   *)
(* was passed never overwrites what a later message said (observe's        *)
(* Duplicate, market_data's early return).                                 *)
PublishedInOrder ==
  [][state # "Disconnected" /\ lastPub' # lastPub /\ lastPub' # 0 => lastPub' > lastPub]_vars

(* No number below the expected one is missing without having been asked   *)
(* for, and none is asked for twice, though only one reply fits in an      *)
(* answer (pipeline.rs answer): the hole is reported once.                 *)
HolesAskedOnce ==
  \A n \in Numbers :
    /\ state # "Disconnected" /\ n < ses.nextExpected => n \in seen \/ asked[n] = 1
    /\ asked[n] <= 1

(* Our numbers on every connection start at 1, as the venue was told with  *)
(* ResetSeqNumFlag, go up, and leave out only the number of a 35=V that    *)
(* was not written: every other write that fails takes the connection with *)
(* it (receiver.rs try_connect, write, tick and subscribe, emit.rs build). *)
OutboundInOrder ==
  [][wire' # wire =>
       IF state = "Disconnected"
       THEN wire' = 1
       ELSE wire' > wire /\ wire + 1 .. wire' - 1 \subseteq unsent]_vars

(* Every session that reaches LoggedOn has its subscription put to the     *)
(* socket before its next read, the ones after a reconnect too (fix.rs     *)
(* run): "the venue forgot it on the drop".  Only a 35=V that could not be *)
(* built or written leaves it without one.                                 *)
SubscribedOnLogon ==
  pc = "poll" /\ state = "LoggedOn" /\ fits => subscribed \/ unsent # {}

(* The liveness record goes on through outages, backoff and failing        *)
(* connections, so a consumer can tell a venue that is down from a handler *)
(* that is (receiver.rs poll_once and beat_record).  The thread writes it  *)
(* between rounds only, so its gap is the interval, the rest after a round *)
(* that was not due and the whole of the next one, a dial included.        *)
BeatsThroughOutages ==
  pc # "stopped" => clock - lastBeat < RecordBeat + RoundTime + Longer(DialTime, RoundTime)

(* session.rs:168-169 of a resend: "Drop the message; it changes no        *)
(* state".                                                                 *)
DuplicateChangesNoState ==
  [][pc = "burst" /\ buffer # <<>> /\ buffer' = Tail(buffer)
       /\ Head(buffer).kind \in (MarketData \cup Admin) \ {"Reset"}
       /\ Verdict(ses, Head(buffer)) = "Duplicate"
     => ses'.nextExpected = ses.nextExpected]_vars

(* receiver.rs:430-433: a session is given up as silent only after a       *)
(* TestRequest has gone unanswered, "because a venue that is alive answers *)
(* it".                                                                    *)
TestedBeforeGivenUp ==
  [][PeerSilent => testAt > ses.lastRecv]_vars
====

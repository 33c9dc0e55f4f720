--------------------------- MODULE FixSessionProofs ---------------------------
(***************************************************************************)
(* What is proved about the FIX session, for any timers, any burst and any *)
(* length of conversation: its type invariant, that our numbers and those  *)
(* published are in order, that a hole is asked for once, that a venue     *)
(* gone quiet is noticed, that a session is subscribed and that the        *)
(* liveness record goes on through outages, however long a dial blocks.    *)
(***************************************************************************)
EXTENDS FixSession, TLAPS

-----------------------------------------------------------------------------
(***************************************************************************)
(* The inductive invariant.                                                *)
(***************************************************************************)
\* What the venue really puts on the wire: its numbers, intervals it offers, a
\* Reset or a gap fill to the number after its own, the latter if it fills gaps.
Good ==
  {m \in Message :
     /\ m.seq \in Numbers
     /\ m.kind = "Logon" => m.arg \in Offers \cup {Unset}
     /\ m.kind \in {"GapFill", "Reset"} => m.arg = m.seq + 1
     /\ m.kind = "GapFill" => GapFills}

GoodRequest ==
  {r \in Request : r.kind = "ResendRequest" => r.from # 0 /\ r.to <= MaxNumber}

\* What is under way, from the buffer to the newest message on the socket.
Nth(j) == IF j <= Len(buffer) THEN buffer[j] ELSE inbox[j - Len(buffer)]
Flying == 1 .. Len(buffer) + Len(inbox)

LinkInv ==
  /\ inbox \in Seq(Good) /\ buffer \in Seq(Good) /\ outbox \in Seq(GoodRequest)
  /\ ses.nextExpected >= 1 /\ vNext >= 1
  /\ pc \in {"read", "burst"} => state # "Disconnected"

\* Every number under way, or asked for, is one the venue has used; a Reset is
\* ahead of all that was sent before it.
StreamInv ==
  state # "Disconnected" =>
    /\ ses.nextExpected <= vNext
    /\ \A i \in 1 .. Len(outbox) : outbox[i].to < vNext
    /\ \A j \in Flying : Nth(j).seq < vNext
    /\ \A j \in Flying :
         Nth(j).kind = "Reset" =>
           /\ ses.nextExpected <= Nth(j).seq
           /\ \A i \in 1 .. j - 1 : Nth(i).seq < Nth(j).seq

\* What has been passed was judged or asked for; what has not was not asked for.
AskInv ==
  /\ ~GapFills => \A n \in Numbers : asked[n] <= 1
  /\ ~GapFills /\ state # "Disconnected" =>
       \A n \in Numbers : /\ n < ses.nextExpected => n \in seen \/ asked[n] = 1
                          /\ n >= ses.nextExpected => asked[n] = 0

PubInv == ~GapFills /\ state # "Disconnected" => lastPub < ses.nextExpected

\* The number built next follows the last one on the wire, but for those a 35=V
\* used up.
WireInv ==
  state # "Disconnected" =>
    wire < em.nextSeq /\ \A n \in Nat : wire < n /\ n < em.nextSeq => n \in unsent

SubscribeInv ==
  /\ state = "LoggedOn" /\ fits /\ ~fresh => subscribed \/ unsent # {}
  /\ state = "LoggedOn" /\ pc \in {"poll", "rest"} => ~fresh

\* A round that pumps sees the clock it read at its start.
RoundInv ==
  /\ pc = "poll" => spent = 0
  /\ now <= clock
  /\ pc \in {"read", "burst"} => clock <= now + spent

\* How far the beat is behind, by the round's place.
BeatInv ==
  /\ nextBeat <= lastBeat + RecordBeat
  /\ pc = "rest" => clock - lastBeat < RecordBeat + spent
  /\ pc = "poll" => clock - lastBeat < RecordBeat + RoundTime
  /\ pc \in {"read", "burst"} => clock - lastBeat < RecordBeat + RoundTime + spent
  /\ pc = "end" => clock - lastBeat < RecordBeat + RoundTime + Longer(DialTime, RoundTime)

\* How much longer than a deadline the session may go on, by the round's place.
Overdue(since, limit) ==
  /\ pc = "poll" => clock - since <= limit + RoundTime
  /\ pc \in {"read", "burst"} => now - since <= limit + RoundTime
  /\ pc \in {"end", "rest"} => clock - since <= limit + spent

SilenceInv ==
  /\ state = "LoggingOn" => Overdue(logonSent, Longer(LogonTimeout, DialTime))
  /\ state = "LoggedOn" => Overdue(ses.lastRecv, 2 * ses.interval)
  /\ state = "LoggedOn" => ses.interval # 0 /\ ses.lastRecv # 0
  /\ state # "Disconnected" => ses.interval \in {0, Heartbeat} \cup (Offers \ {Unset})
  /\ pc = "stopped" => state = "Disconnected"
-----------------------------------------------------------------------------
(***************************************************************************)
(* The parts of the type invariant.                                        *)
(***************************************************************************)
LoopOK ==
  /\ clock \in 1..MaxTime /\ now \in 0..MaxTime /\ budget \in 0..Burst /\ spent \in 0..RoundTime
  /\ pc \in {"poll", "read", "burst", "end", "rest", "stopped"}
  /\ state \in {"Disconnected", "LoggingOn", "LoggedOn"}

FlagsOK ==
  /\ tested \in BOOLEAN /\ fresh \in BOOLEAN /\ fits \in BOOLEAN
  /\ closed \in BOOLEAN /\ vOn \in BOOLEAN /\ subscribed \in BOOLEAN

TimersOK ==
  /\ nextConnect \in Nat /\ logonSent \in 0..MaxTime /\ nextBeat \in Nat
  /\ lastBeat \in 0..MaxTime /\ testAt \in 0..MaxTime

Session == [nextExpected : Nat, lastRecv : Nat, interval : Nat]
Emitter == [nextSeq : Nat \ {0}, lastSent : Nat]

SessionOK == ses \in Session /\ em \in Emitter /\ wire \in Nat /\ unsent \subseteq Nat

VenueOK ==
  /\ vNext \in Nat /\ vLog \in [Numbers -> {"unused", "MD", "Admin"}]
  /\ seen \subseteq Numbers /\ asked \in [Numbers -> Nat] /\ lastPub \in Nat

EmptyInv == state = "Disconnected" => inbox = <<>> /\ buffer = <<>> /\ outbox = <<>>

(* What is assumed of the constants.                                       *)
LEMMA Constants ==
  /\ Heartbeat \in Nat /\ Heartbeat > 0 /\ LogonTimeout \in Nat /\ LogonTimeout > 0
  /\ Reconnect \in Nat /\ RecordBeat \in Nat /\ RecordBeat > 0 /\ Burst \in Nat /\ Burst > 0
  /\ DialTime \in Nat /\ RoundTime \in Nat /\ RoundTime > 0
  /\ Offers \subseteq Nat \cup {-1} /\ Unset = -1 /\ Kinds \subseteq Unasked
  /\ MaxTime \in Nat /\ MaxTime > 0 /\ MaxNumber \in Nat /\ MaxInFlight \in Nat
BY TimersAssumption, VenueAssumption, FixBoundAssumption DEF Unset

(* What the venue puts on the wire is a message, and what we ask of it a   *)
(* request.                                                                *)
LEMMA GoodTypes ==
  /\ Good \subseteq Message /\ GoodRequest \subseteq Request
  /\ \A m \in Good : /\ m.seq \in Nat /\ m.seq >= 1 /\ m.seq <= MaxNumber /\ m.dup \in BOOLEAN
                     /\ m.arg \in Nat \cup {-1} /\ m.seq \in Numbers
BY Constants DEF Good, GoodRequest, Message, Numbers, Unset

(* Sequences: the head and the rest, and what comes after.                 *)
LEMMA SeqFacts ==
  ASSUME NEW S, NEW q \in Seq(S), NEW p \in Seq(S)
  PROVE  /\ Len(q) \in Nat /\ q \o p \in Seq(S) /\ Len(q \o p) = Len(q) + Len(p)
         /\ \A i \in 1 .. Len(q) + Len(p) :
              (q \o p)[i] = (IF i <= Len(q) THEN q[i] ELSE p[i - Len(q)])
         /\ \A i \in 1 .. Len(q) : q[i] \in S
         /\ q # <<>> => /\ Head(q) = q[1] /\ Head(q) \in S /\ 1 \in 1 .. Len(q)
                        /\ Tail(q) \in Seq(S) /\ Len(Tail(q)) = Len(q) - 1
                        /\ \A i \in 1 .. Len(q) - 1 : Tail(q)[i] = q[i + 1]
<1>1. /\ Len(q) \in Nat /\ q \o p \in Seq(S) /\ Len(q \o p) = Len(q) + Len(p)
      /\ \A i \in 1 .. Len(q) + Len(p) :
           (q \o p)[i] = (IF i <= Len(q) THEN q[i] ELSE p[i - Len(q)])
      /\ \A i \in 1 .. Len(q) : q[i] \in S
  OBVIOUS
<1>2. ASSUME q # <<>>
      PROVE  /\ Head(q) = q[1] /\ Head(q) \in S /\ 1 \in 1 .. Len(q)
             /\ Tail(q) \in Seq(S) /\ Len(Tail(q)) = Len(q) - 1
             /\ \A i \in 1 .. Len(q) - 1 : Tail(q)[i] = q[i + 1]
  BY <1>2
<1> QED
  BY <1>1, <1>2

-----------------------------------------------------------------------------
(***************************************************************************)
(* What the handler's steps change.                                        *)
(***************************************************************************)
\* The connection goes: nothing is left of it but our numbers.
Hangs ==
  /\ state' = "Disconnected" /\ tested' = FALSE
  /\ inbox' = <<>> /\ buffer' = <<>> /\ outbox' = <<>>
  /\ closed' = FALSE /\ vOn' = FALSE
  /\ \/ pc = "poll" /\ pc' = "stopped"
     \/ pc \in {"read", "burst"} /\ pc' = "end"
  /\ UNCHANGED <<clock, now, spent, budget, nextConnect, logonSent, nextBeat, fits>>
  /\ UNCHANGED <<vNext, vLog, testAt, unsent, subscribed, lastBeat>>

\* The steps that hang up without having judged a message.
HangsUp ==
  /\ Hangs /\ em' \in {em, Built(now), Built(clock)}
  /\ UNCHANGED <<fresh, ses, seen, asked, lastPub, wire>>

(* A connection lost, given up as silent, or closed on a stop.             *)
LEMMA HangUpSteps ==
  ASSUME FillFails \/ FramingError \/ LogonTimesOut \/ PeerSilent \/ Stop
  PROVE  HangsUp
<1> USE DEF HangsUp, Hangs, history
<1>1. CASE FillFails
  BY <1>1 DEF FillFails, Fail, DropLink
<1>2. CASE FramingError
  BY <1>2 DEF FramingError, Framed, DropLink
<1>3. CASE LogonTimesOut
  BY <1>3 DEF LogonTimesOut, Tick, DropLink
<1>4. CASE PeerSilent
  BY <1>4 DEF PeerSilent, Tick, DropLink
<1>5. CASE Stop
  BY <1>5 DEF Stop, DropLink
<1> QED
  BY <1>1, <1>2, <1>3, <1>4, <1>5

\* The timers give nobody up.
Calm ==
  /\ ~(state = "LoggingOn" /\ now - logonSent > LogonTimeout)
  /\ ~IsSilent(now, 2)

\* A message of ours goes out and nothing else happens to the session.
Sends ==
  /\ em' = Built(now) /\ wire' = em.nextSeq /\ pc = "burst" /\ pc' = "end"
  /\ outbox' \in {outbox, Append(outbox, [kind |-> "TestRequest", from |-> 0, to |-> 0])}
  /\ tested' \in {tested, TRUE} /\ testAt' \in {testAt, now} /\ Calm
  /\ UNCHANGED <<clock, now, spent, budget, state, nextConnect, logonSent, nextBeat, fresh, fits>>
  /\ UNCHANGED <<ses, inbox, buffer, closed, vOn, vNext, vLog, seen, asked, lastPub>>
  /\ UNCHANGED <<unsent, subscribed, lastBeat>>

(* A timer's message goes out, or the connection with it.                  *)
LEMMA SendSteps ==
  ASSUME SendTestRequest \/ SendHeartbeat
  PROVE  Sends \/ HangsUp
<1>1. CASE SendTestRequest
  <2>1. CASE Fail /\ UNCHANGED <<wire, testAt>>
    BY <1>1, <2>1 DEF SendTestRequest, Tick, Fail, DropLink, HangsUp, Hangs
  <2>2. CASE ~(Fail /\ UNCHANGED <<wire, testAt>>)
    BY <1>1, <2>2 DEF SendTestRequest, Tick, Sends, Calm
  <2> QED
    BY <1>1, <2>1, <2>2 DEF SendTestRequest
<1>2. CASE SendHeartbeat
  <2>1. CASE Fail /\ UNCHANGED wire
    BY <1>2, <2>1 DEF SendHeartbeat, Tick, Fail, DropLink, HangsUp, Hangs
  <2>2. CASE ~(Fail /\ UNCHANGED wire)
    BY <1>2, <2>2 DEF SendHeartbeat, Tick, Sends, Calm, network
  <2> QED
    BY <1>2, <2>1, <2>2 DEF SendHeartbeat
<1> QED
  BY <1>1, <1>2

\* Nothing happens but the loop's own steps and the passing of time.
Rests ==
  /\ UNCHANGED <<budget, state, tested, nextConnect, logonSent, nextBeat, fresh, fits, ses, em>>
  /\ UNCHANGED <<inbox, buffer, outbox, closed, vOn, vNext, vLog>>
  /\ UNCHANGED <<seen, asked, lastPub, testAt, wire, unsent, subscribed, lastBeat>>
  /\ \/ /\ pc = "poll" /\ pc' = "end" /\ state = "Disconnected"
        /\ now' = clock /\ UNCHANGED <<clock, spent>>
     \/ /\ pc = "poll" /\ pc' = "read" /\ state # "Disconnected"
        /\ now' = clock /\ UNCHANGED <<clock, spent>>
     \/ pc = "burst" /\ pc' = "end" /\ Calm /\ UNCHANGED <<clock, now, spent>>
     \/ pc = "rest" /\ pc' = "poll" /\ spent' = 0 /\ UNCHANGED <<clock, now>>
     \/ /\ pc \in {"read", "burst", "rest"} /\ pc' = pc /\ spent < RoundTime /\ spent' = spent + 1
        /\ clock < MaxTime /\ clock' = clock + 1 /\ UNCHANGED now

(* The steps of the loop that touch nothing else.                          *)
LEMMA RestSteps ==
  ASSUME BackingOff \/ NothingDue \/ StartPump \/ WakeUp \/ Wait
  PROVE  Rests
<1> USE DEF Rests, timers, network, venue, history
<1>1. CASE BackingOff
  BY <1>1 DEF BackingOff, Dial
<1>2. CASE NothingDue
  BY <1>2 DEF NothingDue, Tick, Calm
<1>3. CASE StartPump
  BY <1>3 DEF StartPump
<1>4. CASE WakeUp
  BY <1>4 DEF WakeUp
<1>5. CASE Wait
  BY <1>5 DEF Wait
<1> QED
  BY <1>1, <1>2, <1>3, <1>4, <1>5

\* An attempt, and how long it may block.
Dials ==
  /\ pc = "poll" /\ pc' = "end" /\ state = "Disconnected" /\ now' = clock
  /\ nextConnect' = clock + Reconnect
  /\ clock' \in Nat /\ clock <= clock' /\ clock' <= clock + DialTime /\ clock' <= MaxTime

(* What an attempt does to the clock.                                      *)
LEMMA AttemptSteps ==
  ASSUME NEW d \in 0..DialTime, Attempt(d), clock \in Nat
  PROVE  Dials
BY Constants DEF Attempt, Dial, Dials

\* No connection comes of the attempt.
Redials ==
  /\ Dials
  /\ ses' \in {ses, NewSession}
  /\ em' \in {em, NewEmitter, [nextSeq |-> 2, lastSent |-> clock]}
  /\ UNCHANGED <<spent, budget, state, tested, logonSent, nextBeat, fresh, fits>>
  /\ UNCHANGED <<inbox, buffer, outbox, closed, vOn, vNext, vLog>>
  /\ UNCHANGED <<seen, asked, lastPub, testAt, wire, unsent, subscribed, lastBeat>>

(* An attempt that fails leaves no connection.                             *)
LEMMA RedialSteps ==
  ASSUME NEW d \in 0..DialTime, DialFails(d) \/ LogonFails(d), clock \in Nat
  PROVE  Redials
<1>1. Dials
  BY AttemptSteps DEF DialFails, LogonFails
<1> QED
  BY <1>1 DEF DialFails, LogonFails, Redials, network, venue, history

\* A connection with a new session on it.
Connects ==
  /\ Dials
  /\ ses' = NewSession /\ em' = [nextSeq |-> 2, lastSent |-> clock] /\ wire' = 1
  /\ state' = "LoggingOn" /\ logonSent' = clock /\ tested' = FALSE
  /\ vLog' = [n \in Numbers |-> "unused"]
  /\ seen' = {} /\ asked' = [n \in Numbers |-> 0] /\ lastPub' = 0 /\ testAt' = 0
  /\ vOn' = FALSE /\ vNext' \in Firsts /\ subscribed' = FALSE /\ unsent' = {}
  /\ outbox' = <<[kind |-> "Logon", from |-> 0, to |-> 0]>>
  /\ UNCHANGED <<spent, budget, nextBeat, fresh, fits>>
  /\ UNCHANGED <<inbox, buffer, closed, lastBeat>>

(* A connection starts both directions over.                               *)
LEMMA ConnectStep ==
  ASSUME NEW f \in Firsts, NEW d \in 0..DialTime, Connect(f, d), clock \in Nat
  PROVE  Connects
<1>1. Dials
  BY AttemptSteps DEF Connect
<1> QED
  BY <1>1 DEF Connect, NewConnection, Forget, Connects

\* What is waiting on the socket is read.
Fills ==
  /\ pc = "read" /\ pc' = "burst" /\ budget' = Burst
  /\ buffer' = buffer \o inbox /\ inbox' = <<>>
  /\ UNCHANGED <<clock, now, spent, state, tested, nextConnect, logonSent, nextBeat, fresh, fits>>
  /\ UNCHANGED <<ses, em, outbox, closed, vOn, vNext, vLog>>
  /\ UNCHANGED <<seen, asked, lastPub, testAt, wire, unsent, subscribed, lastBeat>>

\* A message is passed over.
PassesOver ==
  /\ pc = "burst" /\ pc' = pc /\ budget > 0 /\ budget' = budget - 1
  /\ buffer # <<>> /\ buffer' = Tail(buffer)
  /\ UNCHANGED <<clock, now, spent, state, tested, nextConnect, logonSent, nextBeat, fresh, fits>>
  /\ UNCHANGED <<ses, em, inbox, outbox, closed, vOn, vNext, vLog>>
  /\ UNCHANGED <<seen, asked, lastPub, testAt, wire, unsent, subscribed, lastBeat>>

(* A read, and a message that is not judged.                               *)
LEMMA FillStep ==
  ASSUME Fill PROVE Fills
BY DEF Fill, Fills, timers, venue, history

(* A message that is not judged leaves the session as it was.              *)
LEMMA UnjudgedStep ==
  ASSUME IngestUnjudged PROVE PassesOver
BY DEF IngestUnjudged, Framed, PassesOver, timers, venue, history

-----------------------------------------------------------------------------
(***************************************************************************)
(* A judged message.                                                       *)
(***************************************************************************)
Coming == Head(buffer)

\* The number expected after it, and the interval that stands.
Passed ==
  IF Coming.kind \in {"GapFill", "Reset"} THEN Coming.arg
  ELSE IF Coming.seq >= ses.nextExpected THEN Coming.seq + 1 ELSE ses.nextExpected

Judged ==
  /\ ses' \in Session
  /\ ses'.nextExpected = Passed
  /\ ses'.lastRecv = (IF Coming.kind = "Reset" THEN ses.lastRecv ELSE clock)
  /\ Coming.kind # "Logon" => ses'.interval = ses.interval
  /\ Coming.kind = "Logon" =>
       /\ ses'.interval # 0
       /\ ses'.interval \in {ses.interval, Coming.arg, Heartbeat}
       /\ ses'.interval = Coming.arg => Coming.arg # Unset
  /\ seen' = seen \cup (IF Coming.kind = "Reset" THEN Numbers \cap (1 .. Coming.arg - 1)
                                                 ELSE {Coming.seq})
  /\ \/ lastPub' = lastPub
     \/ /\ lastPub' = Coming.seq /\ Coming.seq >= ses.nextExpected
        /\ Coming.kind \notin {"GapFill", "Reset"}
  /\ Coming.kind \in MarketData \cup Admin
  /\ fresh' = (fresh \/ Coming.kind = "Logon")
  /\ pc = "burst" /\ budget > 0 /\ buffer # <<>>
  /\ UNCHANGED <<clock, now, spent, nextConnect, logonSent, nextBeat, fits>>
  /\ UNCHANGED <<vNext, vLog, testAt, unsent, subscribed, lastBeat>>

\* A hole before it, and the request that reports the hole.
Hole == Coming.kind # "Reset" /\ Coming.seq > ses.nextExpected
HoleRequest == [kind |-> "ResendRequest", from |-> ses.nextExpected, to |-> Coming.seq - 1]

CarriesOn ==
  /\ pc' = pc /\ buffer' = Tail(buffer) /\ budget' = budget - 1
  /\ state' = (IF Coming.kind = "Logon" THEN "LoggedOn" ELSE state)
  /\ tested' \in {tested, FALSE}
  /\ UNCHANGED <<inbox, closed, vOn>>
  /\ \/ UNCHANGED <<em, wire>>
     \/ em' = Built(now) /\ wire' = em.nextSeq
  /\ \/ /\ ~Hole /\ UNCHANGED <<outbox, asked>>
     \/ /\ Hole /\ outbox' = Append(outbox, HoleRequest)
        /\ asked' = [n \in Numbers |->
                       asked[n] + IF n \in ses.nextExpected .. Coming.seq - 1 THEN 1 ELSE 0]

EndsWithIt ==
  /\ Hangs /\ em' = Built(now) /\ UNCHANGED asked
  /\ wire' = wire \/ (wire' = em.nextSeq)

(* The verdicts are the four comparisons of numbers.                       *)
LEMMA Verdicts ==
  ASSUME ses \in Session, NEW m \in Good
  PROVE  /\ Verdict(ses, m) \in {"InOrder", "Gap", "Duplicate", "Regression"}
         /\ Verdict(ses, m) = "Gap" <=> m.seq > ses.nextExpected
         /\ Verdict(ses, m) = "InOrder" <=> m.seq = ses.nextExpected
<1>1. m.seq \in Nat /\ ses.nextExpected \in Nat /\ m.dup \in BOOLEAN
  BY GoodTypes DEF Session
<1>2. CASE m.seq = ses.nextExpected
  BY <1>1, <1>2 DEF Verdict
<1>3. CASE m.seq > ses.nextExpected
  BY <1>1, <1>3 DEF Verdict
<1>4. CASE m.seq < ses.nextExpected /\ m.dup
  BY <1>1, <1>4 DEF Verdict
<1>5. CASE m.seq < ses.nextExpected /\ ~m.dup
  BY <1>1, <1>5 DEF Verdict
<1> QED
  BY <1>1, <1>2, <1>3, <1>4, <1>5

(* What judging a message makes of the session.                            *)
LEMMA Observed ==
  ASSUME ses \in Session, NEW m \in Good, NEW t \in Nat
  PROVE  /\ Observe(ses, m, t) \in Session
         /\ Observe(ses, m, t).lastRecv = t /\ Observe(ses, m, t).interval = ses.interval
         /\ Observe(ses, m, t).nextExpected =
              (IF m.seq >= ses.nextExpected THEN m.seq + 1 ELSE ses.nextExpected)
<1>1. m.seq + 1 \in Nat /\ ses.nextExpected \in Nat /\ m.seq \in Nat
  BY GoodTypes DEF Session
<1> QED
  BY <1>1 DEF Observe, Session

(* What applying an administrative message makes of it.                    *)
LEMMA Administered ==
  ASSUME NEW s \in Session, NEW m \in Good
  PROVE  /\ ApplyAdmin(s, m) \in Session
         /\ ApplyAdmin(s, m).lastRecv = s.lastRecv
         /\ ApplyAdmin(s, m).interval =
              (IF m.kind = "Logon" /\ m.arg # Unset THEN m.arg ELSE s.interval)
         /\ ApplyAdmin(s, m).nextExpected =
              (IF m.kind \in {"GapFill", "Reset"} THEN m.arg ELSE s.nextExpected)
<1>1. m.seq + 1 \in Nat /\ m.arg \in Nat \cup {-1} /\ Unset = -1
  BY GoodTypes, Constants
<1>2. m.kind \in {"GapFill", "Reset"} => m.arg \in Nat
  BY <1>1 DEF Good
<1>3. m.arg # Unset => m.arg \in Nat
  BY <1>1
<1> QED
  BY <1>2, <1>3 DEF ApplyAdmin, Session

(* The session after an administrative message, the interval defaulted.    *)
LEMMA AppliedFacts ==
  ASSUME ses \in Session, NEW m \in Good, clock \in Nat
  PROVE  /\ Applied(m) \in Session
         /\ Applied(m).nextExpected =
              (IF m.kind \in {"GapFill", "Reset"} THEN m.arg
               ELSE IF m.seq >= ses.nextExpected THEN m.seq + 1 ELSE ses.nextExpected)
         /\ Applied(m).lastRecv = (IF m.kind = "Reset" THEN ses.lastRecv ELSE clock)
         /\ m.kind # "Logon" => Applied(m).interval = ses.interval
         /\ m.kind = "Logon" =>
              /\ Applied(m).interval # 0
              /\ Applied(m).interval \in {ses.interval, m.arg, Heartbeat}
              /\ Applied(m).interval = m.arg => m.arg # Unset
<1> DEFINE o == IF m.kind = "Reset" THEN ses ELSE Observe(ses, m, clock)
           s == ApplyAdmin(o, m)
<1>1. /\ o \in Session /\ o.interval = ses.interval
      /\ o.lastRecv = (IF m.kind = "Reset" THEN ses.lastRecv ELSE clock)
      /\ m.kind # "Reset" => o.nextExpected =
              (IF m.seq >= ses.nextExpected THEN m.seq + 1 ELSE ses.nextExpected)
  BY Observed
<1> HIDE DEF o
<1>2. /\ s \in Session /\ s.lastRecv = o.lastRecv
      /\ s.interval = (IF m.kind = "Logon" /\ m.arg # Unset THEN m.arg ELSE o.interval)
      /\ s.nextExpected = (IF m.kind \in {"GapFill", "Reset"} THEN m.arg ELSE o.nextExpected)
  BY <1>1, Administered
<1> HIDE DEF s
<1>3. Applied(m) = [s EXCEPT !.interval = IF m.kind = "Logon" /\ @ = 0 THEN Heartbeat ELSE @]
  BY DEF Applied, s, o
<1>4. Heartbeat \in Nat /\ Heartbeat # 0 /\ Unset = -1
  BY Constants
<1>5. /\ Applied(m) \in Session /\ Applied(m).lastRecv = s.lastRecv
      /\ Applied(m).nextExpected = s.nextExpected
      /\ Applied(m).interval = (IF m.kind = "Logon" /\ s.interval = 0 THEN Heartbeat ELSE s.interval)
  BY <1>2, <1>3, <1>4 DEF Session
<1>6. s.interval \in Nat /\ ses.interval \in Nat
  BY <1>2 DEF Session
<1> QED
  BY <1>1, <1>2, <1>4, <1>5, <1>6

(* The reply: the session carries on, the hole reported if there is one,   *)
(* or ends with the message.                                               *)
LEMMA Replies ==
  ASSUME ses \in Session, Coming \in Good, pc = "burst",
         NEW v, v = (IF Coming.kind = "Reset" THEN "unjudged" ELSE Verdict(ses, Coming)),
         Reply(Answer(Coming, v), Coming, ses.nextExpected, Disconnects(Coming, v)),
         UNCHANGED <<clock, now, spent, nextConnect, logonSent, nextBeat, fits>>,
         UNCHANGED <<vNext, vLog, testAt, unsent, subscribed, lastBeat>>
  PROVE  CarriesOn \/ EndsWithIt
<1> DEFINE r == Answer(Coming, v)
           hangUp == Disconnects(Coming, v)
<1>1. /\ v \in {"InOrder", "Gap", "Duplicate", "Regression", "unjudged"}
      /\ v = "Gap" <=> Hole
  BY Verdicts DEF Hole
<1>2. r = "ResendRequest" <=> v = "Gap"
  BY <1>1 DEF Answer, OwnReply
<1>3. hangUp => r = "Logout"
  BY <1>1 DEF Answer, OwnReply, Disconnects
<1>4. Reply(r, Coming, ses.nextExpected, hangUp)
  OBVIOUS
<1> HIDE DEF r, hangUp
<1>5. CASE r # "none" /\ Fail /\ em' = Built(now) /\ UNCHANGED <<wire, asked, budget>>
  BY <1>5 DEF EndsWithIt, Hangs, Fail, DropLink
<1>6. CASE ~(r # "none" /\ Fail /\ em' = Built(now) /\ UNCHANGED <<wire, asked, budget>>)
  <2>1. /\ IF r = "none"
           THEN UNCHANGED <<em, wire>>
           ELSE em' = Built(now) /\ wire' = em.nextSeq
        /\ asked' = IF r = "ResendRequest"
                 THEN [n \in Numbers |-> asked[n] + IF n \in ses.nextExpected .. Coming.seq - 1 THEN 1 ELSE 0]
                 ELSE asked
        /\ IF hangUp
           THEN DropLink /\ pc' = "end" /\ UNCHANGED budget
           ELSE /\ buffer' = Tail(buffer) /\ budget' = budget - 1
                /\ outbox' = IF r = "ResendRequest"
                          THEN Append(outbox, [kind |-> r, from |-> ses.nextExpected, to |-> Coming.seq - 1])
                          ELSE outbox
                /\ state' = IF Coming.kind = "Logon" THEN "LoggedOn" ELSE state
                /\ tested' = (tested /\ Coming.kind # "Logon")
                /\ UNCHANGED <<pc, inbox, closed, vOn>>
    BY <1>4, <1>6 DEF Reply
  <2>2. CASE hangUp
    BY <1>3, <2>1, <2>2 DEF EndsWithIt, Hangs, DropLink
  <2>3. CASE ~hangUp
    BY <1>1, <1>2, <2>1, <2>3 DEF CarriesOn, HoleRequest
  <2> QED
    BY <2>2, <2>3
<1> QED
  BY <1>5, <1>6

(* A message judged: the session moves on, and carries on or ends.         *)
LEMMA JudgeSteps ==
  ASSUME IngestMarketData \/ IngestAdmin, ses \in Session, buffer \in Seq(Good), clock \in Nat,
         fresh \in BOOLEAN
  PROVE  Judged /\ (CarriesOn \/ EndsWithIt)
<1>1. buffer # <<>> /\ pc = "burst" /\ budget > 0
  BY DEF IngestMarketData, IngestAdmin, Framed
<1>2. Coming \in Good
  BY <1>1, SeqFacts DEF Coming
<1>3. CASE IngestMarketData
  <2> DEFINE v == Verdict(ses, Coming)
  <2>1. Coming.kind \in {"MD", "Quiet"}
    BY <1>3 DEF IngestMarketData, Framed, MarketData, Coming
  <2>2. /\ ses' = Observe(ses, Coming, clock)
        /\ seen' = seen \cup {Coming.seq}
        /\ lastPub' = IF Coming.kind = "MD" /\ v \in {"InOrder", "Gap"} THEN Coming.seq ELSE lastPub
        /\ Reply(Answer(Coming, v), Coming, ses.nextExpected, Disconnects(Coming, v))
        /\ UNCHANGED <<clock, now, spent, nextConnect, logonSent, nextBeat, fresh, fits>>
        /\ UNCHANGED <<vNext, vLog, testAt, unsent, subscribed, lastBeat>>
    BY <1>3 DEF IngestMarketData, Coming
  <2>3. CarriesOn \/ EndsWithIt
    BY <1>1, <1>2, <2>1, <2>2, Replies
  <2>4. v \in {"InOrder", "Gap"} => Coming.seq >= ses.nextExpected
    BY <1>2, Verdicts, GoodTypes DEF Session
  <2> HIDE DEF v
  <2>5. ses' \in Session /\ ses'.nextExpected = Passed /\ ses'.lastRecv = clock
        /\ ses'.interval = ses.interval
    BY <1>2, <2>1, <2>2, Observed DEF Passed
  <2>6. fresh' = (fresh \/ Coming.kind = "Logon")
    BY <2>1, <2>2
  <2> QED
    BY <1>1, <2>1, <2>2, <2>3, <2>4, <2>5, <2>6 DEF Judged, MarketData
<1>4. CASE IngestAdmin
  <2> DEFINE v == IF Coming.kind = "Reset" THEN "unjudged" ELSE Verdict(ses, Coming)
  <2>1. Coming.kind \in Admin
    BY <1>4 DEF IngestAdmin, Framed, Coming
  <2>2. /\ ses' = Applied(Coming)
        /\ seen' = seen \cup IF Coming.kind = "Reset" THEN Numbers \cap (1 .. Coming.arg - 1)
                                                      ELSE {Coming.seq}
        /\ fresh' = (fresh \/ Coming.kind = "Logon")
        /\ Reply(Answer(Coming, v), Coming, ses.nextExpected, Disconnects(Coming, v))
        /\ UNCHANGED <<clock, now, spent, nextConnect, logonSent, nextBeat, fits>>
        /\ UNCHANGED <<vNext, vLog, lastPub, testAt, unsent, subscribed, lastBeat>>
    BY <1>4 DEF IngestAdmin, Coming
  <2>3. CarriesOn \/ EndsWithIt
    BY <1>1, <1>2, <2>1, <2>2, Replies
  <2> HIDE DEF v
  <2>4. /\ ses' \in Session /\ ses'.nextExpected = Passed
        /\ ses'.lastRecv = (IF Coming.kind = "Reset" THEN ses.lastRecv ELSE clock)
        /\ Coming.kind # "Logon" => ses'.interval = ses.interval
        /\ Coming.kind = "Logon" =>
              /\ ses'.interval # 0
              /\ ses'.interval \in {ses.interval, Coming.arg, Heartbeat}
              /\ ses'.interval = Coming.arg => Coming.arg # Unset
    BY <1>2, <2>2, AppliedFacts DEF Passed
  <2> QED
    BY <1>1, <2>1, <2>2, <2>3, <2>4 DEF Judged
<1> QED
  BY <1>3, <1>4

\* The end of a round, the subscription and the beat in it.
EndsRound ==
  /\ pc = "end"
  /\ \/ state = "LoggedOn" /\ ~fresh /\ pc' = "poll" /\ spent' = 0
     \/ ~(state = "LoggedOn" /\ ~fresh) /\ pc' = "rest" /\ spent' = spent
  /\ \/ clock >= nextBeat /\ nextBeat' = clock + RecordBeat /\ lastBeat' = clock
     \/ clock < nextBeat /\ UNCHANGED <<nextBeat, lastBeat>>
  /\ \/ /\ fresh /\ state = "LoggedOn" /\ ~fits
        /\ fresh' = FALSE /\ UNCHANGED <<em, wire, unsent, subscribed>>
     \/ /\ fresh /\ state = "LoggedOn" /\ fits /\ fresh' = FALSE /\ em' = Built(clock)
        /\ wire' = em.nextSeq /\ subscribed' = TRUE /\ UNCHANGED unsent
     \/ /\ fresh /\ state = "LoggedOn" /\ fits /\ fresh' = FALSE /\ em' = Built(clock)
        /\ unsent' = unsent \cup {em.nextSeq} /\ UNCHANGED <<wire, subscribed>>
     \/ ~(fresh /\ state = "LoggedOn") /\ UNCHANGED <<fresh, em, wire, unsent, subscribed>>
  /\ \/ /\ state = "Disconnected" /\ vNext' = 1 /\ vLog' = [n \in Numbers |-> "unused"]
        /\ seen' = {} /\ asked' = [n \in Numbers |-> 0] /\ lastPub' = 0 /\ testAt' = 0
     \/ state # "Disconnected" /\ UNCHANGED <<vNext, vLog, seen, asked, lastPub, testAt>>
  /\ UNCHANGED <<clock, now, budget, state, tested, nextConnect, logonSent, fits, ses>>
  /\ UNCHANGED <<inbox, buffer, outbox, closed, vOn>>

(* The end of a round, its choices apart.                                  *)
LEMMA EndRoundStep ==
  ASSUME EndRound, clock \in Nat, nextBeat \in Nat
  PROVE  EndsRound
<1>1. \/ clock >= nextBeat /\ nextBeat' = clock + RecordBeat /\ lastBeat' = clock
      \/ clock < nextBeat /\ UNCHANGED <<nextBeat, lastBeat>>
  BY DEF EndRound, Beat
<1>2. \/ /\ fresh /\ state = "LoggedOn" /\ ~fits
         /\ fresh' = FALSE /\ UNCHANGED <<em, wire, unsent, subscribed>>
      \/ /\ fresh /\ state = "LoggedOn" /\ fits /\ fresh' = FALSE /\ em' = Built(clock)
         /\ wire' = em.nextSeq /\ subscribed' = TRUE /\ UNCHANGED unsent
      \/ /\ fresh /\ state = "LoggedOn" /\ fits /\ fresh' = FALSE /\ em' = Built(clock)
         /\ unsent' = unsent \cup {em.nextSeq} /\ UNCHANGED <<wire, subscribed>>
      \/ ~(fresh /\ state = "LoggedOn") /\ UNCHANGED <<fresh, em, wire, unsent, subscribed>>
  BY DEF EndRound, Subscribe, SendSubscription
<1>3. \/ /\ state = "Disconnected" /\ vNext' = 1 /\ vLog' = [n \in Numbers |-> "unused"]
         /\ seen' = {} /\ asked' = [n \in Numbers |-> 0] /\ lastPub' = 0 /\ testAt' = 0
      \/ state # "Disconnected" /\ UNCHANGED <<vNext, vLog, seen, asked, lastPub, testAt>>
  BY DEF EndRound, Forget
<1> QED
  BY <1>1, <1>2, <1>3 DEF EndRound, EndsRound

-----------------------------------------------------------------------------
(***************************************************************************)
(* The venue's steps.                                                      *)
(***************************************************************************)
\* A run of messages is put on the socket; a Reset carries the newest number.
Arrives(q) ==
  /\ q \in Seq(Good) /\ inbox' = inbox \o q
  /\ \A i \in 1 .. Len(q) : q[i].seq < vNext'
  /\ \A i \in 1 .. Len(q) : q[i].kind = "Reset" => i = 1 /\ q[i].seq = vNext

VenueMoves ==
  /\ state # "Disconnected"
  /\ closed' \in {closed, TRUE} /\ vOn' \in {vOn, TRUE}
  /\ vNext' \in {vNext, vNext + 1}
  /\ vLog' \in [Numbers -> {"unused", "MD", "Admin"}]
  /\ outbox' = outbox \/ (outbox # <<>> /\ outbox' = Tail(outbox))
  /\ \E q \in Seq(Good) : Arrives(q)
  /\ UNCHANGED <<clock, pc, now, spent, budget, state, tested, nextConnect, logonSent>>
  /\ UNCHANGED <<nextBeat, fresh, fits, ses, em, buffer>>
  /\ UNCHANGED <<seen, asked, lastPub, testAt, wire, unsent, subscribed, lastBeat>>

(* A message the venue may send.                                           *)
LEMMA Sendable ==
  ASSUME NEW k \in MarketData \cup Admin \cup Unjudged \cup Unframed,
         NEW n \in Numbers, NEW d \in BOOLEAN, NEW a \in Nat \cup {Unset},
         k = "Logon" => a \in Offers \cup {Unset},
         k \in {"GapFill", "Reset"} => a = n + 1,
         k = "GapFill" => GapFills
  PROVE  Msg(k, n, d, a) \in Good
<1>1. n \in Nat
  BY Constants DEF Numbers
<1> QED
  BY <1>1 DEF Good, Msg, Message

(* One message with the venue's next number, or an older one.              *)
LEMMA OneArrives ==
  ASSUME NEW m \in Good, vNext \in Nat, inbox' = inbox \o <<m>>, vNext' = vNext + 1,
         m.seq <= vNext, m.kind = "Reset" => m.seq = vNext
  PROVE  \E q \in Seq(Good) : Arrives(q)
<1>1. <<m>> \in Seq(Good) /\ Len(<<m>>) = 1 /\ <<m>>[1] = m
  OBVIOUS
<1>2. m.seq \in Nat
  BY GoodTypes
<1>3. Arrives(<<m>>)
  BY <1>1, <1>2 DEF Arrives
<1> QED
  BY <1>1, <1>3

(* Nothing arrives.                                                        *)
LEMMA NoneArrives ==
  ASSUME inbox \in Seq(Good), inbox' \in {inbox, inbox \o <<>>}
  PROVE  \E q \in Seq(Good) : Arrives(q)
<1>1. <<>> \in Seq(Good) /\ Len(<<>>) = 0 /\ inbox \o <<>> = inbox
  OBVIOUS
<1>2. Arrives(<<>>)
  BY <1>1 DEF Arrives
<1> QED
  BY <1>1, <1>2

(* Numbers again: each is one the venue has used.                          *)
LEMMA ReplayArrives ==
  ASSUME vNext \in Nat, vNext' = vNext, NEW b \in Nat, NEW e \in Nat, b # 0, e <= MaxNumber,
         e < vNext, vLog \in [Numbers -> {"unused", "MD", "Admin"}], Replay(b, e)
  PROVE  \E q \in Seq(Good) : Arrives(q)
<1>1. PICK k \in 0 .. e : \E q \in [1..k -> Resent(b, e)] :
        inbox' = inbox \o [i \in 1..k |-> Again(q[i])]
  BY DEF Replay
<1>2. PICK q \in [1..k -> Resent(b, e)] : inbox' = inbox \o [i \in 1..k |-> Again(q[i])]
  BY <1>1
<1> DEFINE w == [i \in 1..k |-> Again(q[i])]
<1>3. k \in Nat
  BY <1>1
<1>4. ASSUME NEW i \in 1..k
      PROVE  Again(q[i]) \in Good /\ Again(q[i]).seq < vNext /\ Again(q[i]).kind # "Reset"
  <2>1. q[i] \in Resent(b, e)
    BY <1>2, <1>4
  <2>2. q[i] \in b .. e /\ (vLog[q[i]] = "MD" \/ GapFills)
    BY <2>1 DEF Resent
  <2>3. q[i] \in Nat /\ q[i] < vNext /\ q[i] \in Numbers /\ q[i] + 1 \in Nat
    BY <2>2, Constants DEF Numbers
  <2>4. CASE vLog[q[i]] = "MD"
    <3>1. Msg("MD", q[i], TRUE, Unset) \in Good
      BY <2>3, Sendable DEF MarketData
    <3> QED
      BY <2>3, <2>4, <3>1 DEF Again, Msg
  <2>5. CASE vLog[q[i]] # "MD"
    <3>1. Msg("GapFill", q[i], TRUE, q[i] + 1) \in Good
      BY <2>2, <2>3, <2>5, Sendable DEF Admin
    <3> QED
      BY <2>3, <2>5, <3>1 DEF Again, Msg
  <2> QED
    BY <2>4, <2>5
<1>5. w \in Seq(Good) /\ Len(w) = k /\ \A i \in 1..k : w[i] = Again(q[i])
  BY <1>3, <1>4
<1> HIDE DEF w
<1>6. Arrives(w)
  BY <1>2, <1>4, <1>5 DEF Arrives, w
<1> QED
  BY <1>5, <1>6

(* A number used is the venue's next one.                                  *)
LEMMA UsesFacts ==
  ASSUME NEW c \in {"MD", "Admin"}, NEW q, Uses(c, q), vNext \in Nat, vNext >= 1,
         vLog \in [Numbers -> {"unused", "MD", "Admin"}]
  PROVE  /\ vNext \in Numbers /\ 1 \in Numbers /\ vNext' = vNext + 1 /\ inbox' = inbox \o q
         /\ vLog' \in [Numbers -> {"unused", "MD", "Admin"}]
BY Constants DEF Uses, Numbers

(* The venue answers, sends or closes.                                     *)
LEMMA VenueSteps ==
  ASSUME Venue, vNext \in Nat, vNext >= 1, vLog \in [Numbers -> {"unused", "MD", "Admin"}],
         inbox \in Seq(Good), outbox \in Seq(GoodRequest),
         \A i \in 1 .. Len(outbox) : outbox[i].to < vNext
  PROVE  VenueMoves
<1>1. CASE VenueAnswers
  <2> DEFINE r == Head(outbox)
  <2>1. /\ outbox # <<>> /\ outbox' = Tail(outbox) /\ state # "Disconnected"
        /\ UNCHANGED <<handler, closed>>
    BY <1>1 DEF VenueAnswers, VenueUp
  <2>2. r \in GoodRequest /\ r.to < vNext /\ r.to \in Nat /\ r.from \in Nat
    BY <2>1, SeqFacts DEF GoodRequest, Request
  <2>3. \/ /\ r.kind = "Logon" /\ vOn' = TRUE
           /\ \E offer \in Offers : Uses("Admin", <<Msg("Logon", vNext, FALSE, offer)>>)
        \/ /\ r.kind = "TestRequest"
           /\ Uses("Admin", <<Msg("Heartbeat", vNext, FALSE, Unset)>>) /\ UNCHANGED vOn
        \/ r.kind = "ResendRequest" /\ Replay(r.from, r.to) /\ UNCHANGED <<vOn, vNext, vLog>>
    BY <1>1 DEF VenueAnswers, venue
  <2> HIDE DEF r
  <2>4. /\ vOn' \in {vOn, TRUE} /\ vNext' \in {vNext, vNext + 1}
        /\ vLog' \in [Numbers -> {"unused", "MD", "Admin"}]
        /\ \E q \in Seq(Good) : Arrives(q)
    <3>1. CASE \E offer \in Offers : Uses("Admin", <<Msg("Logon", vNext, FALSE, offer)>>)
      <4>1. PICK offer \in Offers : Uses("Admin", <<Msg("Logon", vNext, FALSE, offer)>>)
        BY <3>1
      <4> DEFINE m == Msg("Logon", vNext, FALSE, offer)
      <4>2. /\ vNext \in Numbers /\ vNext' = vNext + 1 /\ inbox' = inbox \o <<m>>
            /\ vLog' \in [Numbers -> {"unused", "MD", "Admin"}]
        BY <4>1, UsesFacts
      <4>3. m \in Good
        BY <4>2, Sendable, Constants DEF Admin
      <4>4. m.seq = vNext /\ m.seq <= vNext
        BY DEF Msg
      <4> HIDE DEF m
      <4>5. \E q \in Seq(Good) : Arrives(q)
        BY <4>2, <4>3, <4>4, OneArrives
      <4>6. vOn' \in {vOn, TRUE}
        BY <2>3
      <4> QED
        BY <4>2, <4>5, <4>6
    <3>2. CASE Uses("Admin", <<Msg("Heartbeat", vNext, FALSE, Unset)>>)
      <4> DEFINE m == Msg("Heartbeat", vNext, FALSE, Unset)
      <4>2. /\ vNext \in Numbers /\ vNext' = vNext + 1 /\ inbox' = inbox \o <<m>>
            /\ vLog' \in [Numbers -> {"unused", "MD", "Admin"}]
        BY <3>2, UsesFacts
      <4>3. m \in Good
        BY <4>2, Sendable DEF Admin
      <4>4. m.seq = vNext /\ m.seq <= vNext
        BY DEF Msg
      <4> HIDE DEF m
      <4>5. \E q \in Seq(Good) : Arrives(q)
        BY <4>2, <4>3, <4>4, OneArrives
      <4>6. vOn' \in {vOn, TRUE}
        BY <2>3
      <4> QED
        BY <4>2, <4>5, <4>6
    <3>3. CASE r.kind = "ResendRequest" /\ Replay(r.from, r.to) /\ UNCHANGED <<vOn, vNext, vLog>>
      <4>1. r.from # 0 /\ r.to <= MaxNumber
        BY <2>2, <3>3 DEF GoodRequest
      <4>2. \E q \in Seq(Good) : Arrives(q)
        BY <2>2, <3>3, <4>1, ReplayArrives
      <4> QED
        BY <3>3, <4>2
    <3> QED
      BY <2>3, <3>1, <3>2, <3>3
  <2> QED
    BY <2>1, <2>4 DEF VenueMoves, handler, loop, timers, history
<1>2. CASE VenueCloses
  <2>1. inbox' = inbox
    BY <1>2 DEF VenueCloses
  <2>2. \E q \in Seq(Good) : Arrives(q)
    BY <2>1, NoneArrives
  <2> QED
    BY <1>2, <2>2 DEF VenueCloses, VenueUp, VenueMoves, handler, loop, timers, history, venue
<1>3. ASSUME NEW k \in Kinds, VenueSends(k)
      PROVE  VenueMoves
  <2>1. state # "Disconnected" /\ UNCHANGED <<handler, outbox, closed, vOn>>
    BY <1>3 DEF VenueSends, VenueUp
  <2>2. k \in Unasked
    BY Constants
  <2>3. PICK c \in {"MD", "Admin"} :
          \/ Uses(c, <<>>)
          \/ Uses(c, <<Msg("MD", 1, FALSE, Unset)>>)
          \/ Uses(c, <<Msg("Reset", vNext, FALSE, vNext + 1)>>)
          \/ /\ k \notin {"Skip", "Regress", "Reset"}
             /\ Uses(c, <<Msg(k, vNext, FALSE, Unset)>>)
    <3>1. \/ k = "Skip" /\ Uses("MD", <<>>)
          \/ k = "Regress" /\ Uses("MD", <<Msg("MD", 1, FALSE, Unset)>>)
          \/ k = "Reset" /\ Uses("Admin", <<Msg("Reset", vNext, FALSE, vNext + 1)>>)
          \/ k \notin {"Skip", "Regress", "Reset"} /\ Uses("MD", <<Msg(k, vNext, FALSE, Unset)>>)
          \/ k \notin {"Skip", "Regress", "Reset"} /\ Uses("Admin", <<Msg(k, vNext, FALSE, Unset)>>)
      BY <1>3 DEF VenueSends, MarketData
    <3> QED
      BY <3>1
  <2>4. /\ vNext' = vNext + 1 /\ vNext \in Numbers /\ 1 \in Numbers
        /\ vLog' \in [Numbers -> {"unused", "MD", "Admin"}]
    BY <2>3, UsesFacts
  <2>5. vNext + 1 \in Nat
    OBVIOUS
  <2>6. \E q \in Seq(Good) : Arrives(q)
    <3>1. CASE Uses(c, <<>>)
      <4>1. inbox' = inbox \o <<>>
        BY <3>1 DEF Uses
      <4> QED
        BY <4>1, NoneArrives
    <3>2. CASE Uses(c, <<Msg("MD", 1, FALSE, Unset)>>)
      <4> DEFINE m == Msg("MD", 1, FALSE, Unset)
      <4>1. inbox' = inbox \o <<m>>
        BY <3>2 DEF Uses
      <4>2. m \in Good
        BY <2>4, Sendable DEF MarketData
      <4>3. m.seq = 1 /\ m.kind = "MD"
        BY DEF Msg
      <4> HIDE DEF m
      <4> QED
        BY <2>4, <4>1, <4>2, <4>3, OneArrives
    <3>3. CASE Uses(c, <<Msg("Reset", vNext, FALSE, vNext + 1)>>)
      <4> DEFINE m == Msg("Reset", vNext, FALSE, vNext + 1)
      <4>1. inbox' = inbox \o <<m>>
        BY <3>3 DEF Uses
      <4>2. m \in Good
        BY <2>4, <2>5, Sendable DEF Admin
      <4>3. m.seq = vNext /\ m.seq <= vNext
        BY DEF Msg
      <4> HIDE DEF m
      <4> QED
        BY <2>4, <4>1, <4>2, <4>3, OneArrives
    <3>4. CASE k \notin {"Skip", "Regress", "Reset"} /\ Uses(c, <<Msg(k, vNext, FALSE, Unset)>>)
      <4> DEFINE m == Msg(k, vNext, FALSE, Unset)
      <4>1. inbox' = inbox \o <<m>>
        BY <3>4 DEF Uses
      <4>2. k \in MarketData \cup Admin \cup Unjudged \cup Unframed /\ k # "GapFill"
        BY <2>2, <3>4 DEF Unasked, MarketData, Admin, Unjudged, Unframed
      <4>3. m \in Good
        BY <2>4, <3>4, <4>2, Sendable
      <4>4. m.seq = vNext /\ m.seq <= vNext
        BY DEF Msg
      <4> HIDE DEF m
      <4> QED
        BY <2>4, <4>1, <4>3, <4>4, OneArrives
    <3> QED
      BY <2>3, <3>1, <3>2, <3>3, <3>4
  <2> QED
    BY <2>1, <2>4, <2>6 DEF VenueMoves, handler, loop, timers, history
<1> QED
  BY <1>1, <1>2, <1>3 DEF Venue

-----------------------------------------------------------------------------
(***************************************************************************)
(* The invariant, step by step.                                            *)
(***************************************************************************)
TypeInv == LoopOK /\ FlagsOK /\ TimersOK /\ SessionOK /\ VenueOK /\ EmptyInv /\ LinkInv

SafetyInv ==
  /\ TypeInv /\ StreamInv /\ AskInv /\ PubInv /\ WireInv /\ SubscribeInv
  /\ RoundInv /\ BeatInv /\ SilenceInv

Stays ==
  /\ UNCHANGED <<clock, pc, now, spent, budget, state, tested, nextConnect, logonSent>>
  /\ UNCHANGED <<nextBeat, fresh, fits, ses, em, inbox, buffer, outbox, closed>>
  /\ UNCHANGED <<vOn, vNext, vLog, seen, asked, lastPub, testAt, wire, unsent, subscribed, lastBeat>>

Step ==
  \/ Rests \/ Redials \/ Connects \/ Fills \/ PassesOver \/ Sends \/ HangsUp \/ EndsRound
  \/ (Judged /\ CarriesOn) \/ (Judged /\ EndsWithIt) \/ VenueMoves \/ Stays

(* Every step is one of those.                                             *)
LEMMA Steps ==
  ASSUME TypeInv, StreamInv, [Next]_vars
  PROVE  Step
<1>1. /\ clock \in Nat /\ nextBeat \in Nat /\ fresh \in BOOLEAN /\ ses \in Session
      /\ buffer \in Seq(Good) /\ inbox \in Seq(Good) /\ outbox \in Seq(GoodRequest)
      /\ vNext \in Nat /\ vNext >= 1 /\ vLog \in [Numbers -> {"unused", "MD", "Admin"}]
  BY Constants DEF TypeInv, LoopOK, FlagsOK, TimersOK, SessionOK, VenueOK, LinkInv
<1>2. CASE TryConnect
  <2>1. CASE BackingOff
    BY <2>1, RestSteps DEF Step
  <2>2. ASSUME NEW d \in 0..DialTime, DialFails(d) \/ LogonFails(d) PROVE Step
    BY <1>1, <2>2, RedialSteps DEF Step
  <2>3. ASSUME NEW d \in 0..DialTime, NEW f \in Firsts, Connect(f, d) PROVE Step
    BY <1>1, <2>3, ConnectStep DEF Step
  <2> QED
    BY <1>2, <2>1, <2>2, <2>3 DEF TryConnect
<1>3. CASE Pump
  <2>1. CASE IngestMarketData \/ IngestAdmin
    <3>1. Judged /\ (CarriesOn \/ EndsWithIt)
      BY <1>1, <2>1, JudgeSteps
    <3> QED
      BY <3>1 DEF Step
  <2>2. CASE ~(IngestMarketData \/ IngestAdmin)
    BY <1>3, <2>2, RestSteps, FillStep, HangUpSteps, UnjudgedStep, SendSteps DEF Pump, Step
  <2> QED
    BY <2>1, <2>2
<1>4. CASE EndRound
  BY <1>1, <1>4, EndRoundStep DEF Step
<1>5. CASE WakeUp \/ Wait
  BY <1>5, RestSteps DEF Step
<1>6. CASE Stop
  BY <1>6, HangUpSteps DEF Step
<1>7. CASE Venue
  <2>1. state # "Disconnected"
    BY <1>7 DEF Venue, VenueAnswers, VenueCloses, VenueSends, VenueUp
  <2>2. \A i \in 1 .. Len(outbox) : outbox[i].to < vNext
    BY <2>1 DEF StreamInv
  <2> QED
    BY <1>1, <1>7, <2>2, VenueSteps DEF Step
<1>8. CASE UNCHANGED vars
  BY <1>8 DEF vars, loop, timers, network, venue, history, Stays, Step
<1> QED
  BY <1>2, <1>3, <1>4, <1>5, <1>6, <1>7, <1>8 DEF Next

(* Booleans stay Booleans.                                                 *)
LEMMA FlagsStep ==
  ASSUME FlagsOK, Step
  PROVE  FlagsOK'
<1> USE DEF FlagsOK
<1>1. CASE Rests
  BY <1>1 DEF Rests
<1>2. CASE Redials
  BY <1>2 DEF Redials, Dials
<1>3. CASE Connects
  BY <1>3 DEF Connects, Dials
<1>4. CASE Fills
  BY <1>4 DEF Fills
<1>5. CASE PassesOver
  BY <1>5 DEF PassesOver
<1>6. CASE Sends
  BY <1>6 DEF Sends
<1>7. CASE HangsUp
  BY <1>7 DEF HangsUp, Hangs
<1>8. CASE EndsRound
  BY <1>8 DEF EndsRound
<1>9. CASE Judged /\ CarriesOn
  BY <1>9 DEF Judged, CarriesOn
<1>10. CASE Judged /\ EndsWithIt
  BY <1>10 DEF Judged, EndsWithIt, Hangs
<1>11. CASE VenueMoves
  BY <1>11 DEF VenueMoves
<1>12. CASE Stays
  BY <1>12 DEF Stays
<1> QED
  BY <1>1, <1>2, <1>3, <1>4, <1>5, <1>6, <1>7, <1>8, <1>9, <1>10, <1>11, <1>12 DEF Step

(* The loop's own state.                                                   *)
LEMMA LoopStep ==
  ASSUME LoopOK, Step
  PROVE  LoopOK'
<1> USE DEF LoopOK
<1>0. Burst \in Nat /\ MaxTime \in Nat /\ RoundTime \in Nat
  BY Constants
<1>1. CASE Rests
  BY <1>1, <1>0 DEF Rests
<1>2. CASE Redials
  BY <1>2, <1>0 DEF Redials, Dials
<1>3. CASE Connects
  BY <1>3, <1>0 DEF Connects, Dials
<1>4. CASE Fills
  BY <1>4, <1>0 DEF Fills
<1>5. CASE PassesOver
  BY <1>5, <1>0 DEF PassesOver
<1>6. CASE Sends
  BY <1>6, <1>0 DEF Sends
<1>7. CASE HangsUp
  BY <1>7, <1>0 DEF HangsUp, Hangs
<1>8. CASE EndsRound
  BY <1>8, <1>0 DEF EndsRound
<1>9. CASE Judged /\ CarriesOn
  BY <1>9, <1>0 DEF Judged, CarriesOn
<1>10. CASE Judged /\ EndsWithIt
  BY <1>10, <1>0 DEF Judged, EndsWithIt, Hangs
<1>11. CASE VenueMoves
  BY <1>11, <1>0 DEF VenueMoves
<1>12. CASE Stays
  BY <1>12, <1>0 DEF Stays
<1> QED
  BY <1>1, <1>2, <1>3, <1>4, <1>5, <1>6, <1>7, <1>8, <1>9, <1>10, <1>11, <1>12 DEF Step

(* The timers.                                                             *)
LEMMA TimersStep ==
  ASSUME LoopOK, TimersOK, Step
  PROVE  TimersOK'
<1> USE DEF TimersOK
<1>0. /\ Reconnect \in Nat /\ RecordBeat \in Nat /\ clock \in Nat /\ MaxTime \in Nat
      /\ clock \in 0..MaxTime /\ now \in 0..MaxTime
  BY Constants DEF LoopOK
<1>1. CASE Rests
  BY <1>1, <1>0 DEF Rests
<1>2. CASE Redials
  BY <1>2, <1>0 DEF Redials, Dials
<1>3. CASE Connects
  BY <1>3, <1>0 DEF Connects, Dials
<1>4. CASE Fills
  BY <1>4, <1>0 DEF Fills
<1>5. CASE PassesOver
  BY <1>5, <1>0 DEF PassesOver
<1>6. CASE Sends
  BY <1>6, <1>0 DEF Sends
<1>7. CASE HangsUp
  BY <1>7, <1>0 DEF HangsUp, Hangs
<1>8. CASE EndsRound
  BY <1>8, <1>0 DEF EndsRound
<1>9. CASE Judged /\ CarriesOn
  BY <1>9, <1>0 DEF Judged, CarriesOn
<1>10. CASE Judged /\ EndsWithIt
  BY <1>10, <1>0 DEF Judged, EndsWithIt, Hangs
<1>11. CASE VenueMoves
  BY <1>11, <1>0 DEF VenueMoves
<1>12. CASE Stays
  BY <1>12, <1>0 DEF Stays
<1> QED
  BY <1>1, <1>2, <1>3, <1>4, <1>5, <1>6, <1>7, <1>8, <1>9, <1>10, <1>11, <1>12 DEF Step

(* The session and the numbers of both sides.                              *)
LEMMA SessionStep ==
  ASSUME LoopOK, SessionOK, Step
  PROVE  SessionOK'
<1> USE DEF SessionOK
<1>0. /\ em.nextSeq + 1 \in Nat \ {0} /\ em.nextSeq \in Nat /\ clock \in Nat /\ now \in Nat
      /\ Built(now) \in Emitter /\ Built(clock) \in Emitter
  BY Constants DEF LoopOK, Emitter, Built
<1>a. /\ [nextSeq |-> 2, lastSent |-> clock] \in Emitter /\ NewEmitter \in Emitter
      /\ NewSession \in Session
  BY <1>0 DEF Emitter, Session, NewEmitter, NewSession
<1>1. CASE Rests
  BY <1>1, <1>0, <1>a DEF Rests
<1>2. CASE Redials
  BY <1>2, <1>0, <1>a DEF Redials, Dials
<1>3. CASE Connects
  BY <1>3, <1>0, <1>a DEF Connects, Dials
<1>4. CASE Fills
  BY <1>4, <1>0, <1>a DEF Fills
<1>5. CASE PassesOver
  BY <1>5, <1>0, <1>a DEF PassesOver
<1>6. CASE Sends
  BY <1>6, <1>0, <1>a DEF Sends
<1>7. CASE HangsUp
  BY <1>7, <1>0, <1>a DEF HangsUp, Hangs
<1>8. CASE EndsRound
  BY <1>8, <1>0, <1>a DEF EndsRound
<1>9. CASE Judged /\ CarriesOn
  BY <1>9, <1>0, <1>a DEF Judged, CarriesOn
<1>10. CASE Judged /\ EndsWithIt
  BY <1>10, <1>0, <1>a DEF Judged, EndsWithIt, Hangs
<1>11. CASE VenueMoves
  BY <1>11, <1>0, <1>a DEF VenueMoves
<1>12. CASE Stays
  BY <1>12, <1>0, <1>a DEF Stays
<1> QED
  BY <1>1, <1>2, <1>3, <1>4, <1>5, <1>6, <1>7, <1>8, <1>9, <1>10, <1>11, <1>12 DEF Step

(* The venue's numbers and the session's record.                           *)
LEMMA VenueStep ==
  ASSUME VenueOK, SessionOK, LinkInv, Step
  PROVE  VenueOK'
<1> USE DEF VenueOK
<1>0. /\ Firsts \subseteq Nat /\ vNext + 1 \in Nat
      /\ buffer # <<>> => Coming \in Good /\ Coming.seq \in Nat /\ Coming.seq \in Numbers
  BY VenueAssumption, SeqFacts, GoodTypes DEF LinkInv, Coming
<1>1. CASE Rests
  BY <1>1, <1>0 DEF Rests
<1>2. CASE Redials
  BY <1>2, <1>0 DEF Redials, Dials
<1>3. CASE Connects
  BY <1>3, <1>0 DEF Connects, Dials
<1>4. CASE Fills
  BY <1>4, <1>0 DEF Fills
<1>5. CASE PassesOver
  BY <1>5, <1>0 DEF PassesOver
<1>6. CASE Sends
  BY <1>6, <1>0 DEF Sends
<1>7. CASE HangsUp
  BY <1>7, <1>0 DEF HangsUp, Hangs
<1>8. CASE EndsRound
  BY <1>8, <1>0 DEF EndsRound
<1>9. CASE Judged /\ CarriesOn
  BY <1>9, <1>0 DEF Judged, CarriesOn
<1>10. CASE Judged /\ EndsWithIt
  BY <1>10, <1>0 DEF Judged, EndsWithIt, Hangs
<1>11. CASE VenueMoves
  BY <1>11, <1>0 DEF VenueMoves
<1>12. CASE Stays
  BY <1>12, <1>0 DEF Stays
<1> QED
  BY <1>1, <1>2, <1>3, <1>4, <1>5, <1>6, <1>7, <1>8, <1>9, <1>10, <1>11, <1>12 DEF Step

(* Nothing is left of a connection that went.                              *)
LEMMA EmptyStep ==
  ASSUME EmptyInv, LinkInv, Step
  PROVE  EmptyInv'
<1> USE DEF EmptyInv
<1>0. pc \in {"read", "burst"} => state # "Disconnected"
  BY DEF LinkInv
<1>1. CASE Rests
  BY <1>1, <1>0 DEF Rests
<1>2. CASE Redials
  BY <1>2, <1>0 DEF Redials, Dials
<1>3. CASE Connects
  BY <1>3, <1>0 DEF Connects, Dials
<1>4. CASE Fills
  BY <1>4, <1>0 DEF Fills
<1>5. CASE PassesOver
  BY <1>5, <1>0 DEF PassesOver
<1>6. CASE Sends
  BY <1>6, <1>0 DEF Sends
<1>7. CASE HangsUp
  BY <1>7, <1>0 DEF HangsUp, Hangs
<1>8. CASE EndsRound
  BY <1>8, <1>0 DEF EndsRound
<1>9. CASE Judged /\ CarriesOn
  BY <1>9, <1>0 DEF Judged, CarriesOn
<1>10. CASE Judged /\ EndsWithIt
  BY <1>10, <1>0 DEF Judged, EndsWithIt, Hangs
<1>11. CASE VenueMoves
  BY <1>11, <1>0 DEF VenueMoves
<1>12. CASE Stays
  BY <1>12, <1>0 DEF Stays
<1> QED
  BY <1>1, <1>2, <1>3, <1>4, <1>5, <1>6, <1>7, <1>8, <1>9, <1>10, <1>11, <1>12 DEF Step

(* What is on the connection.                                              *)
LEMMA LinkStep ==
  ASSUME SessionOK, VenueOK, LinkInv, Step
  PROVE  LinkInv'
<1> USE DEF LinkInv
<1>0. /\ <<>> \in Seq(Good) /\ <<>> \in Seq(GoodRequest)
      /\ [kind |-> "Logon", from |-> 0, to |-> 0] \in GoodRequest
      /\ [kind |-> "TestRequest", from |-> 0, to |-> 0] \in GoodRequest
      /\ NewSession.nextExpected = 1
  BY DEF GoodRequest, Request, NewSession
<1>a. /\ buffer # <<>> => Tail(buffer) \in Seq(Good) /\ Coming \in Good
      /\ outbox # <<>> => Tail(outbox) \in Seq(GoodRequest)
      /\ buffer \o inbox \in Seq(Good)
      /\ vNext \in Nat /\ Firsts \subseteq Nat \ {0} /\ ses.nextExpected \in Nat
  BY SeqFacts, VenueAssumption DEF Coming, VenueOK, SessionOK, Session
<1>b. buffer # <<>> =>
        /\ Passed >= 1
        /\ Hole => HoleRequest \in GoodRequest
  <2> SUFFICES ASSUME buffer # <<>>
               PROVE  Passed >= 1 /\ (Hole => HoleRequest \in GoodRequest)
    OBVIOUS
  <2>1. /\ Coming \in Good /\ Coming.seq \in Nat /\ Coming.seq >= 1 /\ Coming.seq <= MaxNumber
        /\ Coming.kind \in {"GapFill", "Reset"} => Coming.arg = Coming.seq + 1
    BY <1>a, GoodTypes DEF Good
  <2>2. Passed >= 1
    BY <2>1, <1>a DEF Passed
  <2>3. ASSUME Hole PROVE HoleRequest \in GoodRequest
    <3>1. Coming.seq - 1 \in Nat /\ Coming.seq - 1 <= MaxNumber
      BY <2>1, Constants
    <3> QED
      BY <1>a, <3>1 DEF HoleRequest, GoodRequest, Request
  <2> QED
    BY <2>2, <2>3
<1>1. CASE Rests
  BY <1>1, <1>0, <1>a DEF Rests
<1>2. CASE Redials
  BY <1>2, <1>0, <1>a DEF Redials, Dials
<1>3. CASE Connects
  BY <1>3, <1>0, <1>a DEF Connects, Dials
<1>4. CASE Fills
  BY <1>4, <1>0, <1>a DEF Fills
<1>5. CASE PassesOver
  BY <1>5, <1>0, <1>a DEF PassesOver
<1>6. CASE Sends
  <2>1. outbox' \in Seq(GoodRequest)
    <3>1. CASE outbox' = outbox
      BY <3>1
    <3>2. CASE outbox' = Append(outbox, [kind |-> "TestRequest", from |-> 0, to |-> 0])
      BY <1>0, <3>2
    <3> QED
      BY <1>6, <3>1, <3>2 DEF Sends
  <2> QED
    BY <1>6, <2>1 DEF Sends
<1>7. CASE HangsUp
  BY <1>7, <1>0, <1>a DEF HangsUp, Hangs
<1>8. CASE EndsRound
  BY <1>8, <1>0, <1>a DEF EndsRound
<1>9. CASE Judged /\ CarriesOn
  <2>1. outbox' \in Seq(GoodRequest)
    <3>1. CASE outbox' = outbox
      BY <3>1
    <3>2. CASE Hole /\ outbox' = Append(outbox, HoleRequest)
      <4>1. HoleRequest \in GoodRequest
        BY <1>9, <1>b, <3>2 DEF Judged
      <4> QED
        BY <3>2, <4>1
    <3> QED
      BY <1>9, <3>1, <3>2 DEF CarriesOn
  <2>2. state' # "Disconnected" /\ ses'.nextExpected >= 1 /\ vNext' >= 1
    BY <1>9, <1>b DEF Judged, CarriesOn
  <2>3. inbox' \in Seq(Good) /\ buffer' \in Seq(Good)
    BY <1>9, <1>a DEF Judged, CarriesOn
  <2> QED
    BY <2>1, <2>2, <2>3
<1>10. CASE Judged /\ EndsWithIt
  BY <1>10, <1>0, <1>b DEF Judged, EndsWithIt, Hangs
<1>11. CASE VenueMoves
  <2>1. PICK q \in Seq(Good) : Arrives(q)
    BY <1>11 DEF VenueMoves
  <2>2. inbox' \in Seq(Good)
    BY <2>1, SeqFacts DEF Arrives
  <2>3. vNext' >= 1
    BY <1>11, <1>a DEF VenueMoves
  <2> QED
    BY <1>11, <1>a, <2>2, <2>3 DEF VenueMoves
<1>12. CASE Stays
  BY <1>12, <1>0, <1>a DEF Stays
<1> QED
  BY <1>1, <1>2, <1>3, <1>4, <1>5, <1>6, <1>7, <1>8, <1>9, <1>10, <1>11, <1>12 DEF Step

(* A round that pumps sees a clock as old as it has blocked.               *)
LEMMA RoundStep ==
  ASSUME TypeInv, RoundInv, Step
  PROVE  RoundInv'
<1> USE DEF RoundInv
<1>0. /\ clock \in Nat /\ now \in Nat /\ spent \in Nat /\ RecordBeat \in Nat /\ RecordBeat > 0
      /\ spent <= RoundTime /\ RoundTime \in Nat /\ RoundTime > 0 /\ DialTime \in Nat
      /\ nextBeat \in Nat /\ lastBeat \in Nat /\ logonSent \in Nat /\ LogonTimeout \in Nat
  BY Constants DEF TypeInv, LoopOK, FlagsOK, TimersOK
<1>1. CASE Rests
  BY <1>1, <1>0 DEF Rests
<1>2. CASE Redials
  BY <1>2, <1>0 DEF Redials, Dials
<1>3. CASE Connects
  BY <1>3, <1>0 DEF Connects, Dials
<1>4. CASE Fills
  BY <1>4, <1>0 DEF Fills
<1>5. CASE PassesOver
  BY <1>5, <1>0 DEF PassesOver
<1>6. CASE Sends
  BY <1>6, <1>0 DEF Sends
<1>7. CASE HangsUp
  BY <1>7, <1>0 DEF HangsUp, Hangs
<1>8. CASE EndsRound
  BY <1>8, <1>0 DEF EndsRound
<1>9. CASE Judged /\ CarriesOn
  BY <1>9, <1>0 DEF Judged, CarriesOn
<1>10. CASE Judged /\ EndsWithIt
  BY <1>10, <1>0 DEF Judged, EndsWithIt, Hangs
<1>11. CASE VenueMoves
  BY <1>11, <1>0 DEF VenueMoves
<1>12. CASE Stays
  BY <1>12, <1>0 DEF Stays
<1> QED
  BY <1>1, <1>2, <1>3, <1>4, <1>5, <1>6, <1>7, <1>8, <1>9, <1>10, <1>11, <1>12 DEF Step

(* The beat is never far behind.                                           *)
LEMMA BeatStep ==
  ASSUME TypeInv, BeatInv, Step
  PROVE  BeatInv'
<1> USE DEF BeatInv
<1>0. /\ clock \in Nat /\ now \in Nat /\ spent \in Nat /\ RecordBeat \in Nat /\ RecordBeat > 0
      /\ spent <= RoundTime /\ RoundTime \in Nat /\ RoundTime > 0 /\ DialTime \in Nat
      /\ nextBeat \in Nat /\ lastBeat \in Nat /\ logonSent \in Nat /\ LogonTimeout \in Nat
  BY Constants DEF TypeInv, LoopOK, FlagsOK, TimersOK
<1>a. /\ Longer(DialTime, RoundTime) \in Nat /\ RoundTime <= Longer(DialTime, RoundTime)
      /\ DialTime <= Longer(DialTime, RoundTime)
  BY <1>0 DEF Longer
<1>1. CASE Rests
  BY <1>1, <1>0, <1>a DEF Rests
<1>2. CASE Redials
  BY <1>2, <1>0, <1>a DEF Redials, Dials
<1>3. CASE Connects
  BY <1>3, <1>0, <1>a DEF Connects, Dials
<1>4. CASE Fills
  BY <1>4, <1>0, <1>a DEF Fills
<1>5. CASE PassesOver
  BY <1>5, <1>0, <1>a DEF PassesOver
<1>6. CASE Sends
  BY <1>6, <1>0, <1>a DEF Sends
<1>7. CASE HangsUp
  BY <1>7, <1>0, <1>a DEF HangsUp, Hangs
<1>8. CASE EndsRound
  BY <1>8, <1>0, <1>a DEF EndsRound
<1>9. CASE Judged /\ CarriesOn
  BY <1>9, <1>0, <1>a DEF Judged, CarriesOn
<1>10. CASE Judged /\ EndsWithIt
  BY <1>10, <1>0, <1>a DEF Judged, EndsWithIt, Hangs
<1>11. CASE VenueMoves
  BY <1>11, <1>0, <1>a DEF VenueMoves
<1>12. CASE Stays
  BY <1>12, <1>0, <1>a DEF Stays
<1> QED
  BY <1>1, <1>2, <1>3, <1>4, <1>5, <1>6, <1>7, <1>8, <1>9, <1>10, <1>11, <1>12 DEF Step

(* What is built next follows what went out.                               *)
LEMMA WireStep ==
  ASSUME TypeInv, WireInv, Step
  PROVE  WireInv'
<1> USE DEF WireInv
<1>0. /\ em.nextSeq \in Nat /\ wire \in Nat
      /\ pc \in {"read", "burst"} => state # "Disconnected"
      /\ Built(now).nextSeq = em.nextSeq + 1 /\ Built(clock).nextSeq = em.nextSeq + 1
  BY DEF TypeInv, LinkInv, SessionOK, Emitter, Built
<1>1. CASE Rests
  BY <1>1, <1>0 DEF Rests
<1>2. CASE Redials
  BY <1>2, <1>0 DEF Redials, Dials
<1>3. CASE Connects
  BY <1>3, <1>0 DEF Connects, Dials
<1>4. CASE Fills
  BY <1>4, <1>0 DEF Fills
<1>5. CASE PassesOver
  BY <1>5, <1>0 DEF PassesOver
<1>6. CASE Sends
  BY <1>6, <1>0 DEF Sends
<1>7. CASE HangsUp
  BY <1>7, <1>0 DEF HangsUp, Hangs
<1>8. CASE EndsRound
  BY <1>8, <1>0 DEF EndsRound
<1>9. CASE Judged /\ CarriesOn
  <2>1. state # "Disconnected" /\ unsent' = unsent
    BY <1>9, <1>0 DEF Judged, CarriesOn
  <2>2. CASE UNCHANGED <<em, wire>>
    BY <2>1, <2>2
  <2>3. CASE em' = Built(now) /\ wire' = em.nextSeq
    BY <2>1, <2>3, <1>0
  <2> QED
    BY <1>9, <2>2, <2>3 DEF CarriesOn
<1>10. CASE Judged /\ EndsWithIt
  BY <1>10, <1>0 DEF Judged, EndsWithIt, Hangs
<1>11. CASE VenueMoves
  BY <1>11, <1>0 DEF VenueMoves
<1>12. CASE Stays
  BY <1>12, <1>0 DEF Stays
<1> QED
  BY <1>1, <1>2, <1>3, <1>4, <1>5, <1>6, <1>7, <1>8, <1>9, <1>10, <1>11, <1>12 DEF Step

(* A Logon is followed by a subscription in its round.                     *)
LEMMA SubscribeStep ==
  ASSUME TypeInv, SubscribeInv, Step
  PROVE  SubscribeInv'
<1> USE DEF SubscribeInv
<1>0. fresh \in BOOLEAN /\ subscribed \in BOOLEAN /\ closed \in BOOLEAN
  BY DEF TypeInv, FlagsOK
<1>1. CASE Rests
  BY <1>1, <1>0 DEF Rests
<1>2. CASE Redials
  BY <1>2, <1>0 DEF Redials, Dials
<1>3. CASE Connects
  BY <1>3, <1>0 DEF Connects, Dials
<1>4. CASE Fills
  BY <1>4, <1>0 DEF Fills
<1>5. CASE PassesOver
  BY <1>5, <1>0 DEF PassesOver
<1>6. CASE Sends
  BY <1>6, <1>0 DEF Sends
<1>7. CASE HangsUp
  BY <1>7, <1>0 DEF HangsUp, Hangs
<1>8. CASE EndsRound
  BY <1>8, <1>0 DEF EndsRound
<1>9. CASE Judged /\ CarriesOn
  BY <1>9, <1>0 DEF Judged, CarriesOn
<1>10. CASE Judged /\ EndsWithIt
  BY <1>10, <1>0 DEF Judged, EndsWithIt, Hangs
<1>11. CASE VenueMoves
  BY <1>11, <1>0 DEF VenueMoves
<1>12. CASE Stays
  BY <1>12, <1>0 DEF Stays
<1> QED
  BY <1>1, <1>2, <1>3, <1>4, <1>5, <1>6, <1>7, <1>8, <1>9, <1>10, <1>11, <1>12 DEF Step

(* The timers let a session go on only within its deadlines.               *)
LEMMA CalmMeans ==
  ASSUME Calm, SilenceInv, now \in Nat, logonSent \in Nat, ses.lastRecv \in Nat, ses.interval \in Nat
  PROVE  /\ state = "LoggingOn" => now - logonSent <= LogonTimeout
         /\ state = "LoggedOn" => now - ses.lastRecv <= 2 * ses.interval
<1>1. state = "LoggedOn" => ~(now - ses.lastRecv > ses.interval * 2)
  BY DEF Calm, IsSilent, SilenceInv
<1>2. ses.interval * 2 = 2 * ses.interval
  OBVIOUS
<1>3. ~(state = "LoggingOn" /\ now - logonSent > LogonTimeout)
  BY DEF Calm
<1> QED
  BY <1>1, <1>2, <1>3, Constants

(* A venue gone quiet is given up in time.                                 *)
LEMMA SilenceStep ==
  ASSUME TypeInv, RoundInv, SilenceInv, Step
  PROVE  SilenceInv'
<1> USE DEF SilenceInv, Overdue
<1>0. /\ clock \in Nat /\ clock > 0 /\ now \in Nat /\ spent \in Nat /\ logonSent \in Nat
      /\ spent <= RoundTime /\ RoundTime \in Nat /\ RoundTime > 0 /\ DialTime \in Nat
      /\ LogonTimeout \in Nat /\ ses.lastRecv \in Nat /\ ses.interval \in Nat
      /\ NewSession.interval = 0
  BY Constants DEF TypeInv, LoopOK, FlagsOK, TimersOK, SessionOK, Session, NewSession
<1>a. pc \in {"read", "burst"} => state # "Disconnected"
  BY DEF TypeInv, LinkInv
<1>b. now <= clock /\ (pc \in {"read", "burst"} => clock <= now + spent)
  BY DEF RoundInv
<1>d. /\ Longer(LogonTimeout, DialTime) \in Nat
      /\ LogonTimeout <= Longer(LogonTimeout, DialTime)
      /\ DialTime <= Longer(LogonTimeout, DialTime)
  BY <1>0 DEF Longer
<1>c. pc # "stopped" \/ state = "Disconnected"
  BY DEF SilenceInv
<1>1. CASE Rests
  <2>1. UNCHANGED <<state, logonSent, ses>>
    BY <1>1 DEF Rests
  <2>2. CASE pc = "poll" /\ pc' \in {"end", "read"} /\ now' = clock /\ UNCHANGED clock
             /\ (pc' = "end" => state = "Disconnected")
    BY <2>1, <2>2, <1>0, <1>d
  <2>3. CASE pc = "burst" /\ pc' = "end" /\ Calm /\ UNCHANGED <<clock, now, spent>>
    BY <2>1, <2>3, <1>0, <1>b, <1>d, CalmMeans
  <2>4. CASE pc = "rest" /\ pc' = "poll" /\ UNCHANGED <<clock, now>>
    BY <2>1, <2>4, <1>0, <1>b, <1>d
  <2>5. CASE /\ pc \in {"read", "burst", "rest"} /\ pc' = pc /\ UNCHANGED now
             /\ clock' = clock + 1 /\ spent' = spent + 1
    BY <2>1, <2>5, <1>0, <1>d
  <2> QED
    BY <1>1, <2>2, <2>3, <2>4, <2>5 DEF Rests
<1>2. CASE Redials
  BY <1>2, <1>0, <1>a, <1>b, <1>c, <1>d DEF Redials, Dials
<1>3. CASE Connects
  BY <1>3, <1>0, <1>a, <1>b, <1>c, <1>d DEF Connects, Dials
<1>4. CASE Fills
  BY <1>4, <1>0, <1>a, <1>b, <1>c, <1>d DEF Fills
<1>5. CASE PassesOver
  BY <1>5, <1>0, <1>a, <1>b, <1>c, <1>d DEF PassesOver
<1>6. CASE Sends
  <2>1. UNCHANGED <<state, logonSent, ses, clock, now, spent>> /\ pc = "burst" /\ pc' = "end" /\ Calm
    BY <1>6 DEF Sends
  <2> QED
    BY <2>1, <1>0, <1>b, <1>d, CalmMeans
<1>7. CASE HangsUp
  BY <1>7, <1>0, <1>a, <1>b, <1>c, <1>d DEF HangsUp, Hangs
<1>8. CASE EndsRound
  BY <1>8, <1>0, <1>a, <1>b, <1>c, <1>d DEF EndsRound
<1>9. CASE Judged /\ CarriesOn
  <2>1. /\ UNCHANGED <<clock, now, logonSent>> /\ pc = "burst" /\ pc' = "burst"
        /\ ses'.lastRecv = (IF Coming.kind = "Reset" THEN ses.lastRecv ELSE clock)
        /\ Coming.kind # "Logon" => ses'.interval = ses.interval /\ state' = state
        /\ ses'.interval \in Nat
    BY <1>9 DEF Judged, CarriesOn, Session
  <2>2. Coming.kind = "Logon" =>
          /\ state' = "LoggedOn" /\ ses'.interval # 0
          /\ ses'.interval \in {0, Heartbeat} \cup (Offers \ {Unset})
    <3>1. buffer # <<>> /\ buffer \in Seq(Good)
      BY <1>9 DEF Judged, TypeInv, LinkInv
    <3>2. Coming \in Good
      BY <3>1, SeqFacts DEF Coming
    <3>3. Coming.kind = "Logon" => Coming.arg \in Offers \cup {Unset}
      BY <3>2 DEF Good
    <3>4. ses.interval \in {0, Heartbeat} \cup (Offers \ {Unset})
      BY <1>9, <1>a DEF Judged
    <3> QED
      BY <1>9, <3>3, <3>4 DEF Judged, CarriesOn
  <2>3. CASE Coming.kind = "Logon"
    BY <2>1, <2>2, <2>3, <1>0, <1>b, <1>d
  <2>4. CASE Coming.kind = "Reset"
    BY <2>1, <2>4, <1>0, <1>d
  <2>5. CASE Coming.kind \notin {"Logon", "Reset"}
    BY <2>1, <2>5, <1>0, <1>b, <1>d
  <2> QED
    BY <2>3, <2>4, <2>5
<1>10. CASE Judged /\ EndsWithIt
  BY <1>10, <1>0, <1>a, <1>b, <1>c, <1>d DEF Judged, EndsWithIt, Hangs
<1>11. CASE VenueMoves
  BY <1>11, <1>0, <1>a, <1>b, <1>c, <1>d DEF VenueMoves
<1>12. CASE Stays
  BY <1>12, <1>0, <1>a, <1>b, <1>c, <1>d DEF Stays
<1> QED
  BY <1>1, <1>2, <1>3, <1>4, <1>5, <1>6, <1>7, <1>8, <1>9, <1>10, <1>11, <1>12 DEF Step

(* A read moves nothing in the stream.                                     *)
LEMMA FillKeepsStream ==
  ASSUME buffer \in Seq(Good), inbox \in Seq(Good), Fills
  PROVE  /\ Flying' = Flying
         /\ \A j \in Flying : Nth(j)' = Nth(j)
<1>1. buffer' = buffer \o inbox /\ inbox' = <<>>
  BY DEF Fills
<1>2. /\ Len(buffer) \in Nat /\ Len(inbox) \in Nat /\ Len(inbox') = 0
      /\ Len(buffer') = Len(buffer) + Len(inbox)
      /\ \A i \in 1 .. Len(buffer) + Len(inbox) :
           buffer'[i] = (IF i <= Len(buffer) THEN buffer[i] ELSE inbox[i - Len(buffer)])
  BY <1>1, SeqFacts
<1> QED
  BY <1>2 DEF Flying, Nth

(* A message taken moves the stream up by one.                             *)
LEMMA TailMovesStream ==
  ASSUME buffer \in Seq(Good), inbox \in Seq(Good), buffer # <<>>,
         buffer' = Tail(buffer), inbox' = inbox
  PROVE  /\ 1 \in Flying /\ Nth(1) = Coming
         /\ Len(buffer) + Len(inbox) \in Nat
         /\ \A j \in Flying' : j + 1 \in Flying /\ Nth(j)' = Nth(j + 1) /\ j \in Nat /\ j >= 1
<1>1. /\ Len(buffer) \in Nat /\ Len(inbox) \in Nat /\ Len(buffer') = Len(buffer) - 1
      /\ Len(buffer) >= 1 /\ Len(inbox') = Len(inbox) /\ Coming = buffer[1]
      /\ \A i \in 1 .. Len(buffer) - 1 : buffer'[i] = buffer[i + 1]
  BY SeqFacts DEF Coming
<1>2. 1 \in Flying /\ Nth(1) = Coming /\ Len(buffer) + Len(inbox) \in Nat
  BY <1>1 DEF Flying, Nth
<1>3. ASSUME NEW j \in Flying'
      PROVE  j + 1 \in Flying /\ Nth(j)' = Nth(j + 1) /\ j \in Nat /\ j >= 1
  <2>1. j \in 1 .. (Len(buffer) - 1) + Len(inbox) /\ j \in Nat
    BY <1>1, <1>3 DEF Flying
  <2>2. j + 1 \in Flying /\ j >= 1
    BY <1>1, <2>1 DEF Flying
  <2>3. CASE j <= Len(buffer) - 1
    <3>1. j \in 1 .. Len(buffer) - 1 /\ j <= Len(buffer') /\ j + 1 <= Len(buffer)
      BY <1>1, <2>1, <2>3
    <3>2. Nth(j)' = buffer'[j] /\ Nth(j + 1) = buffer[j + 1]
      BY <3>1 DEF Nth
    <3> QED
      BY <1>1, <2>1, <2>2, <3>1, <3>2
  <2>4. CASE j > Len(buffer) - 1
    <3>1. /\ j - Len(buffer') = (j + 1) - Len(buffer)
          /\ ~(j <= Len(buffer')) /\ ~(j + 1 <= Len(buffer))
      BY <1>1, <2>1, <2>4
    <3>2. Nth(j)' = inbox'[j - Len(buffer')] /\ Nth(j + 1) = inbox[(j + 1) - Len(buffer)]
      BY <3>1 DEF Nth
    <3> QED
      BY <2>1, <2>2, <3>1, <3>2
  <2> QED
    BY <2>1, <2>2, <2>3, <2>4
<1> QED
  BY <1>2, <1>3

(* What arrives is behind the rest of the stream.                          *)
LEMMA ArrivalsFollow ==
  ASSUME buffer \in Seq(Good), inbox \in Seq(Good), buffer' = buffer,
         NEW q \in Seq(Good), Arrives(q)
  PROVE  /\ Flying \subseteq Nat
         /\ \A j \in Flying' :
              \/ j \in Flying /\ Nth(j)' = Nth(j)
              \/ /\ j \notin Flying /\ j \in Nat /\ Nth(j)' \in Good
                 /\ Nth(j)'.seq < vNext'
                 /\ Nth(j)'.kind = "Reset" =>
                      /\ Nth(j)'.seq = vNext
                      /\ \A i \in 1 .. j - 1 : i \in Flying /\ Nth(i)' = Nth(i)
<1> DEFINE b == Len(buffer)
           n == Len(inbox)
<1>1. /\ b \in Nat /\ n \in Nat /\ Len(q) \in Nat /\ Len(inbox') = n + Len(q)
      /\ \A i \in 1 .. n + Len(q) : inbox'[i] = (IF i <= n THEN inbox[i] ELSE q[i - n])
      /\ \A i \in 1 .. Len(q) : q[i] \in Good
  BY SeqFacts DEF Arrives
<1>2. Flying = 1 .. b + n /\ Flying' = 1 .. b + n + Len(q)
  BY <1>1 DEF Flying
<1>3. \A j \in Flying : Nth(j)' = Nth(j)
  BY <1>1, <1>2, SMTT(30) DEF Nth
<1>4. \A j \in Flying' \ Flying :
        j - (b + n) \in 1 .. Len(q) /\ Nth(j)' = q[j - (b + n)] /\ j \in Nat
  <2> SUFFICES ASSUME NEW j \in Flying' \ Flying
               PROVE  j - (b + n) \in 1 .. Len(q) /\ Nth(j)' = q[j - (b + n)] /\ j \in Nat
    OBVIOUS
  <2>1. j \in Nat /\ j > b + n /\ j <= b + n + Len(q)
    BY <1>1, <1>2
  <2>2. j - b \in 1 .. n + Len(q) /\ ~(j <= b) /\ ~(j - b <= n) /\ (j - b) - n = j - (b + n)
    BY <1>1, <2>1
  <2>3. Nth(j)' = inbox'[j - b]
    BY <2>2 DEF Nth
  <2>4. inbox'[j - b] = q[(j - b) - n]
    BY <1>1, <2>2
  <2>5. j - (b + n) \in 1 .. Len(q)
    BY <1>1, <2>1
  <2> QED
    BY <2>1, <2>2, <2>3, <2>4, <2>5
<1>5. \A j \in Flying' \ Flying :
        Nth(j)'.kind = "Reset" => \A i \in 1 .. j - 1 : i \in Flying
  <2> SUFFICES ASSUME NEW j \in Flying' \ Flying, Nth(j)'.kind = "Reset", NEW i \in 1 .. j - 1
               PROVE  i \in Flying
    OBVIOUS
  <2>1. j - (b + n) = 1
    BY <1>4 DEF Arrives
  <2> QED
    BY <1>1, <1>2, <1>4, <2>1
<1> HIDE DEF b, n
<1>6. ASSUME NEW j \in Flying'
      PROVE  \/ j \in Flying /\ Nth(j)' = Nth(j)
             \/ /\ j \notin Flying /\ j \in Nat /\ Nth(j)' \in Good
                /\ Nth(j)'.seq < vNext'
                /\ Nth(j)'.kind = "Reset" =>
                     /\ Nth(j)'.seq = vNext
                     /\ \A i \in 1 .. j - 1 : i \in Flying /\ Nth(i)' = Nth(i)
  <2>1. CASE j \in Flying
    BY <1>3, <2>1
  <2>2. CASE j \notin Flying
    <3>1. PICK i \in 1 .. Len(q) : Nth(j)' = q[i]
      BY <1>4, <2>2
    <3>2. Nth(j)' \in Good /\ Nth(j)'.seq < vNext' /\ (Nth(j)'.kind = "Reset" => Nth(j)'.seq = vNext)
      BY <1>1, <3>1 DEF Arrives
    <3> QED
      BY <1>3, <1>4, <1>5, <2>2, <3>2
  <2> QED
    BY <2>1, <2>2
<1>7. Flying \subseteq Nat
  BY <1>1, <1>2
<1> QED
  BY <1>6, <1>7

(* All that is under way is what a venue sends.                            *)
LEMMA NthGood ==
  ASSUME buffer \in Seq(Good), inbox \in Seq(Good)
  PROVE  \A j \in Flying : Nth(j) \in Good /\ Nth(j).seq \in Nat /\ j \in Nat
<1>1. /\ Len(buffer) \in Nat /\ Len(inbox) \in Nat
      /\ \A i \in 1 .. Len(buffer) : buffer[i] \in Good
      /\ \A i \in 1 .. Len(inbox) : inbox[i] \in Good
  BY SeqFacts
<1>2. ASSUME NEW j \in Flying
      PROVE  Nth(j) \in Good /\ j \in Nat
  <2>1. j \in Nat /\ j >= 1 /\ j <= Len(buffer) + Len(inbox)
    BY <1>1 DEF Flying
  <2>2. CASE j <= Len(buffer)
    BY <1>1, <2>1, <2>2 DEF Nth
  <2>3. CASE ~(j <= Len(buffer))
    <3>1. j - Len(buffer) \in 1 .. Len(inbox)
      BY <1>1, <2>1, <2>3
    <3> QED
      BY <1>1, <2>1, <2>3, <3>1 DEF Nth
  <2> QED
    BY <2>2, <2>3
<1> QED
  BY <1>2, GoodTypes

\* The stream with a message taken from its head: what is left is as it was.
TailKept ==
  /\ state # "Disconnected" /\ vNext' = vNext
  /\ buffer # <<>> /\ buffer' = Tail(buffer) /\ inbox' = inbox
  /\ ses'.nextExpected \in {ses.nextExpected, Coming.seq + 1}

(* Taking a message keeps the stream in order.                             *)
LEMMA TailKeepsStream ==
  ASSUME TypeInv, StreamInv, TailKept
  PROVE  /\ ses'.nextExpected <= vNext'
         /\ \A j \in Flying' : Nth(j)'.seq < vNext'
         /\ \A j \in Flying' :
              Nth(j)'.kind = "Reset" =>
                /\ ses'.nextExpected <= Nth(j)'.seq
                /\ \A i \in 1 .. j - 1 : Nth(i)'.seq < Nth(j)'.seq
<1>1. buffer \in Seq(Good) /\ inbox \in Seq(Good) /\ ses.nextExpected \in Nat /\ vNext \in Nat
  BY DEF TypeInv, LinkInv, SessionOK, VenueOK, Session
<1>2. /\ 1 \in Flying /\ Nth(1) = Coming /\ Len(buffer) + Len(inbox) \in Nat
      /\ \A j \in Flying' : j + 1 \in Flying /\ Nth(j)' = Nth(j + 1) /\ j \in Nat /\ j >= 1
  BY <1>1, TailMovesStream DEF TailKept
<1>3. \A j \in Flying : Nth(j).seq \in Nat
  BY <1>1, NthGood
<1>4. /\ ses.nextExpected <= vNext /\ vNext' = vNext
      /\ \A j \in Flying : Nth(j).seq < vNext
      /\ \A j \in Flying :
           Nth(j).kind = "Reset" =>
             /\ ses.nextExpected <= Nth(j).seq
             /\ \A i \in 1 .. j - 1 : Nth(i).seq < Nth(j).seq
  BY DEF StreamInv, TailKept
<1>5. ses'.nextExpected <= vNext'
  BY <1>1, <1>2, <1>3, <1>4 DEF TailKept
<1>6. \A j \in Flying' : Nth(j)'.seq < vNext'
  BY <1>2, <1>4
<1>7. ASSUME NEW j \in Flying', Nth(j)'.kind = "Reset"
      PROVE  ses'.nextExpected <= Nth(j)'.seq
  <2>1. j + 1 \in Flying /\ Nth(j)' = Nth(j + 1) /\ 1 \in 1 .. (j + 1) - 1
    BY <1>2, <1>7
  <2>2. ses.nextExpected <= Nth(j + 1).seq /\ Nth(1).seq < Nth(j + 1).seq
    BY <1>4, <1>7, <2>1
  <2> QED
    BY <1>1, <1>2, <1>3, <2>1, <2>2 DEF TailKept
<1>8. ASSUME NEW j \in Flying', Nth(j)'.kind = "Reset", NEW i \in 1 .. j - 1
      PROVE  Nth(i)'.seq < Nth(j)'.seq
  <2>1. j + 1 \in Flying /\ Nth(j)' = Nth(j + 1)
    BY <1>2, <1>8
  <2>2. i \in Flying' /\ i + 1 \in 1 .. (j + 1) - 1
    BY <1>2, <1>8 DEF Flying
  <2>3. Nth(i)' = Nth(i + 1)
    BY <1>2, <2>2
  <2> QED
    BY <1>4, <1>8, <2>1, <2>2, <2>3
<1> QED
  BY <1>5, <1>6, <1>7, <1>8

(* A request added, and requests that stay, are in the sequence.           *)
LEMMA AppendFacts ==
  ASSUME outbox \in Seq(GoodRequest), NEW r
  PROVE  \A i \in 1 .. Len(Append(outbox, r)) :
           \/ i \in 1 .. Len(outbox) /\ Append(outbox, r)[i] = outbox[i]
           \/ Append(outbox, r)[i] = r
OBVIOUS

(* The requests have numbers, those after the first too.                   *)
LEMMA RequestFacts ==
  ASSUME outbox \in Seq(GoodRequest)
  PROVE  /\ \A i \in 1 .. Len(outbox) : outbox[i].to \in Nat
         /\ outbox # <<>> => \A i \in 1 .. Len(Tail(outbox)) :
                              i + 1 \in 1 .. Len(outbox) /\ Tail(outbox)[i] = outbox[i + 1]
<1>1. \A i \in 1 .. Len(outbox) : outbox[i] \in GoodRequest
  BY SeqFacts
<1>2. \A i \in 1 .. Len(outbox) : outbox[i].to \in Nat
  BY <1>1 DEF GoodRequest, Request
<1> QED
  BY <1>2, SeqFacts

(* The stream stays in order.                                              *)
LEMMA StreamStep ==
  ASSUME TypeInv, StreamInv, Step
  PROVE  StreamInv'
<1>0. /\ buffer \in Seq(Good) /\ inbox \in Seq(Good) /\ outbox \in Seq(GoodRequest)
      /\ ses.nextExpected \in Nat /\ vNext \in Nat /\ vNext >= 1
  BY DEF TypeInv, LinkInv, SessionOK, VenueOK, Session
<1>1. CASE Rests
  <2>1. state' = state /\ ses' = ses /\ vNext' = vNext /\ buffer' = buffer /\ inbox' = inbox
        /\ outbox' = outbox
    BY <1>1 DEF Rests
  <2> QED
    BY <2>1 DEF StreamInv, Flying, Nth
<1>2. CASE Redials
  <2>1. state' = "Disconnected"
    BY <1>2 DEF Redials, Dials
  <2> QED
    BY <2>1 DEF StreamInv
<1>3. CASE Connects
  <2>1. /\ ses'.nextExpected = 1 /\ vNext' \in Nat \ {0} /\ Len(outbox') = 1 /\ outbox'[1].to = 0
        /\ buffer' = <<>> /\ inbox' = <<>>
    BY <1>3, VenueAssumption DEF Connects, Dials, NewSession, TypeInv, EmptyInv
  <2>2. Flying' = {}
    BY <2>1 DEF Flying
  <2>3. \A i \in 1 .. Len(outbox') : outbox'[i].to < vNext'
    BY <2>1
  <2> QED
    BY <2>1, <2>2, <2>3 DEF StreamInv
<1>4. CASE Fills
  <2>1. /\ Flying' = Flying /\ \A j \in Flying : Nth(j)' = Nth(j)
    BY <1>4, <1>0, FillKeepsStream
  <2>2. state' = state /\ ses' = ses /\ vNext' = vNext /\ outbox' = outbox
    BY <1>4 DEF Fills
  <2>3. \A j \in Flying : \A i \in 1 .. j - 1 : i \in Flying
    BY <1>0, SeqFacts DEF Flying
  <2> QED
    BY <2>1, <2>2, <2>3 DEF StreamInv
<1>5. CASE PassesOver
  <2>1. state # "Disconnected"
    BY <1>5 DEF PassesOver, TypeInv, LinkInv
  <2>2. TailKept /\ outbox' = outbox /\ vNext' = vNext
    BY <1>5, <2>1 DEF PassesOver, TailKept
  <2> QED
    BY <2>1, <2>2, TailKeepsStream DEF StreamInv
<1>6. CASE Sends
  <2>1. state' = state /\ ses' = ses /\ vNext' = vNext /\ buffer' = buffer /\ inbox' = inbox
    BY <1>6 DEF Sends
  <2>2. state # "Disconnected" => \A i \in 1 .. Len(outbox') : outbox'[i].to < vNext'
    <3>1. CASE outbox' = outbox
      BY <2>1, <3>1 DEF StreamInv
    <3>2. CASE outbox' = Append(outbox, [kind |-> "TestRequest", from |-> 0, to |-> 0])
      BY <2>1, <3>2, <1>0, AppendFacts DEF StreamInv
    <3> QED
      BY <1>6, <3>1, <3>2 DEF Sends
  <2> QED
    BY <2>1, <2>2 DEF StreamInv, Flying, Nth
<1>7. CASE HangsUp
  <2>1. state' = "Disconnected"
    BY <1>7 DEF HangsUp, Hangs
  <2> QED
    BY <2>1 DEF StreamInv
<1>8. CASE EndsRound
  <2>1. /\ state' = state /\ ses' = ses /\ buffer' = buffer /\ inbox' = inbox /\ outbox' = outbox
        /\ state # "Disconnected" => vNext' = vNext
    BY <1>8 DEF EndsRound
  <2> QED
    BY <2>1 DEF StreamInv, Flying, Nth
<1>9. CASE Judged /\ CarriesOn
  <2>1. /\ state # "Disconnected" /\ buffer # <<>> /\ buffer' = Tail(buffer) /\ inbox' = inbox
        /\ vNext' = vNext /\ ses'.nextExpected = Passed
    BY <1>9 DEF Judged, CarriesOn, TypeInv, LinkInv
  <2>2. Coming \in Good /\ Coming.seq \in Nat
    BY <1>0, <2>1, SeqFacts, GoodTypes DEF Coming
  <2>3. Coming.kind \in {"GapFill", "Reset"} => Coming.arg = Coming.seq + 1
    BY <2>2 DEF Good
  <2>4. TailKept
    BY <2>1, <2>3 DEF TailKept, Passed
  <2>5. \A i \in 1 .. Len(outbox') : outbox'[i].to < vNext'
    <3>1. CASE outbox' = outbox
      BY <2>1, <3>1 DEF StreamInv
    <3>2. CASE outbox' = Append(outbox, HoleRequest)
      <4>1. 1 \in Flying /\ Nth(1) = Coming
        BY <1>0, <2>1, TailMovesStream
      <4>2. Coming.seq < vNext
        BY <2>1, <4>1 DEF StreamInv
      <4>3. HoleRequest.to < vNext
        BY <1>0, <2>2, <4>2 DEF HoleRequest
      <4> QED
        BY <2>1, <3>2, <4>3, <1>0, AppendFacts DEF StreamInv
    <3> QED
      BY <1>9, <3>1, <3>2 DEF CarriesOn
  <2> QED
    BY <2>4, <2>5, TailKeepsStream DEF StreamInv
<1>10. CASE Judged /\ EndsWithIt
  <2>1. state' = "Disconnected"
    BY <1>10 DEF EndsWithIt, Hangs
  <2> QED
    BY <2>1 DEF StreamInv
<1>11. CASE VenueMoves
  <2>1. PICK q \in Seq(Good) : Arrives(q)
    BY <1>11 DEF VenueMoves
  <2>2. /\ state # "Disconnected" /\ ses' = ses /\ buffer' = buffer /\ vNext' \in {vNext, vNext + 1}
        /\ vNext <= vNext' /\ vNext' \in Nat
    BY <1>11, <1>0 DEF VenueMoves
  <2>3. /\ ses.nextExpected <= vNext
        /\ \A i \in 1 .. Len(outbox) : outbox[i].to < vNext
        /\ \A j \in Flying : Nth(j).seq < vNext
        /\ \A j \in Flying :
             Nth(j).kind = "Reset" =>
               /\ ses.nextExpected <= Nth(j).seq
               /\ \A i \in 1 .. j - 1 : Nth(i).seq < Nth(j).seq
    BY <2>2 DEF StreamInv
  <2>4. \A i \in 1 .. Len(outbox') : outbox'[i].to < vNext'
    <3>1. CASE outbox' = outbox
      BY <1>0, <2>2, <2>3, <3>1, RequestFacts
    <3>2. CASE outbox # <<>> /\ outbox' = Tail(outbox)
      BY <1>0, <2>2, <2>3, <3>2, RequestFacts
    <3> QED
      BY <1>11, <3>1, <3>2 DEF VenueMoves
  <2>5. \A j \in Flying : Nth(j).seq \in Nat /\ j \in Nat
    BY <1>0, NthGood
  <2>6. \A j \in Flying' :
              \/ j \in Flying /\ Nth(j)' = Nth(j)
              \/ /\ j \notin Flying /\ j \in Nat /\ Nth(j)' \in Good
                 /\ Nth(j)'.seq < vNext'
                 /\ Nth(j)'.kind = "Reset" =>
                      /\ Nth(j)'.seq = vNext
                      /\ \A i \in 1 .. j - 1 : i \in Flying /\ Nth(i)' = Nth(i)
    BY <1>0, <2>1, <2>2, ArrivalsFollow
  <2>7. \A j \in Flying' : Nth(j)'.seq < vNext'
    BY <1>0, <2>2, <2>3, <2>5, <2>6
  <2>8. ASSUME NEW j \in Flying', Nth(j)'.kind = "Reset"
        PROVE  /\ ses'.nextExpected <= Nth(j)'.seq
               /\ \A i \in 1 .. j - 1 : Nth(i)'.seq < Nth(j)'.seq
    <3>1. CASE j \in Flying /\ Nth(j)' = Nth(j)
      <4>1. \A i \in 1 .. j - 1 : i \in Flying /\ i \in Flying'
        BY <1>0, <2>8, <3>1, SeqFacts DEF Flying
      <4>2. \A i \in 1 .. j - 1 : Nth(i)' = Nth(i)
        BY <2>6, <4>1
      <4> QED
        BY <2>2, <2>3, <2>8, <3>1, <4>2
    <3>2. CASE j \notin Flying
      BY <2>2, <2>3, <2>6, <2>8, <3>2
    <3> QED
      BY <2>6, <3>1, <3>2
  <2>9. ses'.nextExpected <= vNext'
    BY <1>0, <2>2, <2>3
  <2> QED
    BY <2>4, <2>7, <2>8, <2>9 DEF StreamInv
<1>12. CASE Stays
  <2>1. state' = state /\ ses' = ses /\ vNext' = vNext /\ buffer' = buffer /\ inbox' = inbox
        /\ outbox' = outbox
    BY <1>12 DEF Stays
  <2> QED
    BY <2>1 DEF StreamInv, Flying, Nth
<1> QED
  BY <1>1, <1>2, <1>3, <1>4, <1>5, <1>6, <1>7, <1>8, <1>9, <1>10, <1>11, <1>12 DEF Step

(* A message judged, with no gap fill about: what it passes is judged or   *)
(* asked for, and what is published is ahead of all before it.             *)
LEMMA JudgedAsks ==
  ASSUME TypeInv, StreamInv, AskInv, PubInv, Judged, CarriesOn
  PROVE  AskInv' /\ PubInv'
<1> SUFFICES ASSUME ~GapFills PROVE AskInv' /\ PubInv'
  BY DEF AskInv, PubInv
<1>1. /\ state # "Disconnected" /\ buffer # <<>> /\ buffer \in Seq(Good) /\ inbox \in Seq(Good)
      /\ ses.nextExpected \in Nat /\ asked \in [Numbers -> Nat] /\ lastPub \in Nat
      /\ ses'.nextExpected = Passed /\ buffer' = Tail(buffer) /\ inbox' = inbox
  BY DEF TypeInv, LinkInv, SessionOK, Session, VenueOK, Judged, CarriesOn
<1>2. Coming \in Good /\ Coming.seq \in Nat /\ Coming.seq \in Numbers
  BY <1>1, SeqFacts, GoodTypes DEF Coming
<1>3. Coming.kind # "GapFill" /\ (Coming.kind = "Reset" => Coming.arg = Coming.seq + 1)
  BY <1>2 DEF Good
<1>4. Coming.kind = "Reset" => ses.nextExpected <= Coming.seq
  <2>1. 1 \in Flying /\ Nth(1) = Coming
    BY <1>1, TailMovesStream
  <2> QED
    BY <1>1, <2>1 DEF StreamInv
<1>5. /\ Passed \in Nat /\ ses.nextExpected <= Passed
      /\ Coming.seq >= ses.nextExpected => Passed = Coming.seq + 1
      /\ Coming.seq < ses.nextExpected => Passed = ses.nextExpected
  BY <1>1, <1>2, <1>3, <1>4 DEF Passed
<1>6. \A n \in Numbers : n \in Nat /\ n >= 1
  BY Constants DEF Numbers
<1>7. /\ \A n \in Numbers : asked[n] <= 1 /\ asked[n] \in Nat
      /\ \A n \in Numbers : n < ses.nextExpected => n \in seen \/ asked[n] = 1
      /\ \A n \in Numbers : n >= ses.nextExpected => asked[n] = 0
  BY <1>1 DEF AskInv
<1>8. PubInv'
  <2>1. lastPub < ses.nextExpected
    BY <1>1 DEF PubInv
  <2>2. lastPub' = lastPub \/ (lastPub' = Coming.seq /\ Coming.seq >= ses.nextExpected)
    BY DEF Judged
  <2> QED
    BY <1>1, <1>2, <1>5, <2>1, <2>2 DEF PubInv
<1>9. seen \subseteq seen' /\ (Coming.kind # "Reset" => Coming.seq \in seen')
  BY DEF Judged
<1>10. CASE Hole /\ asked' = [n \in Numbers |->
                       asked[n] + IF n \in ses.nextExpected .. Coming.seq - 1 THEN 1 ELSE 0]
  <2>1. Coming.seq > ses.nextExpected /\ Coming.seq \in seen' /\ Passed = Coming.seq + 1
    BY <1>1, <1>2, <1>5, <1>9, <1>10 DEF Hole
  <2>2. ASSUME NEW n \in Numbers
        PROVE  /\ asked'[n] <= 1
               /\ n < Passed => n \in seen' \/ asked'[n] = 1
               /\ n >= Passed => asked'[n] = 0
    <3>1. CASE n < ses.nextExpected
      <4>1. asked'[n] = asked[n]
        BY <1>1, <1>2, <1>6, <1>7, <1>10, <3>1
      <4> QED
        BY <1>1, <1>5, <1>6, <1>7, <1>9, <3>1, <4>1
    <3>2. CASE n >= ses.nextExpected /\ n <= Coming.seq - 1
      <4>1. asked'[n] = 1
        BY <1>1, <1>2, <1>6, <1>7, <1>10, <3>2
      <4> QED
        BY <1>2, <1>6, <2>1, <3>2, <4>1
    <3>3. CASE n >= Coming.seq
      <4>1. asked'[n] = 0
        BY <1>1, <1>2, <1>6, <1>7, <1>10, <2>1, <3>3
      <4>2. n < Passed => n = Coming.seq
        BY <1>2, <1>6, <2>1, <3>3
      <4> QED
        BY <2>1, <4>1, <4>2
    <3> QED
      BY <1>1, <1>2, <1>6, <3>1, <3>2, <3>3
  <2> QED
    BY <1>1, <1>8, <2>2 DEF AskInv
<1>11. CASE ~Hole /\ asked' = asked
  <2>1. ASSUME NEW n \in Numbers
        PROVE  /\ n < Passed => n \in seen' \/ asked'[n] = 1
               /\ n >= Passed => asked'[n] = 0
    <3>1. CASE n < ses.nextExpected
      BY <1>1, <1>5, <1>6, <1>7, <1>9, <1>11, <3>1
    <3>2. CASE n >= ses.nextExpected
      <4>1. asked'[n] = 0
        BY <1>7, <1>11, <3>2
      <4>2. ASSUME n < Passed PROVE n \in seen'
        <5>1. n <= Coming.seq
          BY <1>1, <1>2, <1>5, <1>6, <3>2, <4>2
        <5>2. CASE Coming.kind = "Reset"
          <6>1. seen' = seen \cup (Numbers \cap (1 .. Coming.arg - 1))
            BY <5>2 DEF Judged
          <6> QED
            BY <1>2, <1>3, <1>6, <5>1, <5>2, <6>1
        <5>3. CASE Coming.kind # "Reset"
          <6>1. n = Coming.seq
            BY <1>1, <1>2, <1>6, <1>11, <3>2, <5>1, <5>3 DEF Hole
          <6> QED
            BY <1>9, <5>3, <6>1
        <5> QED
          BY <5>2, <5>3
      <4> QED
        BY <4>1, <4>2
    <3> QED
      BY <1>1, <1>6, <3>1, <3>2
  <2> QED
    BY <1>1, <1>7, <1>8, <1>11, <2>1 DEF AskInv
<1> QED
  BY <1>10, <1>11 DEF CarriesOn

(* Holes are asked for once, and what is published goes forward.           *)
LEMMA AskStep ==
  ASSUME TypeInv, StreamInv, AskInv, PubInv, Step
  PROVE  AskInv' /\ PubInv'
<1>1. CASE Rests
  <2>1. state' = state /\ ses' = ses /\ seen' = seen /\ asked' = asked /\ lastPub' = lastPub
    BY <1>1 DEF Rests
  <2> QED
    BY <2>1 DEF AskInv, PubInv
<1>2. CASE Redials
  <2>1. state' = "Disconnected" /\ asked' = asked
    BY <1>2 DEF Redials, Dials
  <2> QED
    BY <2>1 DEF AskInv, PubInv
<1>3. CASE Connects
  <2>1. /\ asked' = [n \in Numbers |-> 0] /\ lastPub' = 0 /\ ses'.nextExpected = 1
    BY <1>3 DEF Connects, Dials, NewSession
  <2>2. \A n \in Numbers : n >= 1 /\ n \in Nat
    BY Constants DEF Numbers
  <2> QED
    BY <2>1, <2>2 DEF AskInv, PubInv
<1>4. CASE Fills
  <2>1. state' = state /\ ses' = ses /\ seen' = seen /\ asked' = asked /\ lastPub' = lastPub
    BY <1>4 DEF Fills
  <2> QED
    BY <2>1 DEF AskInv, PubInv
<1>5. CASE PassesOver
  <2>1. state' = state /\ ses' = ses /\ seen' = seen /\ asked' = asked /\ lastPub' = lastPub
    BY <1>5 DEF PassesOver
  <2> QED
    BY <2>1 DEF AskInv, PubInv
<1>6. CASE Sends
  <2>1. state' = state /\ ses' = ses /\ seen' = seen /\ asked' = asked /\ lastPub' = lastPub
    BY <1>6 DEF Sends
  <2> QED
    BY <2>1 DEF AskInv, PubInv
<1>7. CASE HangsUp
  <2>1. state' = "Disconnected" /\ asked' = asked
    BY <1>7 DEF HangsUp, Hangs
  <2> QED
    BY <2>1 DEF AskInv, PubInv
<1>8. CASE EndsRound
  <2>1. state' = state /\ ses' = ses
    BY <1>8 DEF EndsRound
  <2>2. CASE state = "Disconnected" /\ asked' = [n \in Numbers |-> 0]
    BY <2>1, <2>2 DEF AskInv, PubInv
  <2>3. CASE UNCHANGED <<seen, asked, lastPub>>
    BY <2>1, <2>3 DEF AskInv, PubInv
  <2> QED
    BY <1>8, <2>2, <2>3 DEF EndsRound
<1>9. CASE Judged /\ CarriesOn
  BY <1>9, JudgedAsks
<1>10. CASE Judged /\ EndsWithIt
  <2>1. state' = "Disconnected" /\ asked' = asked
    BY <1>10 DEF EndsWithIt, Hangs
  <2> QED
    BY <2>1 DEF AskInv, PubInv
<1>11. CASE VenueMoves
  <2>1. state' = state /\ ses' = ses /\ seen' = seen /\ asked' = asked /\ lastPub' = lastPub
    BY <1>11 DEF VenueMoves
  <2> QED
    BY <2>1 DEF AskInv, PubInv
<1>12. CASE Stays
  <2>1. state' = state /\ ses' = ses /\ seen' = seen /\ asked' = asked /\ lastPub' = lastPub
    BY <1>12 DEF Stays
  <2> QED
    BY <2>1 DEF AskInv, PubInv
<1> QED
  BY <1>1, <1>2, <1>3, <1>4, <1>5, <1>6, <1>7, <1>8, <1>9, <1>10, <1>11, <1>12 DEF Step

-----------------------------------------------------------------------------
(***************************************************************************)
(* The theorems.                                                           *)
(***************************************************************************)
(* The invariant holds at the start.                                       *)
LEMMA InitInv ==
  ASSUME Init PROVE SafetyInv
<1>1. TypeInv
  <2>0. LoopOK /\ TimersOK
    BY Constants DEF Init, LoopOK, TimersOK
  <2>1. FlagsOK
    BY DEF Init, FlagsOK
  <2>2. SessionOK /\ VenueOK /\ EmptyInv
    BY DEF Init, SessionOK, VenueOK, EmptyInv, NewSession, NewEmitter, Session, Emitter
  <2>3. LinkInv
    BY DEF Init, LinkInv, NewSession
  <2> QED
    BY <2>0, <2>1, <2>2, <2>3 DEF TypeInv
<1>2. StreamInv /\ PubInv /\ WireInv /\ SubscribeInv
  BY DEF Init, StreamInv, PubInv, WireInv, SubscribeInv
<1>3. AskInv
  BY DEF Init, AskInv
<1>4. RoundInv /\ BeatInv /\ SilenceInv
  BY Constants DEF Init, RoundInv, BeatInv, SilenceInv, Overdue, Longer
<1> QED
  BY <1>1, <1>2, <1>3, <1>4 DEF SafetyInv

(* Every step keeps it.                                                    *)
LEMMA NextInv ==
  ASSUME SafetyInv, [Next]_vars PROVE SafetyInv'
<1>1. Step
  BY Steps DEF SafetyInv
<1>2. TypeInv'
  BY <1>1, LoopStep, FlagsStep, TimersStep, SessionStep, VenueStep, EmptyStep, LinkStep
     DEF SafetyInv, TypeInv
<1>3. StreamInv' /\ AskInv' /\ PubInv'
  BY <1>1, StreamStep, AskStep DEF SafetyInv
<1>4. WireInv' /\ SubscribeInv' /\ RoundInv' /\ BeatInv' /\ SilenceInv'
  BY <1>1, WireStep, SubscribeStep, RoundStep, BeatStep, SilenceStep DEF SafetyInv
<1> QED
  BY <1>2, <1>3, <1>4 DEF SafetyInv

(* The invariant of every behaviour.                                       *)
LEMMA Invariant == Spec => []SafetyInv
<1>1. Init => SafetyInv
  BY InitInv
<1>2. SafetyInv /\ [Next]_vars => SafetyInv'
  BY NextInv
<1> QED
  BY <1>1, <1>2, PTL DEF Spec

(* Every variable keeps its type, and nothing is left of a connection that *)
(* is down (receiver.rs drop_link).                                        *)
THEOREM TypeCorrect == Spec => []FixTypeOK
<1>1. SafetyInv => FixTypeOK
  <2> SUFFICES ASSUME SafetyInv PROVE FixTypeOK
    OBVIOUS
  <2>1. LoopOK /\ FlagsOK /\ TimersOK /\ SessionOK /\ VenueOK /\ EmptyInv
    BY DEF SafetyInv, TypeInv
  <2>2. inbox \in Seq(Message) /\ buffer \in Seq(Message) /\ outbox \in Seq(Request)
    BY GoodTypes DEF SafetyInv, TypeInv, LinkInv
  <2> QED
    BY <2>1, <2>2
    DEF FixTypeOK, LoopOK, FlagsOK, TimersOK, SessionOK, VenueOK, EmptyInv, Session, Emitter
<1> QED
  BY <1>1, Invariant, PTL

(* The liveness record goes on through outages, whatever the backoff and   *)
(* however long an attempt to connect blocks: its gap is the interval, the *)
(* rest and the longest round (receiver.rs poll_once and beat_record).     *)
THEOREM BeatsGoOn == Spec => []BeatsThroughOutages
<1>1. SafetyInv => BeatsThroughOutages
  <2> SUFFICES ASSUME SafetyInv, pc # "stopped"
               PROVE  clock - lastBeat < RecordBeat + RoundTime + Longer(DialTime, RoundTime)
    BY DEF BeatsThroughOutages
  <2>1. /\ clock \in Nat /\ lastBeat \in Nat /\ RecordBeat \in Nat /\ spent \in Nat
        /\ spent <= RoundTime /\ RoundTime \in Nat /\ DialTime \in Nat
        /\ pc \in {"poll", "read", "burst", "end", "rest", "stopped"}
    BY Constants DEF SafetyInv, TypeInv, LoopOK, TimersOK
  <2>2. Longer(DialTime, RoundTime) \in Nat /\ RoundTime <= Longer(DialTime, RoundTime)
    BY <2>1 DEF Longer
  <2> QED
    BY <2>1, <2>2 DEF SafetyInv, BeatInv
<1> QED
  BY <1>1, Invariant, PTL

(* Every session that reaches LoggedOn has its subscription put to the     *)
(* socket before its next read (fix.rs run).                               *)
THEOREM SubscribedAgain == Spec => []SubscribedOnLogon
<1>1. SafetyInv => SubscribedOnLogon
  BY DEF SafetyInv, SubscribeInv, SubscribedOnLogon
<1> QED
  BY <1>1, Invariant, PTL

(* A venue gone quiet is given up in bounded time, whatever interval its   *)
(* Logon named or left out (receiver.rs apply and tick).                   *)
THEOREM SilenceNoticed == Spec => []HalfOpenNoticed
<1>1. SafetyInv => HalfOpenNoticed
  <2> SUFFICES ASSUME SafetyInv PROVE HalfOpenNoticed
    OBVIOUS
  <2>1. /\ clock \in Nat /\ now \in Nat /\ logonSent \in Nat /\ LogonTimeout \in Nat
        /\ ses.lastRecv \in Nat /\ ses.interval \in Nat
        /\ spent \in Nat /\ spent <= RoundTime /\ RoundTime \in Nat
        /\ pc \in {"poll", "read", "burst", "end", "rest", "stopped"}
    BY Constants DEF SafetyInv, TypeInv, LoopOK, TimersOK, SessionOK, Session
  <2>2. pc \in {"read", "burst"} => clock <= now + spent
    BY <2>1 DEF SafetyInv, RoundInv
  <2>6. Longer(LogonTimeout, DialTime) \in Nat
    BY Constants DEF Longer
  <2>3. SilenceInv
    BY DEF SafetyInv
  <2>4. ASSUME state = "LoggingOn" PROVE clock - logonSent <= Longer(LogonTimeout, DialTime) + 2 * RoundTime
    BY <2>1, <2>2, <2>3, <2>4, <2>6 DEF SilenceInv, Overdue
  <2>5. ASSUME state = "LoggedOn"
        PROVE  \E i \in {Heartbeat} \cup (Offers \ {0, Unset}) :
                 clock - ses.lastRecv <= 2 * i + 2 * RoundTime
    <3>1. clock - ses.lastRecv <= 2 * ses.interval + 2 * RoundTime
      BY <2>1, <2>2, <2>3, <2>5 DEF SilenceInv, Overdue
    <3>2. ses.interval \in {Heartbeat} \cup (Offers \ {0, Unset})
      BY <2>3, <2>5 DEF SilenceInv
    <3> QED
      BY <3>1, <3>2
  <2> QED
    BY <2>4, <2>5 DEF HalfOpenNoticed
<1> QED
  BY <1>1, Invariant, PTL

(* Our numbers on every connection start at 1, go up and leave out only    *)
(* those of a 35=V that was not written (receiver.rs try_connect, write,   *)
(* tick and subscribe, emit.rs build).                                     *)
THEOREM OurNumbersFollow == Spec => OutboundInOrder
<1>1. ASSUME SafetyInv, [Next]_vars
      PROVE  [wire' # wire =>
                IF state = "Disconnected"
                THEN wire' = 1
                ELSE wire' > wire /\ wire + 1 .. wire' - 1 \subseteq unsent]_vars
  <2>1. Step
    BY <1>1, Steps DEF SafetyInv
  <2>2. /\ em.nextSeq \in Nat /\ wire \in Nat
        /\ state # "Disconnected" =>
             /\ wire < em.nextSeq
             /\ \A n \in Nat : wire < n /\ n < em.nextSeq => n \in unsent
    BY <1>1 DEF SafetyInv, WireInv, TypeInv, SessionOK, Emitter
  <2>3. pc = "burst" => state # "Disconnected"
    BY <1>1 DEF SafetyInv, TypeInv, LinkInv
  <2>4. \/ wire' = wire
        \/ wire' = 1 /\ state = "Disconnected"
        \/ wire' = em.nextSeq /\ state # "Disconnected"
    <3>1. CASE Judged /\ CarriesOn
      BY <2>3, <3>1 DEF Judged, CarriesOn
    <3>2. CASE Judged /\ EndsWithIt
      BY <2>3, <3>2 DEF Judged, EndsWithIt
    <3>3. CASE EndsRound
      BY <3>3 DEF EndsRound
    <3>4. CASE Sends
      BY <2>3, <3>4 DEF Sends
    <3>5. CASE Connects
      BY <3>5 DEF Connects, Dials
    <3>6. CASE Rests \/ Redials \/ Fills \/ PassesOver \/ HangsUp \/ VenueMoves \/ Stays
      BY <3>6 DEF Rests, Redials, Fills, PassesOver, HangsUp, VenueMoves, Stays
    <3> QED
      BY <2>1, <3>1, <3>2, <3>3, <3>4, <3>5, <3>6 DEF Step
  <2>5. ASSUME wire' = em.nextSeq, state # "Disconnected"
        PROVE  wire' > wire /\ wire + 1 .. wire' - 1 \subseteq unsent
    <3>1. \A n \in wire + 1 .. em.nextSeq - 1 : n \in Nat /\ wire < n /\ n < em.nextSeq
      BY <2>2
    <3> QED
      BY <2>2, <2>5, <3>1
  <2> QED
    BY <2>4, <2>5
<1> QED
  BY <1>1, Invariant, PTL DEF Spec, OutboundInOrder

(* No number below the expected one is missing without having been asked   *)
(* for, and none is asked for twice (pipeline.rs answer).  The venue must  *)
(* not fill gaps: a gap fill that is replayed lowers the expected number.  *)
THEOREM HolesOnce ==
  ASSUME ~GapFills
  PROVE  Spec => []HolesAskedOnce
<1>1. SafetyInv => HolesAskedOnce
  BY DEF SafetyInv, AskInv, HolesAskedOnce
<1> QED
  BY <1>1, Invariant, PTL

(* Market data goes to the ring in the order the venue numbered it, each   *)
(* message at most once in a session (session.rs observe, pipeline.rs      *)
(* market_data), for a venue that does not fill gaps.                      *)
THEOREM InOrderOnly ==
  ASSUME ~GapFills
  PROVE  Spec => PublishedInOrder
<1>1. ASSUME SafetyInv, [Next]_vars
      PROVE  [state # "Disconnected" /\ lastPub' # lastPub /\ lastPub' # 0 => lastPub' > lastPub]_vars
  <2>1. Step
    BY <1>1, Steps DEF SafetyInv
  <2>2. /\ state # "Disconnected" => lastPub < ses.nextExpected
        /\ lastPub \in Nat /\ ses.nextExpected \in Nat /\ buffer \in Seq(Good)
    BY <1>1 DEF SafetyInv, PubInv, TypeInv, VenueOK, SessionOK, Session, LinkInv
  <2>3. \/ lastPub' = lastPub
        \/ lastPub' = 0
        \/ buffer # <<>> /\ lastPub' = Coming.seq /\ Coming.seq >= ses.nextExpected
    <3>1. CASE Judged
      BY <3>1 DEF Judged
    <3>2. CASE EndsRound \/ Connects
      BY <3>2 DEF EndsRound, Connects
    <3>3. CASE Rests \/ Redials \/ Fills \/ PassesOver \/ Sends \/ HangsUp \/ VenueMoves \/ Stays
      BY <3>3 DEF Rests, Redials, Fills, PassesOver, Sends, HangsUp, VenueMoves, Stays
    <3> QED
      BY <2>1, <3>1, <3>2, <3>3 DEF Step
  <2>4. buffer # <<>> => Coming.seq \in Nat
    BY <2>2, SeqFacts, GoodTypes DEF Coming
  <2> QED
    BY <2>2, <2>3, <2>4
<1> QED
  BY <1>1, Invariant, PTL DEF Spec, PublishedInOrder
=============================================================================

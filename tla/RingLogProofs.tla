---------------------------- MODULE RingLogProofs ----------------------------
(***************************************************************************)
(* One run of the ring implements LossyLog: every store and load of Ring   *)
(* is a step of the log or changes nothing a reader of the log could see.  *)
(***************************************************************************)
EXTENDS RingProofs

-----------------------------------------------------------------------------
(* What the mapping needs beyond the sequence lock.                        *)

\* The stamps a record of this run can carry so far.
Stamps == {run} \X (0 .. nextSeq)

\* A consumer that knows the run learnt it from the header, and the header
\* never forgets: Restarted comes at most once in a run.
BootInv ==
  /\ run = 1
  /\ hdrBoot \in {0, run}
  /\ \A c \in Consumers :
       /\ cBoot[c] \in {0, run} /\ bootRead[c] \in {0, run}
       /\ cBoot[c] = run \/ bootRead[c] = run => hdrBoot = run
       /\ cpc[c] = "cursor" /\ cBoot[c] = run => bootRead[c] = run

\* A slot that has been committed once holds words of this run only, and so
\* does a copy taken from it: what is read at FillSeq may be mixed, but never
\* of the zero-filled section.
StampInv ==
  /\ \A s \in Nat : Committed(s) =>
       \A w \in Words : slotBody[Home(s)][w] \in Stamps
  /\ \A c \in Consumers : cpc[c] = "copy" =>
       \A w \in Words \ cTodo[c] : copied[c][w] \in Stamps

LogInv == BootInv /\ StampInv

(* A new section is mapped by run 1, which nobody knows of yet.            *)
LEMMA LogInvInit == Init => LogInv
BY DEF Init, LogInv, BootInv, StampInv, Committed

(* create stores this run's boot_id and touches no slot.                   *)
LEMMA LogInvCreate == TypeOK /\ LockInv /\ LogInv /\ Create => LogInv'
<1> SUFFICES ASSUME TypeOK, LockInv, LogInv, Create PROVE LogInv'
  OBVIOUS
<1> USE DEF LogInv, BootInv, StampInv, Stamps, Committed, consumer, LockInv, RunInv
<1>1. CASE WriteHeader BY <1>1 DEF WriteHeader
<1>2. CASE WriteBoot BY <1>2 DEF WriteBoot
<1>3. CASE ResetCursor BY <1>3 DEF ResetCursor
<1> QED
  BY <1>1, <1>2, <1>3 DEF Create

(* What fill() writes bears this run's stamp, and a slot is committed only *)
(* when every word of it has been written.                                 *)
LEMMA LogInvProduce == TypeOK /\ LockInv /\ LogInv /\ Produce => LogInv'
<1> SUFFICES ASSUME TypeOK, LockInv, LogInv, Produce PROVE LogInv'
  OBVIOUS
<1>t. nextSeq \in Nat /\ run \in Nat /\ Home(nextSeq) \in Slots
  BY HomeInRange DEF TypeOK
<1>b. ASSUME UNCHANGED <<run, hdrBoot, consumer>> PROVE BootInv'
  BY <1>b DEF LogInv, BootInv, consumer
<1>1. CASE Claim \/ FillSeqWord \/ Abandon
  <2>1. /\ UNCHANGED <<run, hdrBoot, nextSeq, slotBody, consumer>>
        /\ pc \in {"idle", "fill"} /\ pc' \in {"idle", "fill"}
    BY <1>1 DEF Claim, FillSeqWord, Abandon, segment
  <2>2. StampInv'
    BY <2>1 DEF LogInv, StampInv, Stamps, Committed, consumer
  <2> QED
    BY <1>b, <2>1, <2>2 DEF LogInv
<1>2. ASSUME NEW v \in Words, FillBody(v) PROVE LogInv'
  <2>1. /\ UNCHANGED <<run, hdrBoot, nextSeq, pc, consumer>>
        /\ slotBody' = [slotBody EXCEPT ![Home(nextSeq)] = [@ EXCEPT ![v] = <<run, nextSeq>>]]
    BY <1>2 DEF FillBody, LockInv, RunInv, Home
  <2>2. <<run, nextSeq>> \in Stamps
    BY <1>t DEF Stamps
  <2>3. ASSUME NEW s \in Nat, Committed(s), NEW w \in Words
        PROVE  slotBody'[Home(s)][w] \in Stamps
    BY <2>1, <2>2, <2>3, <1>t, HomeInRange DEF LogInv, StampInv, TypeOK
  <2>4. StampInv'
    BY <2>1, <2>3 DEF LogInv, StampInv, Stamps, Committed, consumer
  <2> QED
    BY <1>b, <2>1, <2>4 DEF LogInv
<1>3. CASE CommitSeq
  <2>1. /\ UNCHANGED <<run, hdrBoot, nextSeq, slotBody, consumer>>
        /\ pc = "fill" /\ todo = {} /\ pc' = "publish"
    BY <1>3 DEF CommitSeq
  <2>2. \A w \in Words : slotBody[Home(nextSeq)][w] \in Stamps
    BY <1>t, <2>1 DEF LockInv, FillInv, Stamps
  <2>3. ASSUME NEW s \in Nat, Committed(s)', NEW w \in Words
        PROVE  slotBody[Home(s)][w] \in Stamps
    BY <2>1, <2>2, <2>3 DEF LogInv, StampInv, Committed
  <2>4. StampInv'
    BY <2>1, <2>3 DEF LogInv, StampInv, Stamps, consumer
  <2> QED
    BY <1>b, <2>1, <2>4 DEF LogInv
<1>4. CASE Publish
  <2>1. /\ UNCHANGED <<run, hdrBoot, slotBody, consumer>>
        /\ pc = "publish" /\ pc' = "idle" /\ nextSeq' = nextSeq + 1
    BY <1>4 DEF Publish
  <2>2. Stamps \subseteq Stamps'
    BY <1>t, <2>1 DEF Stamps
  <2>3. ASSUME NEW s \in Nat, Committed(s)' PROVE Committed(s)
    BY <1>t, <2>1, <2>3 DEF Committed
  <2>4. StampInv'
    BY <2>1, <2>2, <2>3 DEF LogInv, StampInv, consumer
  <2> QED
    BY <1>b, <2>1, <2>4 DEF LogInv
<1> QED
  BY <1>1, <1>2, <1>3, <1>4 DEF Produce

(* A consumer's boot_id and its copy come from the header and the slots.   *)
LEMMA LogInvConsume ==
  ASSUME NEW c \in Consumers, TypeOK, LockInv, LogInv, Consume(c)
  PROVE  LogInv'
<1>0. StepOf(c)
  BY ConsumeIsStepOf
<1>s. UNCHANGED <<hdrBoot, slotSeq, slotBody, run, pc, nextSeq>>
  BY <1>0 DEF StepOf, segment, producer
<1>r. Stamps' = Stamps
  BY <1>s DEF Stamps
<1>1. BootInv'
  <2> SUFFICES /\ cBoot'[c] \in {0, run} /\ bootRead'[c] \in {0, run}
               /\ cBoot'[c] = run \/ bootRead'[c] = run => hdrBoot = run
               /\ cpc'[c] = "cursor" /\ cBoot'[c] = run => bootRead'[c] = run
    BY <1>0, <1>s DEF LogInv, BootInv, StepOf
  <2>inv. /\ hdrBoot \in {0, run} /\ run = 1
          /\ cBoot[c] \in {0, run} /\ bootRead[c] \in {0, run}
          /\ cBoot[c] = run \/ bootRead[c] = run => hdrBoot = run
          /\ cpc[c] = "cursor" /\ cBoot[c] = run => bootRead[c] = run
    BY DEF LogInv, BootInv
  <2>ty. /\ cpc \in [Consumers -> ConsumerPC] /\ cBoot \in [Consumers -> Nat]
         /\ bootRead \in [Consumers -> Nat]
    BY DEF TypeOK
  <2>1. CASE AttachHeader(c) BY <2>1, <2>inv, <2>ty DEF AttachHeader
  <2>2. CASE AttachBoot(c) BY <2>2, <2>inv, <2>ty DEF AttachBoot
  <2>3. CASE AttachCursor(c) BY <2>3, <2>inv, <2>ty DEF AttachCursor
  <2>4. CASE RecvBoot(c) BY <2>4, <2>inv, <2>ty DEF RecvBoot
  <2>5. CASE RecvRestarted(c) BY <2>5, <2>inv, <2>ty DEF RecvRestarted, Return
  <2>6. CASE RecvEmpty(c) \/ RecvLapped(c) \/ Reseat(c)
    BY <2>6, <2>inv, <2>ty DEF RecvEmpty, RecvLapped, Reseat, Return
  <2>7. CASE RecvReadable(c) \/ RecvCheck(c)
    BY <2>7, <2>inv, <2>ty DEF RecvReadable, RecvCheck
  <2>8. CASE RecvRecheck(c) BY <2>8, <2>inv, <2>ty DEF RecvRecheck, Return
  <2>9. ASSUME NEW w \in Words, RecvCopy(c, w)
        PROVE  UNCHANGED <<cpc, cBoot, bootRead>>
    BY <2>9 DEF RecvCopy
  <2>10. CASE Detach(c) BY <2>10, <2>inv, <2>ty DEF Detach
  <2> QED
    BY <2>inv, <2>1, <2>2, <2>3, <2>4, <2>5, <2>6, <2>7, <2>8, <2>9, <2>10
    DEF Consume, Attach, TryRecv
<1>2. StampInv'
  <2> SUFFICES ASSUME cpc'[c] = "copy", NEW w \in Words \ cTodo'[c]
               PROVE  copied'[c][w] \in Stamps
    BY <1>0, <1>s, <1>r DEF LogInv, StampInv, Committed, StepOf
  <2>inv. /\ cpc[c] = "copy" => \A v \in Words \ cTodo[c] : copied[c][v] \in Stamps
          /\ cpc[c] = "copy" => \A v \in Words : slotBody[Home(cNext[c])][v] \in Stamps
          /\ cpc[c] = "copy" => cCapacity[c] = Section
    BY DEF LogInv, StampInv, LockInv, RunInv, Committed, TypeOK
  <2>ty. /\ cpc \in [Consumers -> ConsumerPC] /\ cTodo \in [Consumers -> SUBSET Words]
         /\ copied \in [Consumers -> [Words -> Nat \X Nat]]
    BY DEF TypeOK
  <2>1. CASE RecvCheck(c)
    BY <2>1, <2>ty DEF RecvCheck
  <2>2. ASSUME NEW v \in Words, RecvCopy(c, v) PROVE copied'[c][w] \in Stamps
    BY <2>2, <2>inv, <2>ty DEF RecvCopy, Home
  <2>3. CASE \/ Attach(c) \/ RecvBoot(c) \/ RecvRestarted(c) \/ RecvEmpty(c) \/ RecvLapped(c)
             \/ RecvReadable(c) \/ RecvRecheck(c) \/ Reseat(c) \/ Detach(c)
    <3>1. cpc'[c] # "copy"
      BY <2>3, <2>ty DEF Attach, AttachHeader, AttachBoot, AttachCursor, RecvBoot, RecvRestarted,
         RecvEmpty, RecvLapped, RecvReadable, RecvRecheck, Reseat, Detach, Return
    <3> QED
      BY <3>1
  <2> QED
    BY <2>1, <2>2, <2>3 DEF Consume, TryRecv
<1> QED
  BY <1>1, <1>2 DEF LogInv

(* The strengthened invariant holds throughout a run.                      *)
LEMMA RunLogInv == Spec => []LogInv
<1>1. TypeOK /\ LockInv /\ LogInv /\ [RunNext]_vars => LogInv'
  <2> SUFFICES ASSUME TypeOK, LockInv, LogInv, [RunNext]_vars PROVE LogInv'
    OBVIOUS
  <2>1. CASE UNCHANGED vars
    BY <2>1 DEF vars, segment, producer, consumer, LogInv, BootInv, StampInv, Stamps, Committed
  <2> QED
    BY <2>1, LogInvCreate, LogInvProduce, LogInvConsume DEF RunNext
<1> QED
  BY <1>1, LogInvInit, RunTypeCorrect, RunLockInv, PTL DEF Spec

-----------------------------------------------------------------------------
(* The log as it is read off the ring: the substitution of Log.            *)
LogPos   == [c \in Consumers |-> IF Attached(c) THEN cNext[c] ELSE -1]
LogKnown == [c \in Consumers |-> Attached(c) /\ cBoot[c] = run]
LogGot   == [c \in Consumers |-> IF result[c] = "Record" THEN copied[c] ELSE Blank]

(* A step of one consumer moves one reader of the log.                     *)
LEMMA OneReader ==
  ASSUME NEW c \in Consumers, TypeOK, StepOf(c)
  PROVE  /\ cursor' = cursor
         /\ LogPos'   = [LogPos EXCEPT ![c] = IF Attached(c)' THEN cNext'[c] ELSE -1]
         /\ LogKnown' = [LogKnown EXCEPT ![c] = Attached(c)' /\ cBoot'[c] = run]
         /\ LogGot'   = [LogGot EXCEPT ![c] =
                           IF result'[c] = "Record" THEN copied'[c] ELSE Blank]
<1>1. UNCHANGED <<cursor, run>>
  BY DEF StepOf, segment, producer
<1>2. LogPos' = [LogPos EXCEPT ![c] = IF Attached(c)' THEN cNext'[c] ELSE -1]
  BY DEF StepOf, LogPos, Attached
<1>3. LogKnown' = [LogKnown EXCEPT ![c] = Attached(c)' /\ cBoot'[c] = run]
  BY <1>1 DEF StepOf, LogKnown, Attached
<1>4. LogGot' = [LogGot EXCEPT ![c] = IF result'[c] = "Record" THEN copied'[c] ELSE Blank]
  BY DEF StepOf, LogGot, Blank
<1> QED
  BY <1>1, <1>2, <1>3, <1>4

(* Nothing a reader could see has changed.                                 *)
LEMMA LogStutter ==
  ASSUME NEW c \in Consumers, TypeOK, StepOf(c),
         Attached(c)' <=> Attached(c),
         Attached(c) => cNext'[c] = cNext[c] /\ cBoot'[c] = cBoot[c],
         result[c] # "Record", result'[c] # "Record"
  PROVE  UNCHANGED Log!vars
<1>1. /\ LogPos' = LogPos /\ LogKnown' = LogKnown /\ LogGot' = LogGot
  <2>1. run' = run
    BY DEF StepOf, producer
  <2> QED
    BY <2>1 DEF LogPos, LogKnown, LogGot, StepOf, Attached, Blank
<1> QED
  BY <1>1, OneReader DEF Log!vars, LogPos, LogKnown, LogGot

(* A new section is an empty log nobody has joined.                        *)
LEMMA LogInit == Init => Log!Init
<1> SUFFICES ASSUME Init PROVE Log!Init
  OBVIOUS
<1>1. \A c \in Consumers : ~Attached(c) /\ result[c] = "none"
  BY DEF Init, Attached
<1>2. /\ cursor = 0
      /\ LogPos = [c \in Consumers |-> -1]
      /\ LogGot = [c \in Consumers |-> Blank]
  BY <1>1 DEF Init, LogPos, LogGot, Blank
<1>3. LogKnown = [c \in Consumers |-> FALSE]
  BY <1>1, Zenon DEF LogKnown
<1> QED
  BY <1>2, <1>3 DEF Log!Init, Log!Nothing, LogPos, LogKnown, LogGot, Blank

(* Of the producer's steps only Publish, the store of the cursor, appends. *)
LEMMA LogProduce ==
  ASSUME TypeOK, LockInv, Create \/ Produce
  PROVE  Log!Append \/ UNCHANGED Log!vars
<1>1. UNCHANGED <<run, consumer>>
  BY DEF Create, Produce, WriteHeader, WriteBoot, ResetCursor, Claim, FillBody,
         FillSeqWord, Abandon, CommitSeq, Publish
<1>2. LogPos' = LogPos /\ LogKnown' = LogKnown /\ LogGot' = LogGot
  BY <1>1 DEF LogPos, LogKnown, LogGot, Attached, Blank, consumer
<1>3. CASE Publish
  <2>1. cursor' = cursor + 1
    BY <1>3 DEF Publish, LockInv, RunInv
  <2> QED
    BY <1>2, <2>1 DEF Log!Append, LogPos, LogKnown, LogGot
<1>4. CASE ~Publish
  <2>1. cursor' = cursor
    BY <1>4 DEF Create, Produce, WriteHeader, WriteBoot, ResetCursor, Claim, FillBody,
       FillSeqWord, Abandon, CommitSeq, LockInv, RunInv, segment
  <2> QED
    BY <1>2, <2>1 DEF Log!vars, LogPos, LogKnown, LogGot
<1> QED
  BY <1>3, <1>4

(* attach joins at the live edge when it reads the cursor, not before.     *)
LEMMA LogAttach ==
  ASSUME NEW c \in Consumers, TypeOK, LockInv, LogInv, Attach(c)
  PROVE  Log!Join(c) \/ UNCHANGED Log!vars
<1>0. StepOf(c) /\ result[c] = "none" /\ result' = result /\ ~Attached(c)
  BY ConsumeIsStepOf DEF Consume, Attach, AttachHeader, AttachBoot, AttachCursor, LockInv,
     RunInv, Attached
<1>1. CASE AttachHeader(c) \/ AttachBoot(c)
  <2>1. ~Attached(c)'
    BY <1>1 DEF AttachHeader, AttachBoot, Attached, TypeOK
  <2> QED
    BY <1>0, <2>1, LogStutter
<1>2. CASE AttachCursor(c)
  <2>1. Attached(c)' /\ cNext'[c] = cursor /\ copied' = copied /\ cBoot' = cBoot
    BY <1>2 DEF AttachCursor, Attached, TypeOK
  <2>2. LogPos[c] = -1 /\ LogKnown[c] = FALSE /\ LogGot[c] = Blank
    BY <1>0 DEF LogPos, LogKnown, LogGot
  <2>3. /\ cursor' = cursor
        /\ LogPos' = [LogPos EXCEPT ![c] = cursor]
        /\ LogKnown' = [LogKnown EXCEPT ![c] = (cBoot[c] = run)]
        /\ LogGot' = LogGot
    BY <1>0, <2>1, <2>2, OneReader DEF LogGot
  <2>4. LogKnown' \in {LogKnown, [LogKnown EXCEPT ![c] = TRUE]}
    BY <2>2, <2>3 DEF LogKnown
  <2> QED
    BY <2>2, <2>3, <2>4 DEF Log!Join, LogPos, LogKnown, LogGot
<1> QED
  BY <1>1, <1>2 DEF Attach

(* A call of try_recv delivers, skips, rejoins or leaves the reader alone: *)
(* Restarted finds a reader that did not know the run, Lagged moves only   *)
(* one more than a lap behind, and a Record is the one at the cursor.      *)
LEMMA LogRecv ==
  ASSUME NEW c \in Consumers, TypeOK, LockInv, LogInv, TryRecv(c)
  PROVE  \/ Log!Reuse(c) \/ Log!Rejoin(c) \/ Log!Skip(c) \/ Log!Deliver(c)
         \/ UNCHANGED Log!vars
<1>0. StepOf(c)
  BY ConsumeIsStepOf DEF Consume
<1>ty. /\ cpc \in [Consumers -> ConsumerPC] /\ cNext \in [Consumers -> Nat]
       /\ cBoot \in [Consumers -> Nat] /\ result \in [Consumers -> Recv]
       /\ cursor \in Nat /\ copied[c] \in [Words -> Nat \X Nat]
       /\ Section \in Nat \ {0}
  BY SectionAssumption DEF TypeOK
<1>att. Attached(c) /\ cpc[c] # "detached"
  BY DEF TryRecv, RecvBoot, RecvRestarted, RecvEmpty, RecvLapped, RecvReadable, RecvCheck,
     RecvRecheck, Reseat, RecvCopy, Attached
<1>inv. /\ cCapacity[c] = Section /\ cNext[c] <= nextSeq /\ cursor = nextSeq
        /\ cpc[c] \in {"check", "copy"} => cNext[c] < nextSeq
        /\ cpc[c] # "idle" => result[c] = "none"
  BY <1>att DEF LockInv, RunInv
<1>map. /\ LogPos[c] = cNext[c] /\ LogKnown[c] = (cBoot[c] = run)
        /\ cpc[c] # "idle" => LogGot[c] = Blank
  BY <1>att, <1>inv DEF LogPos, LogKnown, LogGot
<1>1. CASE RecvBoot(c)
  <2>1. /\ Attached(c)' /\ cNext' = cNext /\ cBoot' = cBoot /\ result'[c] = "none"
    BY <1>1, <1>ty DEF RecvBoot, Attached
  <2>2. /\ cursor' = cursor /\ LogPos' = LogPos /\ LogKnown' = LogKnown
        /\ LogGot' = [LogGot EXCEPT ![c] = Blank]
    BY <1>0, <1>map, <2>1, OneReader DEF LogPos, LogKnown
  <2> QED
    BY <2>2 DEF Log!Reuse, Log!Nothing, LogPos, LogKnown, LogGot, Blank
<1>2. CASE RecvRestarted(c)
  <2>1. /\ Attached(c)' /\ cNext'[c] = cursor /\ cBoot'[c] = bootRead[c]
        /\ result'[c] = "Restarted" /\ cpc[c] = "cursor" /\ bootRead[c] # cBoot[c]
    BY <1>2, <1>ty DEF RecvRestarted, Return, Attached
  <2>2. cBoot[c] # run /\ bootRead[c] = run
    BY <2>1 DEF LogInv, BootInv
  <2>3. /\ cursor' = cursor
        /\ LogPos' = [LogPos EXCEPT ![c] = cursor]
        /\ LogKnown' = [LogKnown EXCEPT ![c] = TRUE]
        /\ LogGot' = LogGot
    <3>1. (Attached(c)' /\ cBoot'[c] = run) = TRUE
      BY <2>1, <2>2, Zenon
    <3>2. LogKnown' = [LogKnown EXCEPT ![c] = TRUE]
      BY <1>0, <3>1, OneReader
    <3> QED
      BY <1>0, <1>map, <2>1, <3>2, OneReader DEF LogGot
  <2>4. LogPos[c] # -1 /\ ~LogKnown[c]
    <3>1. LogPos[c] # -1
      BY <1>map, <1>ty
    <3>2. ~LogKnown[c]
      BY <2>2, Zenon DEF LogKnown
    <3> QED
      BY <3>1, <3>2
  <2> QED
    BY <2>3, <2>4 DEF Log!Rejoin, LogPos, LogKnown, LogGot
<1>3. CASE RecvEmpty(c) \/ RecvReadable(c) \/ RecvCheck(c) \/ (\E w \in Words : RecvCopy(c, w))
  <2>1. cpc[c] # "idle"
    BY <1>3 DEF RecvEmpty, RecvReadable, RecvCheck, RecvCopy
  <2>2. /\ Attached(c)' /\ cNext'[c] = cNext[c] /\ cBoot' = cBoot
        /\ result'[c] # "Record"
    BY <1>3, <1>ty, <1>inv, <1>att, <2>1 DEF RecvEmpty, RecvReadable, RecvCheck, RecvCopy, Return, Attached
  <2> QED
    BY <1>0, <1>att, <1>inv, <2>1, <2>2, LogStutter
<1>4. CASE RecvLapped(c) \/ Reseat(c)
  <2>1. /\ cpc[c] # "idle" /\ Attached(c)' /\ result'[c] = "Lagged" /\ cBoot' = cBoot
        /\ \/ cNext'[c] = cNext[c]
           \/ cNext[c] < cursor - Section /\ cNext'[c] = cursor - Section
    BY <1>4, <1>ty, <1>inv DEF RecvLapped, Reseat, Return, Attached
  <2>2. CASE cNext'[c] = cNext[c]
    BY <1>0, <1>att, <1>inv, <2>1, <2>2, LogStutter
  <2>3. CASE cNext[c] < cursor - Section /\ cNext'[c] = cursor - Section
    <3>1. /\ cursor' = cursor
          /\ LogPos' = [LogPos EXCEPT ![c] = cursor - Section]
          /\ LogKnown' = LogKnown /\ LogGot' = LogGot
      BY <1>0, <1>map, <2>1, <2>3, OneReader DEF LogKnown, LogGot
    <3>2. LogPos[c] \in 0 .. cursor - Section - 1
      BY <1>map, <1>ty, <2>3
    <3> QED
      BY <3>1, <3>2 DEF Log!Skip, LogPos, LogKnown, LogGot
  <2> QED
    BY <2>1, <2>2, <2>3
<1>5. CASE RecvRecheck(c)
  <2>1. /\ cpc[c] = "copy" /\ cTodo[c] = {} /\ copied' = copied /\ cBoot' = cBoot
    BY <1>5 DEF RecvRecheck
  <2>2. CASE SeqSeen(c) # cNext[c]
    <3>1. Attached(c)' /\ cNext'[c] = cNext[c] /\ result'[c] = "none"
      BY <1>5, <1>ty, <1>inv, <2>1, <2>2 DEF RecvRecheck, Attached
    <3> QED
      BY <1>0, <1>att, <1>inv, <2>1, <3>1, LogStutter
  <2>3. CASE SeqSeen(c) = cNext[c]
    <3>1. /\ cNext'[c] = cNext[c] + 1 /\ Attached(c)' /\ result'[c] = "Record"
          /\ slotSeq[Home(cNext[c])] = cNext[c]
      BY <1>5, <1>inv, <1>ty, <2>3 DEF RecvRecheck, Return, SeqSeen, Home, Attached
    <3>2. /\ cursor' = cursor
          /\ LogPos' = [LogPos EXCEPT ![c] = LogPos[c] + 1]
          /\ LogKnown' = LogKnown
          /\ LogGot' = [LogGot EXCEPT ![c] = copied[c]]
      BY <1>0, <1>map, <2>1, <3>1, OneReader DEF LogKnown
    <3>3. LogPos[c] \in 0 .. cursor - 1
      BY <1>map, <1>ty, <1>inv, <2>1
    <3>4. copied[c] \in [Words -> {1} \X (0 .. cursor)]
      <4>1. \A w \in Words : copied[c][w] \in {1} \X (0 .. cursor)
        BY <1>inv, <2>1 DEF LogInv, StampInv, BootInv, Stamps
      <4> QED
        BY <1>ty, <4>1
    <3>5. LogPos[c] # FillSeq => copied[c] = Log!Record(LogPos[c])
      <4>1. LogPos[c] # FillSeq => \A w \in Words : copied[c][w] = <<1, LogPos[c]>>
        BY <1>map, <2>1, <3>1 DEF LockInv, CopyInv, LogInv, BootInv
      <4> QED
        BY <1>ty, <4>1 DEF Log!Record
    <3> QED
      BY <3>2, <3>3, <3>4, <3>5 DEF Log!Deliver, LogPos, LogKnown, LogGot
  <2> QED
    BY <2>2, <2>3
<1> QED
  BY <1>1, <1>2, <1>3, <1>4, <1>5 DEF TryRecv

(* A consumer that goes away leaves the log, wherever it was in a call.    *)
LEMMA LogDetach ==
  ASSUME NEW c \in Consumers, TypeOK, Detach(c)
  PROVE  Log!Leave(c)
<1>1. StepOf(c)
  BY ConsumeIsStepOf DEF Consume
<1>2. ~Attached(c)' /\ result'[c] = "none"
  BY DEF Detach, Attached, TypeOK
<1>3. /\ cursor' = cursor
      /\ LogPos' = [LogPos EXCEPT ![c] = -1]
      /\ LogKnown' = [LogKnown EXCEPT ![c] = FALSE]
      /\ LogGot' = [LogGot EXCEPT ![c] = Blank]
  BY <1>1, <1>2, OneReader
<1> QED
  BY <1>3 DEF Log!Leave, Log!Nothing, LogPos, LogKnown, LogGot, Blank

(* ImplementsLog holds of every run: the ring, with its slots, sequence    *)
(* locks and word-by-word copies, is an append-only log of which a reader  *)
(* is given each record once, whole and in order, or is told exactly which *)
(* ones it has lost.                                                       *)
THEOREM RingImplementsLog == Spec => ImplementsLog
<1>1. TypeOK /\ LockInv /\ LogInv /\ [RunNext]_vars => [Log!Next]_Log!vars
  <2> SUFFICES ASSUME TypeOK, LockInv, LogInv, [RunNext]_vars
               PROVE  [Log!Next]_Log!vars
    OBVIOUS
  <2>1. CASE UNCHANGED vars
    <3>1. UNCHANGED <<cursor, LogPos, LogKnown, LogGot>>
      BY <2>1 DEF vars, segment, producer, consumer, LogPos, LogKnown, LogGot, Attached, Blank
    <3> QED
      BY <3>1 DEF Log!vars, LogPos, LogKnown, LogGot
  <2>2. CASE Create \/ Produce
    BY <2>2, LogProduce DEF Log!Next
  <2>3. ASSUME NEW c \in Consumers, Consume(c) PROVE [Log!Next]_Log!vars
    BY <2>3, LogAttach, LogRecv, LogDetach DEF Log!Next, Consume
  <2> QED
    BY <2>1, <2>2, <2>3 DEF RunNext
<1> QED
  BY <1>1, LogInit, RunTypeCorrect, RunLockInv, RunLogInv, PTL
  DEF Spec, ImplementsLog, Log!Spec
=============================================================================

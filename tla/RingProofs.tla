------------------------------ MODULE RingProofs ------------------------------
(***************************************************************************)
(* Theorems about Ring, for every set of consumers, every record layout,   *)
(* every section size and every bound.                                     *)
(***************************************************************************)
EXTENDS Ring, TLAPS

-----------------------------------------------------------------------------
(* Slot arithmetic: ring.rs slot_offset stays inside the section, and      *)
(* sequence numbers a lap apart share a slot.                              *)
LEMMA SlotInRange ==
  ASSUME NEW s \in Nat, NEW k \in 1..Section
  PROVE  SlotOf(s, k) \in Slots
BY SectionAssumption DEF SlotOf, Slots

(* One lap later the same slot comes round again.                          *)
LEMMA LapSharesSlot ==
  ASSUME NEW s \in Nat, NEW k \in Nat \ {0}
  PROVE  SlotOf(s + k, k) = SlotOf(s, k)
<1> DEFINE q == s \div k
           r == s % k
           p == (s + k) \div k
           t == (s + k) % k
           d == (q + 1) - p
<1>1. /\ q \in Int /\ r \in 0 .. k - 1 /\ s = k * q + r
      /\ p \in Int /\ t \in 0 .. k - 1 /\ s + k = k * p + t
  OBVIOUS
<1> HIDE DEF q, r, p, t
<1>2. d \in Int /\ k * d = t - r
  <2>1. k * d = k * q + k - k * p
    BY <1>1
  <2> QED
    BY <1>1, <2>1
<1>3. t - r < k /\ t - r > 0 - k
  BY <1>1
<1> HIDE DEF d
<1>4. ~(d >= 1)
  <2>1. d >= 1 => k * d >= k
    BY <1>2
  <2> QED
    BY <1>1, <1>2, <1>3, <2>1
<1>5. ~(d <= -1)
  <2>1. d <= -1 => k * d <= 0 - k
    BY <1>2
  <2> QED
    BY <1>1, <1>2, <1>3, <2>1
<1>6. d = 0
  BY <1>2, <1>4, <1>5
<1>7. t = r
  BY <1>1, <1>2, <1>6
<1> QED
  BY <1>7 DEF SlotOf, t, r

-----------------------------------------------------------------------------
(* Type correctness holds over the whole life of the section: every run,   *)
(* crash, restart and change of capacity.                                  *)
LEMMA InitType == Init => TypeOK
BY SectionAssumption
   DEF Init, TypeOK, Slots, Blank, ProducerPC, ConsumerPC, Recv

(* The stores of RingProducer::create keep the types.                      *)
LEMMA CreateType == TypeOK /\ Create => TypeOK'
BY DEF TypeOK, Create, WriteHeader, WriteBoot, ResetCursor, ProducerPC, consumer

(* So do claiming, filling, abandoning and committing a slot.              *)
LEMMA ProduceType == TypeOK /\ Produce => TypeOK'
<1> SUFFICES ASSUME TypeOK, Produce PROVE TypeOK'
  OBVIOUS
<1> DEFINE i == SlotOf(nextSeq, capacity)
<1>i. i \in Slots
  BY SlotInRange DEF TypeOK
<1> HIDE DEF i
<1>1. CASE Claim
  BY <1>1, <1>i DEF TypeOK, Claim, ProducerPC, consumer, InProgress, i
<1>2. CASE FillSeqWord
  BY <1>2, <1>i, FillSeqAssumption DEF TypeOK, FillSeqWord, ProducerPC, consumer, i
<1>3. CASE Abandon
  BY <1>3 DEF TypeOK, Abandon, ProducerPC, segment, consumer
<1>4. CASE CommitSeq
  BY <1>4, <1>i DEF TypeOK, CommitSeq, ProducerPC, consumer, i
<1>5. CASE Publish
  BY <1>5 DEF TypeOK, Publish, ProducerPC, consumer
<1>6. ASSUME NEW w \in Words, FillBody(w) PROVE TypeOK'
  BY <1>6, <1>i DEF TypeOK, FillBody, ProducerPC, consumer, i
<1> QED
  BY <1>1, <1>2, <1>3, <1>4, <1>5, <1>6 DEF Produce

(* So does every step of attach and try_recv: a consumer's cursor stays a  *)
(* natural number through Lagged, the saturating reseat and Restarted.     *)
LEMMA ConsumeType ==
  ASSUME NEW c \in Consumers
  PROVE  TypeOK /\ Consume(c) => TypeOK'
<1> SUFFICES ASSUME TypeOK, Consume(c) PROVE TypeOK'
  OBVIOUS
<1> USE DEF TypeOK, ConsumerPC, Recv, segment, producer
<1>1. CASE AttachHeader(c) BY <1>1 DEF AttachHeader
<1>2. CASE AttachBoot(c) BY <1>2 DEF AttachBoot
<1>3. CASE AttachCursor(c) BY <1>3 DEF AttachCursor
<1>4. CASE RecvBoot(c) BY <1>4 DEF RecvBoot, Blank
<1>5. CASE RecvRestarted(c) BY <1>5 DEF RecvRestarted, Return
<1>6. CASE RecvEmpty(c) BY <1>6 DEF RecvEmpty, Return
<1>7. CASE RecvLapped(c) BY <1>7 DEF RecvLapped, Return
<1>8. CASE RecvReadable(c) BY <1>8 DEF RecvReadable
<1>9. CASE RecvCheck(c)
  <2>1. CASE SeqSeen(c) = cNext[c]
    <3>1. /\ cTodo' = [cTodo EXCEPT ![c] = Words]
          /\ cpc' = [cpc EXCEPT ![c] = "copy"]
          /\ UNCHANGED <<segment, producer, cCapacity, cBoot, cNext, bootRead, copied, result>>
      BY <1>9, <2>1 DEF RecvCheck
    <3>2. cpc[c] = "check"
      BY <1>9 DEF RecvCheck
    <3>3. cTodo' \in [Consumers -> SUBSET Words]
      BY <3>1
    <3> QED
      BY <3>1, <3>2, <3>3
  <2>2. CASE SeqSeen(c) # cNext[c] BY <1>9, <2>2 DEF RecvCheck
  <2> QED BY <2>1, <2>2
<1>10. CASE RecvRecheck(c)
  <2>1. CASE SeqSeen(c) = cNext[c]
    <3>1. /\ Return(c, cNext[c] + 1, "Record")
          /\ UNCHANGED <<segment, producer, cCapacity, cBoot, bootRead, copied, cTodo>>
      BY <1>10, <2>1 DEF RecvRecheck
    <3>2. cpc[c] = "copy"
      BY <1>10 DEF RecvRecheck
    <3>3. /\ cNext' \in [Consumers -> Nat]
          /\ result' \in [Consumers -> Recv]
      BY <3>1 DEF Return
    <3>4. cpc' = [cpc EXCEPT ![c] = "idle"]
      BY <3>1 DEF Return
    <3> QED
      BY <3>1, <3>2, <3>3, <3>4
  <2>2. CASE SeqSeen(c) # cNext[c] BY <1>10, <2>2 DEF RecvRecheck
  <2> QED BY <2>1, <2>2
<1>11. CASE Reseat(c) BY <1>11 DEF Reseat, Return
<1>12. ASSUME NEW w \in Words, RecvCopy(c, w) PROVE TypeOK'
  <2> DEFINE i == SlotOf(cNext[c], cCapacity[c])
  <2>1. i \in Slots
    BY <1>12, SlotInRange DEF RecvCopy
  <2> HIDE DEF i
  <2>2. slotBody[i][w] \in Nat \X Nat
    BY <2>1
  <2> QED
    BY <1>12, <2>2 DEF RecvCopy, i
<1>13. CASE Detach(c) BY <1>13, SectionAssumption DEF Detach, Blank
<1> HIDE DEF TypeOK, ConsumerPC, Recv, segment, producer
<1>14. CASE Attach(c)
  BY <1>14, <1>1, <1>2, <1>3 DEF Attach
<1>15. CASE TryRecv(c)
  BY <1>15, <1>4, <1>5, <1>6, <1>7, <1>8, <1>9, <1>10, <1>11, <1>12 DEF TryRecv
<1> QED
  BY <1>13, <1>14, <1>15 DEF Consume

(* TypeOK holds of every reachable state of the section, whatever the      *)
(* number of consumers, the capacities and the restarts: no arithmetic of  *)
(* try_recv takes a cursor below zero.                                     *)
THEOREM TypeCorrect == SectionSpec => []TypeOK
<1>1. TypeOK /\ [Next]_vars => TypeOK'
  <2> SUFFICES ASSUME TypeOK, [Next]_vars PROVE TypeOK'
    OBVIOUS
  <2>1. CASE RunNext
    BY <2>1, CreateType, ProduceType, ConsumeType DEF RunNext
  <2>2. CASE Crash
    BY <2>2 DEF Crash, TypeOK, ProducerPC, segment, consumer
  <2>3. ASSUME NEW k \in Capacities, Restart(k) PROVE TypeOK'
    BY <2>3, CapacitiesAssumption DEF Restart, TypeOK, ProducerPC, segment, consumer
  <2>4. CASE UNCHANGED vars
    BY <2>4 DEF TypeOK, vars, segment, producer, consumer
  <2> QED
    BY <2>1, <2>2, <2>3, <2>4 DEF Next
<1> QED
  BY InitType, <1>1, PTL DEF SectionSpec

-----------------------------------------------------------------------------
(***************************************************************************)
(* The sequence lock.  NoTornRead is not inductive: that the copy in hand  *)
(* is whole when the recheck succeeds rests on what the slots hold and on  *)
(* what a copy in progress has gathered so far.                            *)
(***************************************************************************)
Home(s) == SlotOf(s, Section)

\* The sequence numbers that have had their sequence word stored.
Committed(s) == s < nextSeq \/ (s = nextSeq /\ pc = "publish")

\* Facts of one run: one capacity everywhere, and the order of the cursors.
RunInv ==
  /\ capacity = Section
  /\ hdrCapacity \in {0, Section}
  /\ cursor = nextSeq
  /\ pc # "down"
  /\ pc \in {"header", "boot", "cursor"} => nextSeq = 0
  /\ \A c \in Consumers :
       /\ cpc[c] # "detached" => cCapacity[c] = Section
       /\ cNext[c] <= nextSeq
       /\ cpc[c] \in {"check", "copy"} => cNext[c] < nextSeq
       /\ cpc[c] # "idle" => result[c] = "none"

\* A slot whose lock word shows a committed sequence number holds all of it.
SlotInv ==
  \A s \in Nat :
    Committed(s) /\ s # FillSeq /\ slotSeq[Home(s)] = s
      => slotBody[Home(s)] = Whole(run, s)

\* While a slot is filled its lock word shows no committed number but
\* FillSeq, and the words written so far are the new record's.
FillInv ==
  pc = "fill" =>
    /\ slotSeq[Home(nextSeq)] \in {InProgress, FillSeq}
    /\ \A w \in Words \ todo : slotBody[Home(nextSeq)][w] = <<run, nextSeq>>

\* A copy in progress is clean so far, or the lock word has moved on, in
\* which case it never shows the wanted number again.
CopyInv ==
  \A c \in Consumers :
    cpc[c] = "copy" /\ cNext[c] # FillSeq =>
      \/ slotSeq[Home(cNext[c])] # cNext[c]
      \/ \A w \in Words \ cTodo[c] : copied[c][w] = <<run, cNext[c]>>

LockInv == RunInv /\ SlotInv /\ FillInv /\ CopyInv /\ NoTornRead

(* The slot of a sequence number, slot_offset, is a slot of the section.   *)
LEMMA HomeInRange ==
  ASSUME NEW s \in Nat
  PROVE  Home(s) \in Slots
BY SlotInRange, SectionAssumption DEF Home

(* The sequence-lock invariant holds of a new, zero-filled section.        *)
LEMMA LockInit == Init => LockInv
BY SectionAssumption
   DEF Init, LockInv, RunInv, SlotInv, FillInv, CopyInv, NoTornRead, Committed

(* create's stores precede the first claim and leave it alone.             *)
LEMMA LockCreate == TypeOK /\ LockInv /\ Create => LockInv'
<1> SUFFICES ASSUME TypeOK, LockInv, Create PROVE LockInv'
  OBVIOUS
<1> USE DEF LockInv, RunInv, SlotInv, FillInv, CopyInv, NoTornRead, Committed, Whole, consumer
<1>1. CASE WriteHeader BY <1>1 DEF WriteHeader
<1>2. CASE WriteBoot BY <1>2 DEF WriteBoot
<1>3. CASE ResetCursor BY <1>3 DEF ResetCursor
<1> QED
  BY <1>1, <1>2, <1>3 DEF Create

(* slot(): the sentinel withdraws the old record before a word changes.    *)
LEMMA LockClaim == TypeOK /\ LockInv /\ Claim => LockInv'
<1> SUFFICES ASSUME TypeOK, LockInv, Claim PROVE LockInv'
  OBVIOUS
<1>1. /\ pc = "idle" /\ pc' = "fill" /\ todo' = Words \cup {SeqWord}
      /\ slotSeq' = [slotSeq EXCEPT ![Home(nextSeq)] = -1]
      /\ UNCHANGED <<hdrCapacity, cursor, slotBody, run, capacity, nextSeq>>
      /\ UNCHANGED <<cpc, cCapacity, cNext, copied, cTodo, result>>
  BY DEF Claim, LockInv, RunInv, Home, consumer, InProgress
<1>2. RunInv'
  BY <1>1 DEF LockInv, RunInv
<1>3. SlotInv'
  <2> SUFFICES ASSUME NEW s \in Nat, s < nextSeq, s # FillSeq, slotSeq'[Home(s)] = s
               PROVE  slotBody[Home(s)] = Whole(run, s)
    BY <1>1 DEF SlotInv, Committed, Whole
  <2>1. Home(s) # Home(nextSeq)
    BY <1>1, HomeInRange DEF TypeOK
  <2> QED
    BY <1>1, <2>1, HomeInRange DEF LockInv, SlotInv, Committed, TypeOK
<1>4. FillInv'
  BY <1>1, HomeInRange DEF FillInv, TypeOK, InProgress
<1>5. CopyInv'
  BY <1>1, HomeInRange DEF LockInv, CopyInv, TypeOK
<1>6. NoTornRead'
  BY <1>1 DEF LockInv, NoTornRead, Whole
<1> QED
  BY <1>2, <1>3, <1>4, <1>5, <1>6 DEF LockInv

(* fill() overwrites the lock word with FillSeq, which no protected record *)
(* carries.                                                                *)
LEMMA LockFillSeqWord == TypeOK /\ LockInv /\ FillSeqWord => LockInv'
<1> SUFFICES ASSUME TypeOK, LockInv, FillSeqWord PROVE LockInv'
  OBVIOUS
<1>1. /\ pc = "fill" /\ todo' = todo \ {SeqWord}
      /\ slotSeq' = [slotSeq EXCEPT ![Home(nextSeq)] = FillSeq]
      /\ UNCHANGED <<hdrCapacity, cursor, slotBody, run, pc, capacity, nextSeq>>
      /\ UNCHANGED <<cpc, cCapacity, cNext, copied, cTodo, result>>
  BY DEF FillSeqWord, LockInv, RunInv, Home, consumer
<1>2. RunInv'
  BY <1>1 DEF LockInv, RunInv
<1>3. SlotInv'
  BY <1>1, HomeInRange DEF LockInv, SlotInv, Committed, TypeOK, Whole
<1>4. FillInv'
  BY <1>1, HomeInRange, WordsAssumption DEF LockInv, FillInv, TypeOK
<1>5. CopyInv'
  BY <1>1, HomeInRange DEF LockInv, CopyInv, TypeOK
<1>6. NoTornRead'
  BY <1>1 DEF LockInv, NoTornRead, Whole
<1> QED
  BY <1>2, <1>3, <1>4, <1>5, <1>6 DEF LockInv

(* fill() writes a body word: only readers already doomed to fail their    *)
(* second check can have copied from this slot.                            *)
LEMMA LockFillBody ==
  ASSUME NEW v \in Words
  PROVE  TypeOK /\ LockInv /\ FillBody(v) => LockInv'
<1> SUFFICES ASSUME TypeOK, LockInv, FillBody(v) PROVE LockInv'
  OBVIOUS
<1> DEFINE i == Home(nextSeq)
<1>1. /\ pc = "fill" /\ todo' = todo \ {v}
      /\ slotBody' = [slotBody EXCEPT ![i] = [@ EXCEPT ![v] = <<run, nextSeq>>]]
      /\ UNCHANGED <<hdrCapacity, cursor, slotSeq, run, pc, capacity, nextSeq>>
      /\ UNCHANGED <<cpc, cCapacity, cNext, copied, cTodo, result>>
  BY DEF FillBody, LockInv, RunInv, Home, consumer
<1>2. RunInv'
  BY <1>1 DEF LockInv, RunInv
<1>3. SlotInv'
  <2> SUFFICES ASSUME NEW s \in Nat, Committed(s), s # FillSeq, slotSeq[Home(s)] = s
               PROVE  slotBody'[Home(s)] = Whole(run, s)
    BY <1>1 DEF SlotInv, Committed, Whole
  <2>1. Home(s) # i
    BY <1>1 DEF LockInv, FillInv, InProgress
  <2> QED
    BY <1>1, <2>1, HomeInRange DEF LockInv, SlotInv, TypeOK
<1>4. FillInv'
  <2>1. i \in Slots
    BY HomeInRange DEF TypeOK
  <2>2. \A w \in Words \ todo' : slotBody'[i][w] = <<run, nextSeq>>
    BY <1>1, <2>1 DEF LockInv, FillInv, TypeOK
  <2> QED
    BY <1>1, <2>2 DEF LockInv, FillInv
<1>5. CopyInv'
  BY <1>1 DEF LockInv, CopyInv
<1>6. NoTornRead'
  BY <1>1 DEF LockInv, NoTornRead, Whole
<1> QED
  BY <1>2, <1>3, <1>4, <1>5, <1>6 DEF LockInv

(* An abandoned slot stays locked.                                         *)
LEMMA LockAbandon == TypeOK /\ LockInv /\ Abandon => LockInv'
BY DEF Abandon, LockInv, RunInv, SlotInv, FillInv, CopyInv, NoTornRead, Committed,
       Whole, segment, consumer

(* commit(): the sequence word goes in over a body that is whole.          *)
LEMMA LockCommitSeq == TypeOK /\ LockInv /\ CommitSeq => LockInv'
<1> SUFFICES ASSUME TypeOK, LockInv, CommitSeq PROVE LockInv'
  OBVIOUS
<1> DEFINE i == Home(nextSeq)
<1>1. /\ pc = "fill" /\ todo = {} /\ todo' = todo /\ pc' = "publish"
      /\ slotSeq' = [slotSeq EXCEPT ![i] = nextSeq]
      /\ UNCHANGED <<hdrCapacity, cursor, slotBody, run, capacity, nextSeq>>
      /\ UNCHANGED <<cpc, cCapacity, cNext, copied, cTodo, result>>
  BY DEF CommitSeq, LockInv, RunInv, Home, consumer
<1>2. RunInv'
  BY <1>1 DEF LockInv, RunInv
<1>3. SlotInv'
  <2> SUFFICES ASSUME NEW s \in Nat, s < nextSeq \/ s = nextSeq, s # FillSeq,
                      slotSeq'[Home(s)] = s
               PROVE  slotBody[Home(s)] = Whole(run, s)
    BY <1>1 DEF SlotInv, Committed, Whole
  <2>1. i \in Slots /\ Home(s) \in Slots
    BY HomeInRange DEF TypeOK
  <2>2. CASE s = nextSeq
    <3>1. \A w \in Words : slotBody[i][w] = <<run, nextSeq>>
      BY <1>1 DEF LockInv, FillInv
    <3>2. slotBody[i] \in [Words -> Nat \X Nat]
      BY <2>1 DEF TypeOK
    <3> QED
      BY <2>2, <3>1, <3>2 DEF Whole
  <2>3. CASE s < nextSeq
    <3>1. Home(s) # i
      BY <1>1, <2>1, <2>3 DEF TypeOK
    <3> QED
      BY <1>1, <2>1, <2>3, <3>1 DEF LockInv, SlotInv, Committed, TypeOK
  <2> QED
    BY <2>2, <2>3
<1>4. FillInv'
  BY <1>1 DEF FillInv
<1>5. CopyInv'
  BY <1>1, HomeInRange DEF LockInv, CopyInv, RunInv, TypeOK
<1>6. NoTornRead'
  BY <1>1 DEF LockInv, NoTornRead, Whole
<1> QED
  BY <1>2, <1>3, <1>4, <1>5, <1>6 DEF LockInv

(* commit(): the cursor admits readers to a slot already committed.        *)
LEMMA LockPublish == TypeOK /\ LockInv /\ Publish => LockInv'
<1> SUFFICES ASSUME TypeOK, LockInv, Publish PROVE LockInv'
  OBVIOUS
<1>1. /\ pc = "publish" /\ pc' = "idle" /\ nextSeq' = nextSeq + 1 /\ cursor' = nextSeq + 1
      /\ UNCHANGED <<hdrCapacity, slotSeq, slotBody, run, capacity, todo>>
      /\ UNCHANGED <<cpc, cCapacity, cNext, copied, cTodo, result>>
  BY DEF Publish, consumer
<1>2. RunInv'
  BY <1>1 DEF LockInv, RunInv, TypeOK
<1>3. SlotInv'
  <2> SUFFICES ASSUME NEW s \in Nat, s < nextSeq + 1, s # FillSeq, slotSeq[Home(s)] = s
               PROVE  slotBody[Home(s)] = Whole(run, s)
    BY <1>1 DEF SlotInv, Committed, Whole
  <2>1. Committed(s)
    BY <1>1 DEF Committed, TypeOK
  <2> QED
    BY <2>1 DEF LockInv, SlotInv
<1>4. FillInv'
  BY <1>1 DEF FillInv
<1>5. CopyInv'
  BY <1>1 DEF LockInv, CopyInv
<1>6. NoTornRead'
  BY <1>1 DEF LockInv, NoTornRead, Whole
<1> QED
  BY <1>2, <1>3, <1>4, <1>5, <1>6 DEF LockInv

\* A step of consumer c: the segment, the producer and the other consumers
\* are as before.
StepOf(c) ==
  /\ UNCHANGED <<segment, producer>>
  /\ \A d \in Consumers \ {c} :
       /\ cpc'[d] = cpc[d] /\ cCapacity'[d] = cCapacity[d] /\ cNext'[d] = cNext[d]
       /\ copied'[d] = copied[d] /\ cTodo'[d] = cTodo[d] /\ result'[d] = result[d]
       /\ cBoot'[d] = cBoot[d] /\ bootRead'[d] = bootRead[d]

(* A consumer's step leaves the segment, the producer and every other      *)
(* consumer alone: the mapping is read-only.                               *)
LEMMA ConsumeIsStepOf ==
  ASSUME NEW c \in Consumers, TypeOK, Consume(c)
  PROVE  StepOf(c)
<1> USE DEF StepOf, TypeOK
<1>1. CASE AttachHeader(c) BY <1>1 DEF AttachHeader
<1>2. CASE AttachBoot(c) BY <1>2 DEF AttachBoot
<1>3. CASE AttachCursor(c) BY <1>3 DEF AttachCursor
<1>4. CASE RecvBoot(c) BY <1>4 DEF RecvBoot
<1>5. CASE RecvRestarted(c) BY <1>5 DEF RecvRestarted, Return
<1>6. CASE RecvEmpty(c) BY <1>6 DEF RecvEmpty, Return
<1>7. CASE RecvLapped(c) BY <1>7 DEF RecvLapped, Return
<1>8. CASE RecvReadable(c) BY <1>8 DEF RecvReadable
<1>9. CASE RecvCheck(c) BY <1>9 DEF RecvCheck
<1>10. CASE RecvRecheck(c) BY <1>10 DEF RecvRecheck, Return
<1>11. CASE Reseat(c) BY <1>11 DEF Reseat, Return
<1>12. ASSUME NEW w \in Words, RecvCopy(c, w) PROVE StepOf(c) BY <1>12 DEF RecvCopy
<1>13. CASE Detach(c) BY <1>13 DEF Detach
<1> HIDE DEF StepOf, TypeOK
<1>14. CASE Attach(c)
  BY <1>14, <1>1, <1>2, <1>3 DEF Attach
<1>15. CASE TryRecv(c)
  BY <1>15, <1>4, <1>5, <1>6, <1>7, <1>8, <1>9, <1>10, <1>11, <1>12 DEF TryRecv
<1> QED
  BY <1>13, <1>14, <1>15 DEF Consume

(* So only the part of the invariant about that consumer is at stake.      *)
LEMMA LockStepOf ==
  ASSUME NEW c \in Consumers, TypeOK, LockInv, StepOf(c),
         cpc'[c] # "detached" => cCapacity'[c] = Section,
         cNext'[c] <= nextSeq,
         cpc'[c] \in {"check", "copy"} => cNext'[c] < nextSeq,
         cpc'[c] # "idle" => result'[c] = "none",
         cpc'[c] = "copy" /\ cNext'[c] # FillSeq =>
           \/ slotSeq[Home(cNext'[c])] # cNext'[c]
           \/ \A w \in Words \ cTodo'[c] : copied'[c][w] = <<run, cNext'[c]>>,
         result'[c] = "Record" /\ cNext'[c] - 1 # FillSeq
           => copied'[c] = Whole(run, cNext'[c] - 1)
  PROVE  LockInv'
<1>1. RunInv'
  BY DEF LockInv, RunInv, StepOf, segment, producer
<1>2. SlotInv' /\ FillInv'
  BY DEF StepOf, LockInv, SlotInv, FillInv, Committed, Whole, segment, producer
<1>3. CopyInv'
  BY DEF LockInv, CopyInv, StepOf, segment, producer
<1>4. NoTornRead'
  BY DEF LockInv, NoTornRead, Whole, StepOf, segment, producer
<1> QED
  BY <1>1, <1>2, <1>3, <1>4 DEF LockInv

(* attach and try_recv preserve the invariant: the second check of the     *)
(* sequence word is what turns a finished copy into a whole record.        *)
LEMMA LockConsume ==
  ASSUME NEW c \in Consumers, TypeOK, LockInv, Consume(c)
  PROVE  LockInv'
<1>0. StepOf(c)
  BY ConsumeIsStepOf
<1>inv. /\ cpc[c] # "detached" => cCapacity[c] = Section
        /\ cNext[c] <= nextSeq /\ cursor = nextSeq /\ cursor \in Nat /\ cNext[c] \in Nat
        /\ cpc[c] \in {"check", "copy"} => cNext[c] < nextSeq
        /\ cpc[c] # "idle" => result[c] = "none"
        /\ hdrCapacity \in {0, Section} /\ Section \in Nat \ {0}
  BY SectionAssumption DEF LockInv, RunInv, TypeOK
<1>torn. result[c] = "Record" /\ cNext[c] - 1 # FillSeq
           => copied[c] = Whole(run, cNext[c] - 1)
  BY DEF LockInv, NoTornRead
<1>1. CASE AttachHeader(c)
  BY <1>0, <1>1, <1>inv, <1>torn, LockStepOf DEF AttachHeader, TypeOK
<1>2. CASE AttachBoot(c)
  BY <1>0, <1>2, <1>inv, <1>torn, LockStepOf DEF AttachBoot, TypeOK
<1>3. CASE AttachCursor(c)
  <2>1. cpc'[c] = "idle" /\ result'[c] = "none" /\ cNext'[c] = cursor
        /\ cCapacity'[c] = Section
    BY <1>3, <1>inv DEF AttachCursor, TypeOK
  <2> QED
    BY <1>0, <1>inv, <2>1, LockStepOf
<1>4. CASE RecvBoot(c)
  BY <1>0, <1>4, <1>inv, <1>torn, LockStepOf DEF RecvBoot, TypeOK
<1>5. CASE RecvRestarted(c)
  <2>1. cpc'[c] = "idle" /\ result'[c] = "Restarted" /\ cNext'[c] = cursor
        /\ cCapacity'[c] = Section
    BY <1>5, <1>inv DEF RecvRestarted, Return, TypeOK
  <2> QED
    BY <1>0, <1>inv, <2>1, LockStepOf
<1>6. CASE RecvEmpty(c)
  BY <1>0, <1>6, <1>inv, LockStepOf DEF RecvEmpty, Return, TypeOK
<1>7. CASE RecvLapped(c)
  <2>1. cpc'[c] = "idle" /\ result'[c] = "Lagged" /\ cNext'[c] <= nextSeq
        /\ cCapacity'[c] = Section
    BY <1>7, <1>inv DEF RecvLapped, Return, TypeOK
  <2> QED
    BY <1>0, <1>inv, <2>1, LockStepOf
<1>8. CASE RecvReadable(c)
  BY <1>0, <1>8, <1>inv, <1>torn, LockStepOf DEF RecvReadable, TypeOK
<1>9. CASE RecvCheck(c)
  BY <1>0, <1>9, <1>inv, <1>torn, LockStepOf DEF RecvCheck, TypeOK
<1>10. ASSUME NEW v \in Words, RecvCopy(c, v) PROVE LockInv'
  <2>1. slotSeq[Home(cNext[c])] = cNext[c] /\ cNext[c] # FillSeq
          => slotBody[Home(cNext[c])][v] = <<run, cNext[c]>>
    BY <1>inv, <1>10 DEF LockInv, SlotInv, Committed, Whole, RecvCopy
  <2>2. cNext[c] # FillSeq =>
          \/ slotSeq[Home(cNext[c])] # cNext[c]
          \/ \A w \in Words \ cTodo[c] : copied[c][w] = <<run, cNext[c]>>
    BY <1>10 DEF LockInv, CopyInv, RecvCopy
  <2>3. /\ cpc'[c] = "copy" /\ cpc[c] = "copy" /\ result'[c] = "none"
        /\ cNext'[c] = cNext[c] /\ cCapacity'[c] = Section
        /\ cTodo'[c] = cTodo[c] \ {v}
        /\ copied'[c] = [copied[c] EXCEPT ![v] = slotBody[Home(cNext[c])][v]]
        /\ copied[c] \in [Words -> Nat \X Nat]
    BY <1>10, <1>inv DEF RecvCopy, Home, TypeOK
  <2>4. cNext[c] # FillSeq =>
          \/ slotSeq[Home(cNext[c])] # cNext[c]
          \/ \A w \in Words \ cTodo'[c] : copied'[c][w] = <<run, cNext[c]>>
    BY <2>1, <2>2, <2>3
  <2> QED
    BY <1>0, <1>inv, <2>3, <2>4, LockStepOf
<1>11. CASE RecvRecheck(c)
  <2>1. /\ cpc[c] = "copy" /\ cTodo[c] = {} /\ copied'[c] = copied[c]
        /\ cCapacity'[c] = Section
    BY <1>11, <1>inv DEF RecvRecheck
  <2>2. CASE SeqSeen(c) = cNext[c]
    <3>1. /\ cNext'[c] = cNext[c] + 1 /\ cpc'[c] = "idle" /\ result'[c] = "Record"
          /\ slotSeq[Home(cNext[c])] = cNext[c]
      BY <1>11, <1>inv, <2>1, <2>2 DEF RecvRecheck, Return, SeqSeen, Home, TypeOK
    <3>2. cNext[c] # FillSeq => \A w \in Words : copied[c][w] = <<run, cNext[c]>>
      BY <2>1, <3>1 DEF LockInv, CopyInv
    <3>3. copied[c] \in [Words -> Nat \X Nat]
      BY DEF TypeOK
    <3>4. cNext[c] # FillSeq => copied'[c] = Whole(run, cNext[c])
      BY <2>1, <3>2, <3>3 DEF Whole
    <3>5. cNext'[c] - 1 = cNext[c] /\ cNext'[c] <= nextSeq
      BY <1>inv, <2>1, <3>1
    <3> QED
      BY <1>0, <2>1, <3>1, <3>4, <3>5, LockStepOf
  <2>3. CASE SeqSeen(c) # cNext[c]
    <3>1. cpc'[c] = "reseat" /\ cNext'[c] = cNext[c] /\ result'[c] = "none"
      BY <1>11, <1>inv, <2>1, <2>3 DEF RecvRecheck, TypeOK
    <3> QED
      BY <1>0, <1>inv, <2>1, <3>1, LockStepOf
  <2> QED
    BY <2>2, <2>3
<1>12. CASE Reseat(c)
  <2>1. cpc'[c] = "idle" /\ result'[c] = "Lagged" /\ cNext'[c] <= nextSeq
        /\ cCapacity'[c] = Section
    BY <1>12, <1>inv DEF Reseat, Return, TypeOK
  <2> QED
    BY <1>0, <1>inv, <2>1, LockStepOf
<1>13. CASE Detach(c)
  <2>1. cpc'[c] = "detached" /\ result'[c] = "none" /\ cNext'[c] = 0 /\ 0 <= nextSeq
    BY <1>13, <1>inv DEF Detach, TypeOK
  <2> QED
    BY <1>0, <1>inv, <2>1, LockStepOf
<1>14. CASE Attach(c)
  BY <1>14, <1>1, <1>2, <1>3 DEF Attach
<1>15. CASE TryRecv(c)
  BY <1>15, <1>4, <1>5, <1>6, <1>7, <1>8, <1>9, <1>10, <1>11, <1>12 DEF TryRecv
<1> QED
  BY <1>13, <1>14, <1>15 DEF Consume

(* A run is a behaviour of the section, so it is type correct.             *)
LEMMA RunTypeCorrect == Spec => []TypeOK
<1>1. [RunNext]_vars => [Next]_vars
  BY DEF Next
<1> QED
  BY TypeCorrect, <1>1, PTL DEF Spec, SectionSpec

(* The sequence-lock invariant holds throughout a run.                     *)
LEMMA RunLockInv == Spec => []LockInv
<1>1. TypeOK /\ LockInv /\ [RunNext]_vars => LockInv'
  <2> SUFFICES ASSUME TypeOK, LockInv, [RunNext]_vars PROVE LockInv'
    OBVIOUS
  <2>1. CASE Produce
    BY <2>1, LockClaim, LockFillSeqWord, LockFillBody, LockAbandon, LockCommitSeq,
       LockPublish
    DEF Produce
  <2>2. CASE UNCHANGED vars
    BY <2>2 DEF vars, segment, producer, consumer, LockInv, RunInv, SlotInv, FillInv,
                CopyInv, NoTornRead, Committed, Whole
  <2> QED
    BY <2>1, <2>2, LockCreate, LockConsume DEF RunNext
<1> QED
  BY <1>1, RunTypeCorrect, LockInit, PTL DEF Spec

(* NoTornRead holds of every run: whatever try_recv returns as a Record is *)
(* the whole record its cursor stood at, but for sequence number FillSeq.  *)
THEOREM SequenceLock == Spec => []NoTornRead
<1>1. LockInv => NoTornRead
  BY DEF LockInv
<1> QED
  BY <1>1, RunLockInv, PTL

-----------------------------------------------------------------------------
(***************************************************************************)
(* What Lagged counts is gone.                                             *)
(***************************************************************************)
LapInv ==
  /\ \A s \in Nat :
       s + Section < nextSeq /\ s # FillSeq => slotSeq[Home(s)] # s
  /\ pc = "publish" => slotSeq[Home(nextSeq)] = nextSeq

(* A slot never goes back to the record of an earlier lap.                 *)
LEMMA LapStep ==
  ASSUME TypeOK, LockInv, LapInv, [RunNext]_vars
  PROVE  LapInv'
<1> USE HomeInRange
<1>1. CASE WriteHeader \/ WriteBoot \/ Abandon
  BY <1>1 DEF WriteHeader, WriteBoot, Abandon, LapInv, segment
<1>2. CASE ResetCursor
  BY <1>2 DEF ResetCursor, LapInv, LockInv, RunInv
<1>3. CASE Claim
  <2>1. /\ slotSeq' = [slotSeq EXCEPT ![Home(nextSeq)] = -1]
        /\ nextSeq' = nextSeq /\ pc' = "fill"
    BY <1>3 DEF Claim, LockInv, RunInv, Home, InProgress
  <2> QED
    BY <2>1 DEF LapInv, TypeOK
<1>4. CASE FillSeqWord
  <2>1. /\ slotSeq' = [slotSeq EXCEPT ![Home(nextSeq)] = FillSeq]
        /\ nextSeq' = nextSeq /\ pc' = "fill"
    BY <1>4 DEF FillSeqWord, LockInv, RunInv, Home
  <2> QED
    BY <2>1 DEF LapInv, TypeOK
<1>5. CASE CommitSeq
  <2>1. /\ slotSeq' = [slotSeq EXCEPT ![Home(nextSeq)] = nextSeq]
        /\ nextSeq' = nextSeq
    BY <1>5 DEF CommitSeq, LockInv, RunInv, Home
  <2>2. nextSeq \in Nat /\ Home(nextSeq) \in Slots /\ slotSeq \in [Slots -> Int]
    BY DEF TypeOK
  <2>3. slotSeq'[Home(nextSeq)] = nextSeq
    BY <2>1, <2>2
  <2>4. ASSUME NEW s \in Nat, s + Section < nextSeq, s # FillSeq
        PROVE  slotSeq'[Home(s)] # s
    <3>1. CASE Home(s) = Home(nextSeq)
      BY <2>2, <2>3, <2>4, <3>1, SectionAssumption
    <3>2. CASE Home(s) # Home(nextSeq)
      BY <2>1, <2>2, <2>4, <3>2 DEF LapInv
    <3> QED
      BY <3>1, <3>2
  <2> QED
    BY <2>1, <2>3, <2>4 DEF LapInv
<1>6. CASE Publish
  <2>1. /\ pc = "publish" /\ pc' = "idle" /\ nextSeq' = nextSeq + 1 /\ slotSeq' = slotSeq
        /\ nextSeq \in Nat
    BY <1>6 DEF Publish, TypeOK
  <2>2. ASSUME NEW s \in Nat, s + Section = nextSeq
        PROVE  slotSeq[Home(s)] # s
    <3>1. Home(s) = Home(nextSeq)
      BY <2>2, LapSharesSlot, SectionAssumption DEF Home
    <3> QED
      BY <2>1, <2>2, <3>1, SectionAssumption DEF LapInv
  <2> QED
    BY <2>1, <2>2, SectionAssumption DEF LapInv
<1>7. ASSUME NEW w \in Words, FillBody(w) PROVE LapInv'
  BY <1>7 DEF FillBody, LapInv
<1>8. ASSUME NEW c \in Consumers, Consume(c) PROVE LapInv'
  BY <1>8, ConsumeIsStepOf DEF StepOf, segment, producer, LapInv
<1>9. CASE UNCHANGED vars
  BY <1>9 DEF vars, segment, producer, LapInv
<1> QED
  BY <1>1, <1>2, <1>3, <1>4, <1>5, <1>6, <1>7, <1>8, <1>9
  DEF RunNext, Create, Produce

(* A record that has been lapped is in no slot, throughout a run.          *)
LEMMA RunLapInv == Spec => []LapInv
<1>1. Init => LapInv
  BY SectionAssumption DEF Init, LapInv
<1> QED
  BY <1>1, LapStep, RunTypeCorrect, RunLockInv, PTL DEF Spec

(* LostIsOverwritten holds of every run: Lagged(n) never counts a record   *)
(* that a slot still holds.                                                *)
THEOREM LossesAreReal == Spec => LostIsOverwritten
<1> DEFINE Real == \A c \in Consumers :
                     result'[c] = "Lagged" =>
                       \A s \in cNext[c] .. cNext'[c] - 1 :
                         s # FillSeq => slotSeq[SlotOf(s, cCapacity[c])] # s
<1>1. ASSUME TypeOK, LockInv, LapInv, [RunNext]_vars
      PROVE  [Real]_cNext
  <2>1. CASE UNCHANGED consumer
    BY <2>1 DEF consumer
  <2>2. ASSUME NEW c \in Consumers, Consume(c)
        PROVE  Real
    <3>0. StepOf(c)
      BY <1>1, <2>2, ConsumeIsStepOf
    <3> SUFFICES ASSUME result'[c] = "Lagged",
                        NEW s \in cNext[c] .. cNext'[c] - 1, s # FillSeq
                 PROVE  slotSeq[SlotOf(s, cCapacity[c])] # s
      BY <1>1, <3>0 DEF StepOf, TypeOK
    <3>inv. /\ cNext[c] \in Nat /\ cursor \in Nat /\ cursor = nextSeq
            /\ cpc[c] # "detached" => cCapacity[c] = Section
            /\ cpc[c] # "idle" => result[c] = "none"
            /\ Section \in Nat \ {0}
      BY <1>1, SectionAssumption DEF TypeOK, LockInv, RunInv
    <3>1. CASE RecvLapped(c) \/ Reseat(c)
      <4>1. cpc[c] # "detached" /\ (cNext'[c] = cNext[c] \/ cNext'[c] = cursor - cCapacity[c])
        BY <1>1, <3>1 DEF RecvLapped, Reseat, Return, TypeOK
      <4>2. s \in Nat /\ s + Section < nextSeq
        BY <3>inv, <4>1
      <4> QED
        BY <1>1, <3>inv, <4>1, <4>2 DEF LapInv, Home
    <3>2. CASE RecvEmpty(c) \/ RecvRestarted(c) \/ RecvBoot(c) \/ Detach(c)
      BY <1>1, <3>2 DEF RecvEmpty, RecvRestarted, RecvBoot, Detach, Return, TypeOK
    <3>3. CASE RecvReadable(c) \/ RecvCheck(c) \/ (\E w \in Words : RecvCopy(c, w))
               \/ AttachHeader(c) \/ AttachBoot(c) \/ AttachCursor(c)
      BY <3>inv, <3>3 DEF RecvReadable, RecvCheck, RecvCopy, AttachHeader, AttachBoot,
                          AttachCursor
    <3>4. CASE RecvRecheck(c)
      BY <1>1, <3>inv, <3>4 DEF RecvRecheck, Return, TypeOK
    <3> QED
      BY <2>2, <3>1, <3>2, <3>3, <3>4 DEF Consume, Attach, TryRecv
  <2>3. CASE Create \/ Produce
    BY <2>1, <2>3 DEF Create, Produce, WriteHeader, WriteBoot, ResetCursor, Claim,
                      FillBody, FillSeqWord, Abandon, CommitSeq, Publish
  <2>4. CASE UNCHANGED vars
    BY <2>1, <2>4 DEF vars
  <2> QED
    BY <1>1, <2>2, <2>3, <2>4 DEF RunNext
<1> QED
  BY <1>1, RunTypeCorrect, RunLockInv, RunLapInv, PTL DEF Spec, LostIsOverwritten
=============================================================================

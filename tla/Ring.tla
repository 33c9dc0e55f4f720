--------------------------------- MODULE Ring ---------------------------------
(***************************************************************************)
(* The shared-memory ring of jeed-shm: one producer (RingProducer), any    *)
(* number of independent read-only consumers (RingConsumer), and a segment *)
(* that outlives both.  Every store to and load from shared memory that    *)
(* the other side can observe is a step of its own; the code between two   *)
(* of them runs on private state and belongs to the step before it.        *)
(*                                                                         *)
(* A record is the set Words of its body words plus its producer_seq word, *)
(* which doubles as the slot's sequence lock.  A word's content is         *)
(* abstracted to its stamp <<run, seq>>: which run of the producer wrote   *)
(* it, for which sequence number.  Words of one copy are written and read  *)
(* in any order.  Sequence numbers are u64 that never wrap in practice     *)
(* (ring.rs:38-39) and are naturals here; u64::MAX, the in-progress        *)
(* sentinel, is -1, a value no sequence number takes.                      *)
(***************************************************************************)
EXTENDS Integers

CONSTANTS
  Consumers,   \* the attached processes' RingConsumers
  Words,       \* the words of a record's body
  Section,     \* slots the mapped section has room for: its first capacity
  Capacities,  \* capacities later runs may be configured with
  FillSeq,     \* what fill() leaves in the producer_seq word: 0 in the code
  MaxSeq,      \* bound: records one run publishes
  MaxRuns      \* bound: runs of the producer over the section's life

SeqWord == "producer_seq"

ASSUME SectionAssumption == Section \in Nat \ {0}
ASSUME CapacitiesAssumption ==
  Capacities \subseteq {k \in 1..Section : \E e \in 0..Section : k = 2^e}
ASSUME FillSeqAssumption == FillSeq \in Int
ASSUME WordsAssumption == SeqWord \notin Words
ASSUME BoundAssumption == MaxSeq \in Nat /\ MaxRuns \in Nat

VARIABLES
  \* --- the segment: header (jeed-wire segment.rs) and slots ---------------
  hdrCapacity,  \* header capacity; 0 until the first run has written it
  hdrBoot,      \* header boot_id; 0 until the first run has written it
  cursor,       \* header write_cursor: one past the newest published record
  slotSeq,      \* producer_seq of every slot
  slotBody,     \* body words of every slot
  \* --- RingProducer --------------------------------------------------------
  run,          \* this run's boot_id: runs are numbered from 1
  pc,           \* where the producer is
  capacity,     \* RingProducer.capacity; mask is capacity - 1
  nextSeq,      \* RingProducer.next_seq
  todo,         \* words fill() has still to write into the claimed slot
  \* --- RingConsumer, one of each per consumer ------------------------------
  cpc,          \* where attach or try_recv is
  cCapacity,    \* RingConsumer.capacity
  cBoot,        \* RingConsumer.boot_id
  cNext,        \* RingConsumer.next_seq; `want` inside a call
  bootRead,     \* try_recv's local boot_id
  copied,       \* the caller's output buffer
  cTodo,        \* words the volatile copy has still to read
  result        \* what the last try_recv returned

segment  == <<hdrCapacity, hdrBoot, cursor, slotSeq, slotBody>>
producer == <<run, pc, capacity, nextSeq, todo>>
consumer == <<cpc, cCapacity, cBoot, cNext, bootRead, copied, cTodo, result>>
vars     == <<segment, producer, consumer>>

-----------------------------------------------------------------------------
InProgress  == -1                                  \* SEQ_IN_PROGRESS
Slots       == 0 .. Section - 1
Blank       == [w \in Words |-> <<0, 0>>]          \* a zero-filled body
SlotOf(s, k) == s % k          \* seq & (k - 1), k a power of two

ProducerPC == {"down", "header", "boot", "cursor", "idle", "fill", "publish"}
ConsumerPC == {"detached", "attach_boot", "attach_cursor",
               "idle", "cursor", "check", "copy", "reseat"}
Recv       == {"none", "Record", "Empty", "Lagged", "Restarted"}

Attached(c) == cpc[c] \notin {"detached", "attach_boot", "attach_cursor"}

TypeOK ==
  /\ hdrCapacity \in 0..Section /\ hdrBoot \in Nat /\ cursor \in Nat
  /\ slotSeq  \in [Slots -> Int]
  /\ slotBody \in [Slots -> [Words -> Nat \X Nat]]
  /\ run \in Nat /\ nextSeq \in Nat
  /\ capacity \in 1..Section
  /\ pc \in ProducerPC
  /\ todo \subseteq Words \cup {SeqWord}
  /\ cpc       \in [Consumers -> ConsumerPC]
  /\ cCapacity \in [Consumers -> 0..Section]
  /\ \A c \in Consumers : cpc[c] # "detached" => cCapacity[c] # 0
  /\ cBoot     \in [Consumers -> Nat]
  /\ cNext     \in [Consumers -> Nat]
  /\ bootRead  \in [Consumers -> Nat]
  /\ copied    \in [Consumers -> [Words -> Nat \X Nat]]
  /\ cTodo     \in [Consumers -> SUBSET Words]
  /\ result    \in [Consumers -> Recv]

-----------------------------------------------------------------------------
(***************************************************************************)
(* A new, zero-filled section that the first producer has just mapped, and *)
(* nobody attached.                                                        *)
(***************************************************************************)
Init ==
  /\ hdrCapacity = 0 /\ hdrBoot = 0 /\ cursor = 0
  /\ slotSeq  = [i \in Slots |-> 0]
  /\ slotBody = [i \in Slots |-> Blank]
  /\ run = 1 /\ pc = "header" /\ capacity = Section /\ nextSeq = 0 /\ todo = {}
  /\ cpc       = [c \in Consumers |-> "detached"]
  /\ cCapacity = [c \in Consumers |-> 0]
  /\ cBoot     = [c \in Consumers |-> 0]
  /\ cNext     = [c \in Consumers |-> 0]
  /\ bootRead  = [c \in Consumers |-> 0]
  /\ copied    = [c \in Consumers |-> Blank]
  /\ cTodo     = [c \in Consumers |-> {}]
  /\ result    = [c \in Consumers |-> "none"]

-----------------------------------------------------------------------------
(***************************************************************************)
(* RingProducer::create.  The header constants are stored in declaration   *)
(* order, capacity last of those attach checks, then boot_id, then the     *)
(* write cursor goes back to zero.                                         *)
(***************************************************************************)
WriteHeader ==
  /\ pc = "header"
  /\ hdrCapacity' = capacity
  /\ pc' = "boot"
  /\ UNCHANGED <<hdrBoot, cursor, slotSeq, slotBody, run, capacity, nextSeq, todo>>
  /\ UNCHANGED consumer

\* Mutant: boot_id is left as the previous run wrote it.
WriteBootForgotten ==
  /\ pc = "boot"
  /\ pc' = "cursor"
  /\ UNCHANGED <<segment, run, capacity, nextSeq, todo, consumer>>

WriteBoot ==
  /\ pc = "boot"
  /\ hdrBoot' = run
  /\ pc' = "cursor"
  /\ UNCHANGED <<hdrCapacity, cursor, slotSeq, slotBody, run, capacity, nextSeq, todo>>
  /\ UNCHANGED consumer

ResetCursor ==
  /\ pc = "cursor"
  /\ cursor' = 0
  /\ nextSeq' = 0
  /\ pc' = "idle"
  /\ UNCHANGED <<hdrCapacity, hdrBoot, slotSeq, slotBody, run, capacity, todo>>
  /\ UNCHANGED consumer

\* Mutant: the slot is handed out without the sentinel.
ClaimWithoutSentinel ==
  /\ pc = "idle"
  /\ nextSeq < MaxSeq
  /\ todo' = Words \cup {SeqWord}
  /\ pc' = "fill"
  /\ UNCHANGED <<segment, run, capacity, nextSeq, consumer>>

(***************************************************************************)
(* RingProducer::slot: the sentinel goes in before the reference escapes;  *)
(* the body is still the previous lap's.                                   *)
(***************************************************************************)
Claim ==
  /\ pc = "idle"
  /\ nextSeq < MaxSeq
  /\ slotSeq' = [slotSeq EXCEPT ![SlotOf(nextSeq, capacity)] = InProgress]
  /\ todo' = Words \cup {SeqWord}
  /\ pc' = "fill"
  /\ UNCHANGED <<hdrCapacity, hdrBoot, cursor, slotBody, run, capacity, nextSeq>>
  /\ UNCHANGED consumer

(***************************************************************************)
(* The decoder's `*out = WireRecord::new_*(..)`, one word at a time.  The  *)
(* assignment covers the producer_seq word too.                            *)
(***************************************************************************)
FillBody(w) ==
  /\ pc = "fill" /\ w \in todo \cap Words
  /\ slotBody' = [slotBody EXCEPT ![SlotOf(nextSeq, capacity)] =
                                    [@ EXCEPT ![w] = <<run, nextSeq>>]]
  /\ todo' = todo \ {w}
  /\ UNCHANGED <<hdrCapacity, hdrBoot, cursor, slotSeq, run, pc, capacity, nextSeq>>
  /\ UNCHANGED consumer

FillSeqWord ==
  /\ pc = "fill" /\ SeqWord \in todo
  /\ slotSeq' = [slotSeq EXCEPT ![SlotOf(nextSeq, capacity)] = FillSeq]
  /\ todo' = todo \ {SeqWord}
  /\ UNCHANGED <<hdrCapacity, hdrBoot, cursor, slotBody, run, pc, capacity, nextSeq>>
  /\ UNCHANGED consumer

(***************************************************************************)
(* fill() returned Err: the Slot is dropped without commit.  Neither the   *)
(* slot nor the cursor is touched, and the next claim is of the same slot. *)
(***************************************************************************)
Abandon ==
  /\ pc = "fill"
  /\ todo' = {}
  /\ pc' = "idle"
  /\ UNCHANGED <<segment, run, capacity, nextSeq, consumer>>

(***************************************************************************)
(* Slot::commit: first the sequence word, then next_seq and the cursor.    *)
(***************************************************************************)
CommitSeq ==
  /\ pc = "fill" /\ todo = {}
  /\ slotSeq' = [slotSeq EXCEPT ![SlotOf(nextSeq, capacity)] = nextSeq]
  /\ pc' = "publish"
  /\ UNCHANGED <<hdrCapacity, hdrBoot, cursor, slotBody, run, capacity, nextSeq, todo>>
  /\ UNCHANGED consumer

Publish ==
  /\ pc = "publish"
  /\ nextSeq' = nextSeq + 1
  /\ cursor' = nextSeq + 1
  /\ pc' = "idle"
  /\ UNCHANGED <<hdrCapacity, hdrBoot, slotSeq, slotBody, run, capacity, todo>>
  /\ UNCHANGED consumer

(***************************************************************************)
(* The producer process ends, at any point.  The section stays: a consumer *)
(* holds it open, and a POSIX object has no owner to die with.  A later    *)
(* process maps it again with a new boot_id; its capacity must fit what is *)
(* mapped (SegmentTooSmall otherwise), and the old records stay in place.  *)
(***************************************************************************)
Crash ==
  /\ pc # "down"
  /\ pc' = "down" /\ todo' = {}
  /\ UNCHANGED <<segment, run, capacity, nextSeq, consumer>>

Restart(k) ==
  /\ pc = "down"
  /\ run < MaxRuns
  /\ k <= Section
  /\ run' = run + 1
  /\ capacity' = k
  /\ pc' = "header"
  /\ UNCHANGED <<segment, nextSeq, todo, consumer>>

-----------------------------------------------------------------------------
(***************************************************************************)
(* RingConsumer::attach.  A header whose constants are not all in place is *)
(* refused (the caller tries again); then boot_id and the cursor are read, *)
(* in that order.                                                          *)
(***************************************************************************)
AttachHeader(c) ==
  /\ cpc[c] = "detached"
  /\ hdrCapacity # 0
  /\ cCapacity' = [cCapacity EXCEPT ![c] = hdrCapacity]
  /\ cpc' = [cpc EXCEPT ![c] = "attach_boot"]
  /\ UNCHANGED <<segment, producer, cBoot, cNext, bootRead, copied, cTodo, result>>

AttachBoot(c) ==
  /\ cpc[c] = "attach_boot"
  /\ cBoot' = [cBoot EXCEPT ![c] = hdrBoot]
  /\ cpc' = [cpc EXCEPT ![c] = "attach_cursor"]
  /\ UNCHANGED <<segment, producer, cCapacity, cNext, bootRead, copied, cTodo, result>>

\* Mutant: a new consumer starts at the oldest record, not at the live edge.
AttachOldest(c) ==
  /\ cpc[c] = "attach_cursor"
  /\ cNext' = [cNext EXCEPT ![c] = IF cursor > cCapacity[c] THEN cursor - cCapacity[c] ELSE 0]
  /\ cpc' = [cpc EXCEPT ![c] = "idle"]
  /\ UNCHANGED <<segment, producer, cCapacity, cBoot, bootRead, copied, cTodo, result>>

AttachCursor(c) ==
  /\ cpc[c] = "attach_cursor"
  /\ cNext' = [cNext EXCEPT ![c] = cursor]
  /\ cpc' = [cpc EXCEPT ![c] = "idle"]
  /\ UNCHANGED <<segment, producer, cCapacity, cBoot, bootRead, copied, cTodo, result>>

(***************************************************************************)
(* RingConsumer::try_recv: boot_id first, the cursor second, everything    *)
(* else decided on those two values.                                       *)
(***************************************************************************)
RecvBoot(c) ==
  /\ cpc[c] = "idle"
  /\ bootRead' = [bootRead EXCEPT ![c] = hdrBoot]
  /\ cpc' = [cpc EXCEPT ![c] = "cursor"]
  /\ result' = [result EXCEPT ![c] = "none"]
  /\ copied' = [copied EXCEPT ![c] = Blank]
  /\ UNCHANGED <<segment, producer, cCapacity, cBoot, cNext, cTodo>>

\* Ends the call of consumer c: its cursor becomes n and it returns r.
Return(c, n, r) ==
  /\ cNext' = [cNext EXCEPT ![c] = n]
  /\ result' = [result EXCEPT ![c] = r]
  /\ cpc' = [cpc EXCEPT ![c] = "idle"]

RecvRestarted(c) ==
  /\ cpc[c] = "cursor"
  /\ bootRead[c] # cBoot[c]
  /\ cBoot' = [cBoot EXCEPT ![c] = bootRead[c]]
  /\ Return(c, cursor, "Restarted")
  /\ UNCHANGED <<segment, producer, cCapacity, bootRead, copied, cTodo>>

RecvEmpty(c) ==
  /\ cpc[c] = "cursor"
  /\ bootRead[c] = cBoot[c]
  /\ cNext[c] >= cursor
  /\ Return(c, cNext[c], "Empty")
  /\ UNCHANGED <<segment, producer, cCapacity, cBoot, bootRead, copied, cTodo>>

\* Mutants: the jump goes one too far; the jump goes to the live edge.
RecvLappedTooFar(c) ==
  /\ cpc[c] = "cursor"
  /\ bootRead[c] = cBoot[c]
  /\ cursor - cNext[c] > cCapacity[c]
  /\ Return(c, cursor - cCapacity[c] + 1, "Lagged")
  /\ UNCHANGED <<segment, producer, cCapacity, cBoot, bootRead, copied, cTodo>>

RecvLappedToLiveEdge(c) ==
  /\ cpc[c] = "cursor"
  /\ bootRead[c] = cBoot[c]
  /\ cursor - cNext[c] > cCapacity[c]
  /\ Return(c, cursor, "Lagged")
  /\ UNCHANGED <<segment, producer, cCapacity, cBoot, bootRead, copied, cTodo>>

RecvLapped(c) ==
  /\ cpc[c] = "cursor"
  /\ bootRead[c] = cBoot[c]
  /\ cursor - cNext[c] > cCapacity[c]
  /\ Return(c, cursor - cCapacity[c], "Lagged")
  /\ UNCHANGED <<segment, producer, cCapacity, cBoot, bootRead, copied, cTodo>>

RecvReadable(c) ==
  /\ cpc[c] = "cursor"
  /\ bootRead[c] = cBoot[c]
  /\ cNext[c] < cursor
  /\ cursor - cNext[c] <= cCapacity[c]
  /\ cpc' = [cpc EXCEPT ![c] = "check"]
  /\ UNCHANGED <<segment, producer, cCapacity, cBoot, cNext, bootRead, copied, cTodo, result>>

\* The sequence word of the slot consumer c wants, as it is now.
SeqSeen(c) == slotSeq[SlotOf(cNext[c], cCapacity[c])]

\* Mutant: a lost race is retried on the same slot instead of re-seated.
RecvCheckSpins(c) ==
  /\ cpc[c] = "check"
  /\ SeqSeen(c) = cNext[c]
  /\ cTodo' = [cTodo EXCEPT ![c] = Words]
  /\ cpc' = [cpc EXCEPT ![c] = "copy"]
  /\ UNCHANGED <<segment, producer, cCapacity, cBoot, cNext, bootRead, copied, result>>

RecvCheck(c) ==
  /\ cpc[c] = "check"
  /\ \/ /\ SeqSeen(c) = cNext[c]
        /\ cTodo' = [cTodo EXCEPT ![c] = Words]
        /\ cpc' = [cpc EXCEPT ![c] = "copy"]
     \/ /\ SeqSeen(c) # cNext[c]
        /\ cpc' = [cpc EXCEPT ![c] = "reseat"]
        /\ UNCHANGED cTodo
  /\ UNCHANGED <<segment, producer, cCapacity, cBoot, cNext, bootRead, copied, result>>

RecvCopy(c, w) ==
  /\ cpc[c] = "copy" /\ w \in cTodo[c]
  /\ copied' = [copied EXCEPT ![c] =
                  [@ EXCEPT ![w] = slotBody[SlotOf(cNext[c], cCapacity[c])][w]]]
  /\ cTodo' = [cTodo EXCEPT ![c] = @ \ {w}]
  /\ UNCHANGED <<segment, producer, cpc, cCapacity, cBoot, cNext, bootRead, result>>

RecvRecheck(c) ==
  /\ cpc[c] = "copy" /\ cTodo[c] = {}
  /\ \/ /\ SeqSeen(c) = cNext[c]
        /\ Return(c, cNext[c] + 1, "Record")
     \/ /\ SeqSeen(c) # cNext[c]
        /\ cpc' = [cpc EXCEPT ![c] = "reseat"]
        /\ UNCHANGED <<cNext, result>>
  /\ UNCHANGED <<segment, producer, cCapacity, cBoot, bootRead, copied, cTodo>>

\* Mutant: the subtraction does not saturate.
ReseatUnsaturated(c) ==
  /\ cpc[c] = "reseat"
  /\ Return(c, cursor - cCapacity[c], "Lagged")
  /\ UNCHANGED <<segment, producer, cCapacity, cBoot, bootRead, copied, cTodo>>

\* reseat: re-reads the cursor; never moves backwards.
Reseat(c) ==
  /\ cpc[c] = "reseat"
  /\ Return(c, IF cursor - cCapacity[c] > cNext[c]
               THEN cursor - cCapacity[c] ELSE cNext[c], "Lagged")
  /\ UNCHANGED <<segment, producer, cCapacity, cBoot, bootRead, copied, cTodo>>

\* The consumer process ends, or drops its RingConsumer: a read-only mapping,
\* so the segment is not touched.
Detach(c) ==
  /\ cpc[c] # "detached"
  /\ cpc' = [cpc EXCEPT ![c] = "detached"]
  /\ cNext' = [cNext EXCEPT ![c] = 0]
  /\ cBoot' = [cBoot EXCEPT ![c] = 0]
  /\ bootRead' = [bootRead EXCEPT ![c] = 0]
  /\ cCapacity' = [cCapacity EXCEPT ![c] = 0]
  /\ copied' = [copied EXCEPT ![c] = Blank]
  /\ cTodo' = [cTodo EXCEPT ![c] = {}]
  /\ result' = [result EXCEPT ![c] = "none"]
  /\ UNCHANGED <<segment, producer>>

-----------------------------------------------------------------------------
Create == WriteHeader \/ WriteBoot \/ ResetCursor

Produce ==
  \/ Claim \/ FillSeqWord \/ Abandon \/ CommitSeq \/ Publish
  \/ \E w \in Words : FillBody(w)

Attach(c) == AttachHeader(c) \/ AttachBoot(c) \/ AttachCursor(c)

TryRecv(c) ==
  \/ RecvBoot(c) \/ RecvRestarted(c) \/ RecvEmpty(c) \/ RecvLapped(c)
  \/ RecvReadable(c) \/ RecvCheck(c) \/ RecvRecheck(c) \/ Reseat(c)
  \/ \E w \in Words : RecvCopy(c, w)

Consume(c) == Attach(c) \/ TryRecv(c) \/ Detach(c)

(* One run of the producer, from the mapping of a new section on.          *)
RunNext == Create \/ Produce \/ (\E c \in Consumers : Consume(c))

Spec == Init /\ [][RunNext]_vars

(* The life of the section: runs end and others take over.                 *)
Next == RunNext \/ Crash \/ (\E k \in Capacities : Restart(k))

SectionSpec == Init /\ [][Next]_vars

(***************************************************************************)
(* Fairness.  The receive thread is a loop that blocks only for a bounded  *)
(* poll timeout, so it keeps taking steps; a consumer that is attached     *)
(* keeps polling.  Nobody owes an attach or a detach.                      *)
(***************************************************************************)
Fairness ==
  /\ WF_vars(Create)
  /\ WF_vars(Produce)
  /\ \A c \in Consumers : WF_vars(TryRecv(c) \/ AttachBoot(c) \/ AttachCursor(c))

FairSpec == Spec /\ Fairness

-----------------------------------------------------------------------------
(***************************************************************************)
(* Properties of one run.                                                  *)
(***************************************************************************)

\* The record of sequence s as run r writes it.
Whole(r, s) == [w \in Words |-> <<r, s>>]

(* A call that returns Record has copied one whole record, the one its     *)
(* cursor stood at, however the copy interleaves with overwriting, with    *)
(* abandoned claims and with other laps: the sequence lock of ring.rs.     *)
(* The sequence number fill() leaves in the lock word is not protected.    *)
NoTornRead ==
  \A c \in Consumers :
    result[c] = "Record" /\ cNext[c] - 1 # FillSeq
      => copied[c] = Whole(run, cNext[c] - 1)

(* The same without the exception: what consumer.rs:144 says of try_recv,  *)
(* "the sequence lock rules out a torn read".                              *)
SequenceLockRulesOutTornRead ==
  \A c \in Consumers :
    result[c] = "Record" => copied[c] = Whole(run, cNext[c] - 1)

(* A record is counted in Lagged(n) only when it is gone: no slot holds it *)
(* at the moment the cursor jumps over it.                                 *)
LostIsOverwritten ==
  [][\A c \in Consumers :
       result'[c] = "Lagged" =>
         \A s \in cNext[c] .. cNext'[c] - 1 :
           s # FillSeq => slotSeq[SlotOf(s, cCapacity[c])] # s]_cNext

(* One run of the ring is a LossyLog of its capacity: no record is skipped *)
(* but by Lagged, and then exactly the lapped ones; none is repeated; a    *)
(* consumer is told Restarted at most once in a run.                       *)
Log == INSTANCE LossyLog WITH
  Readers <- Consumers,
  Lap     <- Section,
  Unsafe  <- FillSeq,
  len     <- cursor,
  pos     <- [c \in Consumers |-> IF Attached(c) THEN cNext[c] ELSE -1],
  known   <- [c \in Consumers |-> Attached(c) /\ cBoot[c] = run],
  got     <- [c \in Consumers |-> IF result[c] = "Record" THEN copied[c] ELSE Blank]

ImplementsLog == Log!Spec

(* As long as the producer goes on publishing (its heartbeats see to that) *)
(* a polling consumer gets past every published record: no Lagged(0) loop  *)
(* is endless, not even on a slot whose claim was abandoned.               *)
PublishingContinues == []<>(pc = "publish" \/ nextSeq = MaxSeq)

CatchUp ==
  PublishingContinues =>
    \A c \in Consumers : \A s \in 0 .. MaxSeq - 1 :
      (Attached(c) /\ s < cursor) ~> (~Attached(c) \/ cNext[c] > s)

-----------------------------------------------------------------------------
(***************************************************************************)
(* Properties of the section over several runs.                            *)
(***************************************************************************)

(* A call that returns Record while the header still carries the boot_id   *)
(* the consumer knows has copied a whole record of that run.  So a record  *)
(* of another run, or one torn by a restart in the middle of a call, can   *)
(* only be the last one before the Restarted the next call returns.        *)
RecordOfKnownRun ==
  \A c \in Consumers :
    result[c] = "Record" /\ hdrBoot = cBoot[c] /\ cNext[c] - 1 # FillSeq
      => copied[c] = Whole(cBoot[c], cNext[c] - 1)

(* The old run's records are left in place by create because "nothing can  *)
(* read them" (producer.rs:40-43): a consumer that knows of the new run is *)
(* never given one.                                                        *)
OldRecordsUnreadable ==
  \A c \in Consumers :
    result[c] = "Record" => \A w \in Words : copied[c][w][1] >= cBoot[c]

(* Restarted has re-seated the cursor "at the new run's live edge"         *)
(* (consumer.rs:31-32): a consumer that knows the current run does not     *)
(* wait for a sequence number beyond the one the run writes next.          *)
RestartedAtLiveEdge ==
  \A c \in Consumers :
    Attached(c) /\ cBoot[c] = run /\ pc \in {"idle", "fill", "publish"}
      => cNext[c] <= nextSeq
=============================================================================

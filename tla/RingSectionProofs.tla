-------------------------- MODULE RingSectionProofs --------------------------
(***************************************************************************)
(* The section over several runs of the producer, crashes at any point and *)
(* restarts: what a consumer that knows a run can be given.  The runs have *)
(* one capacity, that of the section; with two the property fails.         *)
(***************************************************************************)
EXTENDS RingProofs

\* The capacity of a later run is the one the section was made for.
OneCapacity == Capacities \subseteq {Section}

\* Every word of slot i is of run b or of a later one.
Fresh(b, i) == \A w \in Words : slotBody[i][w][1] >= b

\* The records whose sequence word this cursor's run has stored.
Stored(s) == s < cursor \/ (s = nextSeq /\ pc = "publish")

(***************************************************************************)
(* g is the run that last reset the write cursor.  A crash between the     *)
(* store of boot_id and the reset leaves the cursor of an older run beside *)
(* the boot_id of a newer one, so g cannot be read off the state.          *)
(***************************************************************************)
EpochInv(g) ==
  /\ g <= hdrBoot /\ hdrBoot <= run
  /\ pc \in {"header", "boot"} => hdrBoot < run
  /\ pc \in {"cursor", "idle", "fill", "publish"} => hdrBoot = run
  /\ pc = "cursor" => g < run
  /\ pc \in {"idle", "fill", "publish"} => g = run /\ cursor = nextSeq
  /\ capacity = Section /\ hdrCapacity \in {0, Section}

\* Behind the cursor every slot has been written by run g, and one whose lock
\* word shows a number behind the cursor holds that record of run g.
SlotsInv(g) ==
  /\ \A s \in Nat : Stored(s) => Fresh(g, Home(s))
  /\ \A s \in Nat : Stored(s) /\ s # FillSeq /\ slotSeq[Home(s)] = s
                      => slotBody[Home(s)] = Whole(g, s)
  /\ FillInv

\* A consumer that knows a run whose cursor is not yet in place has nothing
\* to read; any other reads slots its run or a later one has written.
ReaderInv(g, c) ==
  /\ cBoot[c] <= hdrBoot /\ bootRead[c] <= hdrBoot
  /\ cpc[c] # "detached" => cCapacity[c] = Section
  /\ cpc[c] # "idle" => result[c] = "none"
  /\ Attached(c) /\ cBoot[c] > g => cpc[c] \in {"idle", "cursor"} /\ cNext[c] >= cursor
  /\ cpc[c] \in {"check", "copy"} =>
       /\ Fresh(cBoot[c], Home(cNext[c]))
       /\ cBoot[c] = g => cNext[c] < cursor

\* What has been copied so far, and what was returned.
CopiedInv(c) ==
  /\ cpc[c] = "copy" => \A w \in Words \ cTodo[c] : copied[c][w][1] >= cBoot[c]
  /\ cpc[c] = "copy" /\ hdrBoot = cBoot[c] /\ cNext[c] # FillSeq =>
       \/ slotSeq[Home(cNext[c])] # cNext[c]
       \/ \A w \in Words \ cTodo[c] : copied[c][w] = <<cBoot[c], cNext[c]>>
  /\ result[c] = "Record" => \A w \in Words : copied[c][w][1] >= cBoot[c]
  /\ result[c] = "Record" /\ hdrBoot = cBoot[c] /\ cNext[c] - 1 # FillSeq
       => copied[c] = Whole(cBoot[c], cNext[c] - 1)

Epoch(g) == EpochInv(g) /\ SlotsInv(g) /\ \A c \in Consumers : ReaderInv(g, c) /\ CopiedInv(c)

SectionInv == \E g \in Nat : Epoch(g)

-----------------------------------------------------------------------------
(* In a new section no run has reset the cursor, and nobody is attached.   *)
LEMMA SectionInit == Init => Epoch(0)
<1> SUFFICES ASSUME Init PROVE Epoch(0)
  OBVIOUS
<1>1. EpochInv(0) /\ SlotsInv(0)
  BY DEF Init, EpochInv, SlotsInv, FillInv, Stored
<1>2. ASSUME NEW c \in Consumers PROVE ReaderInv(0, c) /\ CopiedInv(c)
  BY <1>2 DEF Init, ReaderInv, CopiedInv, Attached
<1> QED
  BY <1>1, <1>2 DEF Epoch

(* The stores of create: until the cursor is reset the epoch is the old    *)
(* one, and by then nobody trusts a record of it.                          *)
LEMMA SectionCreate ==
  ASSUME NEW g \in Nat, TypeOK, Epoch(g), Create
  PROVE  SectionInv'
<1>ty. /\ run \in Nat /\ hdrBoot \in Nat /\ cBoot \in [Consumers -> Nat] /\ cursor \in Nat
       /\ cNext \in [Consumers -> Nat] /\ bootRead \in [Consumers -> Nat]
  BY DEF TypeOK
<1>1. CASE WriteHeader
  <2>1. EpochInv(g)' /\ SlotsInv(g)'
    BY <1>1 DEF WriteHeader, Epoch, EpochInv, SlotsInv, FillInv, Stored, Fresh, Whole
  <2>2. ASSUME NEW c \in Consumers PROVE ReaderInv(g, c)' /\ CopiedInv(c)'
    BY <1>1, <2>2 DEF WriteHeader, Epoch, ReaderInv, CopiedInv, Attached, Fresh, Whole, consumer
  <2> QED
    BY <2>1, <2>2 DEF Epoch, SectionInv
<1>2. CASE WriteBoot
  <2>1. EpochInv(g)' /\ SlotsInv(g)'
    BY <1>2, <1>ty DEF WriteBoot, Epoch, EpochInv, SlotsInv, FillInv, Stored, Fresh, Whole
  <2>2. ASSUME NEW c \in Consumers PROVE ReaderInv(g, c)' /\ CopiedInv(c)'
    <3>1. /\ cBoot[c] <= hdrBoot /\ bootRead[c] <= hdrBoot /\ hdrBoot < run /\ hdrBoot' = run
      BY <1>2, <2>2 DEF WriteBoot, Epoch, EpochInv, ReaderInv
    <3>2. ReaderInv(g, c)'
      BY <1>2, <2>2, <3>1, <1>ty DEF WriteBoot, Epoch, ReaderInv, Attached, Fresh, consumer
    <3>3. CopiedInv(c)'
      BY <1>2, <2>2, <3>1, <1>ty DEF WriteBoot, Epoch, CopiedInv, consumer
    <3> QED
      BY <3>2, <3>3
  <2> QED
    BY <2>1, <2>2 DEF Epoch, SectionInv
<1>3. CASE ResetCursor
  <2>1. EpochInv(run)' /\ SlotsInv(run)'
    BY <1>3, <1>ty DEF ResetCursor, Epoch, EpochInv, SlotsInv, FillInv, Stored
  <2>2. ASSUME NEW c \in Consumers PROVE ReaderInv(run, c)' /\ CopiedInv(c)'
    <3>1. /\ cBoot[c] <= run /\ hdrBoot = run
          /\ cpc[c] \in {"check", "copy"} => cBoot[c] # run
      BY <1>3, <2>2, <1>ty DEF ResetCursor, Epoch, EpochInv, ReaderInv, Attached
    <3>2. ReaderInv(run, c)'
      BY <1>3, <2>2, <3>1, <1>ty DEF ResetCursor, Epoch, ReaderInv, Attached, Fresh, consumer
    <3>3. CopiedInv(c)'
      BY <1>3, <2>2, <3>1, <1>ty DEF ResetCursor, Epoch, CopiedInv, Whole, consumer
    <3> QED
      BY <3>2, <3>3
  <2> QED
    BY <1>3, <1>ty, <2>1, <2>2 DEF Epoch, SectionInv, ResetCursor
<1> QED
  BY <1>1, <1>2, <1>3 DEF Create

(* Claiming, filling and committing a slot: the body is of this run before *)
(* the cursor passes the slot, and the lock word shows no number a reader  *)
(* of this run could be copying until it is.                               *)
LEMMA SectionProduce ==
  ASSUME NEW g \in Nat, TypeOK, Epoch(g), Produce
  PROVE  SectionInv'
<1> DEFINE i == Home(nextSeq)
<1>ty. /\ run \in Nat /\ hdrBoot \in Nat /\ cBoot \in [Consumers -> Nat] /\ cursor \in Nat
       /\ cNext \in [Consumers -> Nat] /\ nextSeq \in Nat /\ i \in Slots
       /\ slotSeq \in [Slots -> Int] /\ slotBody \in [Slots -> [Words -> Nat \X Nat]]
  BY HomeInRange DEF TypeOK
<1>run. g = run /\ cursor = nextSeq /\ hdrBoot = run /\ capacity = Section
        /\ pc \in {"idle", "fill", "publish"} /\ hdrCapacity \in {0, Section}
  BY DEF Produce, Claim, FillBody, FillSeqWord, Abandon, CommitSeq, Publish, Epoch, EpochInv
<1>same. UNCHANGED <<consumer, run, hdrBoot, hdrCapacity, capacity>>
  BY DEF Produce, Claim, FillBody, FillSeqWord, Abandon, CommitSeq, Publish, segment
<1>reader. ASSUME NEW c \in Consumers, cursor' \in Nat, cursor' >= cursor,
                  cpc[c] \in {"check", "copy"} => Fresh(cBoot[c], Home(cNext[c]))'
           PROVE  ReaderInv(g, c)'
  BY <1>reader, <1>same, <1>run, <1>ty DEF Epoch, ReaderInv, Attached, consumer
<1>copied. ASSUME NEW c \in Consumers,
                  cpc[c] = "copy" /\ hdrBoot = cBoot[c] /\ cNext[c] # FillSeq =>
                    (slotSeq[Home(cNext[c])] # cNext[c] => slotSeq'[Home(cNext[c])] # cNext[c])
           PROVE  CopiedInv(c)'
  BY <1>copied, <1>same DEF Epoch, CopiedInv, Whole, consumer
<1>behind. ASSUME NEW c \in Consumers, cpc[c] = "copy", hdrBoot = cBoot[c]
           PROVE  cNext[c] < nextSeq
  BY <1>behind, <1>run DEF Epoch, ReaderInv
<1> HIDE DEF i
<1>1. CASE Claim \/ FillSeqWord
  <2>1. PICK v \in {InProgress, FillSeq} : slotSeq' = [slotSeq EXCEPT ![i] = v]
    BY <1>1, <1>run DEF Claim, FillSeqWord, Home, i
  <2>2. UNCHANGED <<cursor, slotBody, nextSeq>> /\ pc' = "fill" /\ todo \cup {SeqWord} \subseteq todo' \cup {SeqWord}
    BY <1>1 DEF Claim, FillSeqWord, TypeOK
  <2>3. EpochInv(g)'
    BY <1>run, <1>same, <2>2 DEF Epoch, EpochInv
  <2>4. SlotsInv(g)'
    <3>1. ASSUME NEW s \in Nat, s < cursor, s # FillSeq, slotSeq'[Home(s)] = s
          PROVE  slotBody[Home(s)] = Whole(g, s)
      <4>1. Home(s) # i
        BY <2>1, <3>1, <1>ty, FillSeqAssumption DEF InProgress
      <4> QED
        BY <2>1, <3>1, <4>1, <1>ty, HomeInRange DEF Epoch, SlotsInv, Stored
    <3>2. \A s \in Nat : s < cursor => Fresh(g, Home(s))'
      BY <2>2 DEF Epoch, SlotsInv, Stored, Fresh
    <3>3. slotSeq'[i] \in {InProgress, FillSeq}
      BY <2>1, <1>ty
    <3>4. ASSUME NEW w \in Words \ todo' PROVE slotBody[i][w] = <<run, nextSeq>>
      BY <1>1, <3>4, WordsAssumption DEF Claim, FillSeqWord, Epoch, SlotsInv, FillInv, i
    <3> QED
      BY <2>2, <3>1, <3>2, <3>3, <3>4, <1>same DEF SlotsInv, Stored, FillInv, Whole, i
  <2>5. ASSUME NEW c \in Consumers PROVE ReaderInv(g, c)' /\ CopiedInv(c)'
    <3>1. ReaderInv(g, c)'
      BY <1>reader, <2>2, <2>5, <1>ty, <1>same DEF Epoch, ReaderInv, Fresh, consumer
    <3>2. CopiedInv(c)'
      <4>1. ASSUME cpc[c] = "copy", cNext[c] # FillSeq, slotSeq[Home(cNext[c])] # cNext[c]
            PROVE  slotSeq'[Home(cNext[c])] # cNext[c]
        BY <2>1, <2>5, <4>1, <1>ty, HomeInRange DEF InProgress
      <4> QED
        BY <1>copied, <2>5, <4>1
    <3> QED
      BY <3>1, <3>2
  <2> QED
    BY <2>3, <2>4, <2>5 DEF Epoch, SectionInv
<1>2. ASSUME NEW v \in Words, FillBody(v) PROVE SectionInv'
  <2>1. /\ UNCHANGED <<cursor, slotSeq, nextSeq, pc>> /\ todo' = todo \ {v} /\ pc = "fill"
        /\ slotBody' = [slotBody EXCEPT ![i] = [@ EXCEPT ![v] = <<run, nextSeq>>]]
    BY <1>2, <1>run DEF FillBody, Home, i
  <2>2. ASSUME NEW b \in Nat, b <= run, NEW s \in Nat, Fresh(b, Home(s))
        PROVE  Fresh(b, Home(s))'
    BY <2>1, <2>2, <1>ty, HomeInRange DEF Fresh
  <2>3. EpochInv(g)'
    BY <1>run, <1>same, <2>1 DEF Epoch, EpochInv
  <2>4. SlotsInv(g)'
    <3>1. ASSUME NEW s \in Nat, s < cursor, s # FillSeq, slotSeq[Home(s)] = s
          PROVE  slotBody'[Home(s)] = Whole(g, s)
      <4>1. Home(s) # i
        BY <2>1, <3>1, <1>ty DEF Epoch, SlotsInv, FillInv, InProgress, i
      <4> QED
        BY <2>1, <3>1, <4>1, <1>ty, HomeInRange DEF Epoch, SlotsInv, Stored
    <3>2. \A s \in Nat : s < cursor => Fresh(g, Home(s))'
      BY <2>2, <1>run, <1>ty DEF Epoch, SlotsInv, Stored
    <3>3. ASSUME NEW w \in Words \ todo' PROVE slotBody'[i][w] = <<run, nextSeq>>
      BY <2>1, <3>3, <1>ty DEF Epoch, SlotsInv, FillInv, i
    <3> QED
      BY <2>1, <3>1, <3>2, <3>3, <1>same DEF Epoch, SlotsInv, Stored, FillInv, Whole, i
  <2>5. ASSUME NEW c \in Consumers PROVE ReaderInv(g, c)' /\ CopiedInv(c)'
    <3>1. cBoot[c] <= run
      BY <1>run, <2>5 DEF Epoch, ReaderInv
    <3>2. cpc[c] \in {"check", "copy"} => Fresh(cBoot[c], Home(cNext[c]))'
      <4>1. ASSUME cpc[c] \in {"check", "copy"} PROVE Fresh(cBoot[c], Home(cNext[c]))'
        <5>1. Fresh(cBoot[c], Home(cNext[c]))
          BY <2>5, <4>1 DEF Epoch, ReaderInv
        <5> QED
          BY <2>1, <2>5, <3>1, <5>1, <1>ty, <1>same, HomeInRange DEF Fresh, consumer
      <4> QED
        BY <4>1
    <3> QED
      BY <1>reader, <1>copied, <2>1, <2>5, <3>2, <1>ty
  <2> QED
    BY <2>3, <2>4, <2>5 DEF Epoch, SectionInv
<1>3. CASE Abandon
  <2>1. UNCHANGED <<cursor, slotSeq, slotBody, nextSeq>> /\ pc' = "idle" /\ pc = "fill"
    BY <1>3 DEF Abandon, segment
  <2>2. EpochInv(g)'
    BY <1>run, <1>same, <2>1 DEF Epoch, EpochInv
  <2>3. SlotsInv(g)'
    BY <2>1 DEF Epoch, SlotsInv, Stored, FillInv, Fresh, Whole
  <2>4. ASSUME NEW c \in Consumers PROVE ReaderInv(g, c)' /\ CopiedInv(c)'
    BY <1>reader, <1>copied, <2>1, <2>4, <1>ty, <1>same DEF Epoch, ReaderInv, Fresh, consumer
  <2> QED
    BY <2>2, <2>3, <2>4 DEF Epoch, SectionInv
<1>4. CASE CommitSeq
  <2>1. /\ UNCHANGED <<cursor, slotBody, nextSeq>> /\ pc' = "publish" /\ pc = "fill" /\ todo = {}
        /\ slotSeq' = [slotSeq EXCEPT ![i] = nextSeq]
    BY <1>4, <1>run DEF CommitSeq, Home, i
  <2>2. slotBody[i] = Whole(run, nextSeq) /\ Fresh(run, i)
    <3>1. \A w \in Words : slotBody[i][w] = <<run, nextSeq>>
      BY <2>1 DEF Epoch, SlotsInv, FillInv, i
    <3> QED
      BY <3>1, <1>ty DEF Whole, Fresh
  <2>3. EpochInv(g)'
    BY <1>run, <1>same, <2>1 DEF Epoch, EpochInv
  <2>4. SlotsInv(g)'
    <3>1. ASSUME NEW s \in Nat, s < cursor, s # FillSeq, slotSeq'[Home(s)] = s
          PROVE  slotBody[Home(s)] = Whole(g, s)
      <4>1. Home(s) # i
        BY <2>1, <3>1, <1>ty, <1>run
      <4> QED
        BY <2>1, <3>1, <4>1, <1>ty, HomeInRange DEF Epoch, SlotsInv, Stored
    <3>2. \A s \in Nat : s < cursor => Fresh(g, Home(s))
      BY DEF Epoch, SlotsInv, Stored
    <3> QED
      BY <2>1, <2>2, <3>1, <3>2, <1>run DEF SlotsInv, Stored, FillInv, Whole, Fresh, i
  <2>5. ASSUME NEW c \in Consumers PROVE ReaderInv(g, c)' /\ CopiedInv(c)'
    <3>1. ReaderInv(g, c)'
      BY <1>reader, <2>1, <2>5, <1>ty, <1>same DEF Epoch, ReaderInv, Fresh, consumer
    <3>2. CopiedInv(c)'
      <4>1. ASSUME cpc[c] = "copy", hdrBoot = cBoot[c], slotSeq[Home(cNext[c])] # cNext[c]
            PROVE  slotSeq'[Home(cNext[c])] # cNext[c]
        <5>1. cNext[c] < nextSeq
          BY <1>behind, <2>5, <4>1
        <5> QED
          BY <2>1, <2>5, <4>1, <5>1, <1>ty, HomeInRange
      <4> QED
        BY <1>copied, <2>5, <4>1
    <3> QED
      BY <3>1, <3>2
  <2> QED
    BY <2>3, <2>4, <2>5 DEF Epoch, SectionInv
<1>5. CASE Publish
  <2>1. /\ UNCHANGED <<slotSeq, slotBody>> /\ pc' = "idle" /\ pc = "publish"
        /\ nextSeq' = nextSeq + 1 /\ cursor' = nextSeq + 1
    BY <1>5 DEF Publish
  <2>2. EpochInv(g)'
    BY <1>run, <1>same, <2>1 DEF Epoch, EpochInv
  <2>3. SlotsInv(g)'
    <3>1. \A s \in Nat : Stored(s)' => Stored(s)
      BY <2>1, <1>run, <1>ty DEF Stored
    <3> QED
      BY <2>1, <3>1 DEF Epoch, SlotsInv, FillInv, Fresh, Whole
  <2>4. ASSUME NEW c \in Consumers PROVE ReaderInv(g, c)' /\ CopiedInv(c)'
    BY <1>reader, <1>copied, <2>1, <2>4, <1>ty, <1>same, <1>run DEF Epoch, ReaderInv, Fresh, consumer
  <2> QED
    BY <2>2, <2>3, <2>4 DEF Epoch, SectionInv
<1> QED
  BY <1>1, <1>2, <1>3, <1>4, <1>5 DEF Produce

(* A step of one consumer puts only what is known of it at stake.          *)
LEMMA SectionStepOf ==
  ASSUME NEW g \in Nat, NEW c \in Consumers, Epoch(g), StepOf(c),
         ReaderInv(g, c)', CopiedInv(c)'
  PROVE  SectionInv'
<1>1. EpochInv(g)' /\ SlotsInv(g)'
  BY DEF StepOf, segment, producer, Epoch, EpochInv, SlotsInv, FillInv, Stored, Fresh, Whole
<1>2. ASSUME NEW d \in Consumers \ {c} PROVE ReaderInv(g, d)' /\ CopiedInv(d)'
  <2>1. ReaderInv(g, d)'
    <3>1. /\ UNCHANGED <<hdrBoot, cursor, slotBody>>
          /\ cpc'[d] = cpc[d] /\ cCapacity'[d] = cCapacity[d] /\ cNext'[d] = cNext[d]
          /\ cBoot'[d] = cBoot[d] /\ bootRead'[d] = bootRead[d] /\ result'[d] = result[d]
      BY <1>2 DEF StepOf, segment
    <3>2. ReaderInv(g, d)
      BY <1>2 DEF Epoch
    <3>3. Fresh(cBoot[d], Home(cNext[d]))' <=> Fresh(cBoot[d], Home(cNext[d]))
      BY <3>1 DEF Fresh
    <3> QED
      BY <3>1, <3>2, <3>3 DEF ReaderInv, Attached
  <2>2. CopiedInv(d)'
    <3>1. /\ UNCHANGED <<hdrBoot, slotSeq>>
          /\ cpc'[d] = cpc[d] /\ cNext'[d] = cNext[d] /\ cBoot'[d] = cBoot[d]
          /\ copied'[d] = copied[d] /\ cTodo'[d] = cTodo[d] /\ result'[d] = result[d]
      BY <1>2 DEF StepOf, segment
    <3>2. CopiedInv(d)
      BY <1>2 DEF Epoch
    <3> QED
      BY <3>1, <3>2 DEF CopiedInv, Whole
  <2> QED
    BY <2>1, <2>2
<1> QED
  BY <1>1, <1>2 DEF Epoch, SectionInv

(* attach and try_recv read boot_id before the cursor: a cursor that lets  *)
(* a consumer read on is of the run it knows or of a later one.            *)
LEMMA SectionConsume ==
  ASSUME NEW g \in Nat, NEW c \in Consumers, TypeOK, Epoch(g), Consume(c)
  PROVE  SectionInv'
<1>0. StepOf(c)
  BY ConsumeIsStepOf
<1>s. UNCHANGED <<hdrCapacity, hdrBoot, cursor, slotSeq, slotBody>>
  BY <1>0 DEF StepOf, segment
<1>ty. /\ hdrBoot \in Nat /\ cursor \in Nat /\ Section \in Nat \ {0}
       /\ slotSeq \in [Slots -> Int] /\ slotBody \in [Slots -> [Words -> Nat \X Nat]]
       /\ cpc \in [Consumers -> ConsumerPC] /\ cCapacity \in [Consumers -> 0..Section]
       /\ cBoot \in [Consumers -> Nat] /\ cNext \in [Consumers -> Nat]
       /\ bootRead \in [Consumers -> Nat] /\ copied \in [Consumers -> [Words -> Nat \X Nat]]
       /\ cTodo \in [Consumers -> SUBSET Words] /\ result \in [Consumers -> Recv]
  BY SectionAssumption DEF TypeOK
<1>inv. ReaderInv(g, c) /\ CopiedInv(c)
  BY DEF Epoch
<1>hdr. hdrCapacity \in {0, Section} /\ g <= hdrBoot
  BY DEF Epoch, EpochInv
<1>out. ASSUME ReaderInv(g, c)', cpc'[c] # "copy", result'[c] # "Record"
        PROVE  SectionInv'
  BY <1>0, <1>out, SectionStepOf DEF CopiedInv
<1>1. CASE AttachHeader(c)
  <2>1. /\ cpc'[c] = "attach_boot" /\ cCapacity'[c] = Section /\ result' = result
        /\ result[c] = "none" /\ UNCHANGED <<cBoot, bootRead>>
    BY <1>1, <1>ty, <1>inv, <1>hdr DEF AttachHeader, ReaderInv
  <2>2. ReaderInv(g, c)'
    BY <2>1, <1>s, <1>inv DEF ReaderInv, Attached
  <2> QED
    BY <1>out, <2>1, <2>2
<1>2. CASE AttachBoot(c)
  <2>1. /\ cpc'[c] = "attach_cursor" /\ cCapacity'[c] = Section /\ result' = result
        /\ result[c] = "none" /\ cBoot'[c] = hdrBoot /\ bootRead' = bootRead
    BY <1>2, <1>ty, <1>inv DEF AttachBoot, ReaderInv
  <2>2. ReaderInv(g, c)'
    BY <2>1, <1>s, <1>inv, <1>ty DEF ReaderInv, Attached
  <2> QED
    BY <1>out, <2>1, <2>2
<1>3. CASE AttachCursor(c)
  <2>1. /\ cpc'[c] = "idle" /\ cCapacity'[c] = Section /\ result' = result
        /\ result[c] = "none" /\ UNCHANGED <<cBoot, bootRead>> /\ cNext'[c] = cursor
    BY <1>3, <1>ty, <1>inv DEF AttachCursor, ReaderInv
  <2>2. ReaderInv(g, c)'
    BY <2>1, <1>s, <1>inv, <1>ty DEF ReaderInv, Attached
  <2> QED
    BY <1>out, <2>1, <2>2
<1>4. CASE RecvBoot(c)
  <2>1. /\ cpc[c] = "idle" /\ cpc'[c] = "cursor" /\ cCapacity'[c] = Section
        /\ result'[c] = "none" /\ bootRead'[c] = hdrBoot /\ UNCHANGED <<cBoot, cNext>>
    BY <1>4, <1>ty, <1>inv DEF RecvBoot, ReaderInv
  <2>2. ReaderInv(g, c)'
    BY <2>1, <1>s, <1>inv, <1>ty DEF ReaderInv, Attached
  <2> QED
    BY <1>out, <2>1, <2>2
<1>5. CASE RecvRestarted(c)
  <2>1. /\ cpc'[c] = "idle" /\ cCapacity'[c] = Section /\ result'[c] = "Restarted"
        /\ cNext'[c] = cursor /\ cBoot'[c] = bootRead[c] /\ bootRead' = bootRead
    BY <1>5, <1>ty, <1>inv DEF RecvRestarted, Return, ReaderInv
  <2>2. ReaderInv(g, c)'
    BY <2>1, <1>s, <1>inv, <1>ty DEF ReaderInv, Attached
  <2> QED
    BY <1>out, <2>1, <2>2
<1>6. CASE RecvEmpty(c) \/ RecvLapped(c) \/ Reseat(c)
  <2>1. /\ cpc'[c] = "idle" /\ cCapacity'[c] = Section /\ result'[c] \in {"Empty", "Lagged"}
        /\ UNCHANGED <<cBoot, bootRead>>
        /\ cNext'[c] = cNext[c] \/ cpc[c] = "reseat" \/ cursor - cNext[c] > Section
    BY <1>6, <1>ty, <1>inv DEF RecvEmpty, RecvLapped, Reseat, Return, ReaderInv
  <2>2. cBoot[c] > g => cNext'[c] >= cursor
    BY <2>1, <1>6, <1>ty, <1>inv DEF ReaderInv, Attached, RecvEmpty, RecvLapped, Reseat
  <2>3. ReaderInv(g, c)'
    BY <2>1, <2>2, <1>s, <1>inv, <1>ty DEF ReaderInv, Attached
  <2> QED
    BY <1>out, <2>1, <2>3
<1>7. CASE RecvReadable(c)
  <2>1. /\ cpc[c] = "cursor" /\ cpc'[c] = "check" /\ cCapacity'[c] = Section
        /\ result'[c] = "none" /\ UNCHANGED <<cBoot, cNext, bootRead>> /\ cNext[c] < cursor
    BY <1>7, <1>ty, <1>inv DEF RecvReadable, ReaderInv
  <2>2. cBoot[c] <= g
    BY <2>1, <1>inv, <1>ty DEF ReaderInv, Attached
  <2>3. Fresh(g, Home(cNext[c]))
    BY <2>1, <1>ty DEF Epoch, SlotsInv, Stored
  <2>4. Fresh(cBoot[c], Home(cNext[c]))
    BY <2>2, <2>3, <1>ty, HomeInRange DEF Fresh
  <2>5. ReaderInv(g, c)'
    BY <2>1, <2>2, <2>4, <1>s, <1>inv, <1>ty DEF ReaderInv, Attached, Fresh
  <2> QED
    BY <1>out, <2>1, <2>5
<1>8. CASE RecvCheck(c)
  <2>1. /\ cpc[c] = "check" /\ cpc'[c] \in {"copy", "reseat"} /\ cCapacity'[c] = Section
        /\ result'[c] = "none" /\ UNCHANGED <<cBoot, cNext, bootRead>>
        /\ cpc'[c] = "copy" => cTodo'[c] = Words
    BY <1>8, <1>ty, <1>inv DEF RecvCheck, ReaderInv
  <2>2. ReaderInv(g, c)'
    BY <2>1, <1>s, <1>inv, <1>ty DEF ReaderInv, Attached, Fresh
  <2>3. CopiedInv(c)'
    BY <2>1 DEF CopiedInv
  <2> QED
    BY <1>0, <2>2, <2>3, SectionStepOf
<1>9. ASSUME NEW v \in Words, RecvCopy(c, v) PROVE SectionInv'
  <2>1. /\ cpc[c] = "copy" /\ cpc'[c] = "copy" /\ cCapacity'[c] = Section
        /\ result'[c] = "none" /\ UNCHANGED <<cBoot, cNext, bootRead>>
        /\ cTodo'[c] = cTodo[c] \ {v}
        /\ copied'[c] = [copied[c] EXCEPT ![v] = slotBody[Home(cNext[c])][v]]
    BY <1>9, <1>ty, <1>inv DEF RecvCopy, ReaderInv, Home
  <2>2. ReaderInv(g, c)'
    BY <2>1, <1>s, <1>inv, <1>ty DEF ReaderInv, Attached, Fresh
  <2>3. ASSUME NEW w \in Words \ cTodo'[c] PROVE copied'[c][w][1] >= cBoot[c]
    BY <2>1, <1>inv, <1>ty DEF ReaderInv, CopiedInv, Fresh
  <2>4. ASSUME hdrBoot = cBoot[c], cNext[c] # FillSeq, slotSeq[Home(cNext[c])] = cNext[c],
               NEW w \in Words \ cTodo'[c]
        PROVE  copied'[c][w] = <<cBoot[c], cNext[c]>>
    <3>0. cBoot[c] <= g
      BY <2>1, <1>inv, <1>ty DEF ReaderInv, Attached
    <3>a. cBoot[c] \in Nat /\ g <= cBoot[c]
      BY <2>4, <1>ty, <1>hdr
    <3>b. g = cBoot[c]
      BY <3>0, <3>a
    <3>1. g = cBoot[c] /\ cNext[c] < cursor
      BY <3>b, <2>1, <1>inv DEF ReaderInv
    <3>2. slotBody[Home(cNext[c])] = Whole(g, cNext[c])
      BY <2>4, <3>1, <1>ty DEF Epoch, SlotsInv, Stored
    <3> QED
      BY <2>1, <2>4, <3>1, <3>2, <1>inv, <1>ty DEF CopiedInv, Whole
  <2>5. CopiedInv(c)'
    BY <2>1, <2>3, <2>4, <1>s DEF CopiedInv
  <2> QED
    BY <1>0, <2>2, <2>5, SectionStepOf
<1>10. CASE RecvRecheck(c)
  <2>1. /\ cpc[c] = "copy" /\ cTodo[c] = {} /\ cCapacity'[c] = Section /\ copied' = copied
        /\ UNCHANGED <<cBoot, bootRead>> /\ result[c] = "none" /\ cBoot[c] <= g
    BY <1>10, <1>inv, <1>ty DEF RecvRecheck, ReaderInv, Attached
  <2>2. CASE SeqSeen(c) # cNext[c]
    <3>1. cpc'[c] = "reseat" /\ cNext'[c] = cNext[c] /\ result'[c] = "none"
      BY <1>10, <2>1, <2>2, <1>ty DEF RecvRecheck
    <3>2. ReaderInv(g, c)'
      BY <2>1, <3>1, <1>s, <1>inv, <1>ty DEF ReaderInv, Attached
    <3> QED
      BY <1>out, <3>1, <3>2
  <2>3. CASE SeqSeen(c) = cNext[c]
    <3>1. /\ cNext'[c] = cNext[c] + 1 /\ cpc'[c] = "idle" /\ result'[c] = "Record"
          /\ slotSeq[Home(cNext[c])] = cNext[c]
      BY <1>10, <1>ty, <1>inv, <2>1, <2>3 DEF RecvRecheck, Return, SeqSeen, Home, ReaderInv
    <3>2. ReaderInv(g, c)'
      BY <2>1, <3>1, <1>s, <1>inv, <1>ty DEF ReaderInv, Attached
    <3>3. \A w \in Words : copied[c][w][1] >= cBoot[c]
      BY <2>1, <1>inv DEF CopiedInv
    <3>4. hdrBoot = cBoot[c] /\ cNext[c] # FillSeq => copied[c] = Whole(cBoot[c], cNext[c])
      <4>1. hdrBoot = cBoot[c] /\ cNext[c] # FillSeq =>
              \A w \in Words : copied[c][w] = <<cBoot[c], cNext[c]>>
        BY <2>1, <3>1, <1>inv DEF CopiedInv
      <4> QED
        BY <4>1, <1>ty DEF Whole
    <3>5. cNext'[c] - 1 = cNext[c]
      BY <3>1, <1>ty
    <3>6. CopiedInv(c)'
      BY <2>1, <3>1, <3>3, <3>4, <3>5, <1>s DEF CopiedInv, Whole
    <3> QED
      BY <1>0, <3>2, <3>6, SectionStepOf
  <2> QED
    BY <2>2, <2>3
<1>11. CASE Detach(c)
  <2>1. /\ cpc'[c] = "detached" /\ result'[c] = "none" /\ cBoot'[c] = 0 /\ bootRead'[c] = 0
    BY <1>11, <1>ty DEF Detach
  <2>2. ReaderInv(g, c)'
    BY <2>1, <1>s, <1>ty DEF ReaderInv, Attached
  <2> QED
    BY <1>out, <2>1, <2>2
<1> QED
  BY <1>1, <1>2, <1>3, <1>4, <1>5, <1>6, <1>7, <1>8, <1>9, <1>10, <1>11
  DEF Consume, Attach, TryRecv

(* A crash leaves the segment as it is, and a restart numbers a new run:   *)
(* the cursor stays the old run's until create has reset it.               *)
LEMMA SectionTurnover ==
  ASSUME NEW g \in Nat, TypeOK, Epoch(g), OneCapacity,
         Crash \/ \E k \in Capacities : Restart(k)
  PROVE  SectionInv'
<1>1. /\ UNCHANGED <<segment, nextSeq, consumer>> /\ pc' \in {"down", "header"}
      /\ capacity' = Section
      /\ \/ pc' = "down" /\ run' = run
         \/ pc' = "header" /\ run' = run + 1
  BY DEF Crash, Restart, OneCapacity, Epoch, EpochInv
<1>2. EpochInv(g)' /\ SlotsInv(g)'
  <2>1. EpochInv(g)'
    <3>1. run \in Nat /\ hdrBoot \in Nat /\ hdrBoot <= run /\ g <= hdrBoot
          /\ hdrCapacity \in {0, Section}
      BY DEF TypeOK, Epoch, EpochInv
    <3> QED
      BY <1>1, <3>1 DEF segment, EpochInv
  <2>2. SlotsInv(g)'
    BY <1>1 DEF segment, Epoch, SlotsInv, FillInv, Stored, Fresh, Whole
  <2> QED
    BY <2>1, <2>2
<1>3. ASSUME NEW c \in Consumers PROVE ReaderInv(g, c)' /\ CopiedInv(c)'
  <2>1. ReaderInv(g, c)'
    BY <1>1, <1>3 DEF segment, consumer, Epoch, ReaderInv, Attached, Fresh
  <2>2. CopiedInv(c)'
    BY <1>1, <1>3 DEF segment, consumer, Epoch, CopiedInv, Whole
  <2> QED
    BY <2>1, <2>2
<1> QED
  BY <1>2, <1>3 DEF Epoch, SectionInv

(* The invariant over the life of a section.                               *)
LEMMA SectionInvariant ==
  ASSUME OneCapacity
  PROVE  SectionSpec => []SectionInv
<1>1. Init => SectionInv
  BY SectionInit DEF SectionInv
<1>2. TypeOK /\ SectionInv /\ [Next]_vars => SectionInv'
  <2> SUFFICES ASSUME TypeOK, SectionInv, [Next]_vars PROVE SectionInv'
    OBVIOUS
  <2>1. PICK g \in Nat : Epoch(g)
    BY DEF SectionInv
  <2>2. CASE UNCHANGED vars
    <3>1. Epoch(g)'
      BY <2>1, <2>2 DEF vars, segment, producer, consumer, Epoch, EpochInv, SlotsInv, ReaderInv,
         CopiedInv, FillInv, Stored, Fresh, Whole, Attached
    <3> QED
      BY <3>1 DEF SectionInv
  <2> QED
    BY <2>1, <2>2, SectionCreate, SectionProduce, SectionConsume, SectionTurnover DEF Next, RunNext
<1> QED
  BY <1>1, <1>2, TypeCorrect, PTL DEF SectionSpec

(* RecordOfKnownRun holds over the life of a section of one capacity, for  *)
(* any number of crashes and restarts: while the header carries the        *)
(* boot_id a consumer knows, a Record is a whole record of that run.       *)
THEOREM KnownRunOnly ==
  ASSUME OneCapacity
  PROVE  SectionSpec => []RecordOfKnownRun
<1>1. SectionInv => RecordOfKnownRun
  BY DEF SectionInv, Epoch, CopiedInv, RecordOfKnownRun
<1> QED
  BY <1>1, SectionInvariant, PTL

(* OldRecordsUnreadable holds over the life of a section of one capacity:  *)
(* the records an earlier run left in the slots are never returned to a    *)
(* consumer that knows a later one, torn or whole.                         *)
THEOREM OldRunsUnreadable ==
  ASSUME OneCapacity
  PROVE  SectionSpec => []OldRecordsUnreadable
<1>1. SectionInv => OldRecordsUnreadable
  BY DEF SectionInv, Epoch, CopiedInv, OldRecordsUnreadable
<1> QED
  BY <1>1, SectionInvariant, PTL
=============================================================================

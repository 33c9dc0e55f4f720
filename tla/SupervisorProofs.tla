--------------------------- MODULE SupervisorProofs ---------------------------
(***************************************************************************)
(* Safety of Supervisor for every set of feeds.                            *)
(***************************************************************************)
EXTENDS Supervisor, TLAPS

Waiting == {"mirror", "scan", "sleep"}

(* What main knows of the threads at each of its places.  Up to start there *)
(* are none; while start spawns, the vector holds exactly those it started; *)
(* in wait, what has left the vector has ended, and `failed` tells whether  *)
(* one of those died.  A thread is cut off only by the end of the process.  *)
MainInv ==
  /\ pc \in {"conf", "install", "prepare"} =>
       (\A f \in Feeds : thread[f] = "none") /\ watched = {}
  /\ pc \in {"spawn", "failing"} \cup Waiting => prepared = Feeds
  /\ pc = "spawn" => \A f \in Feeds : thread[f] = "none" <=> f \notin watched
  /\ pc \in Waiting => \A f \in Feeds : /\ thread[f] # "none"
                                        /\ f \notin watched => thread[f] \in Finished
  /\ pc \in {"conf", "install", "prepare", "spawn", "failing"} => failed = FALSE
  /\ pc \in Waiting => (failed <=> \E f \in Feeds \ watched : thread[f] \in Deaths)
  /\ exit = None => \A f \in Feeds : thread[f] # "killed"

SafetyInv ==
  /\ SupervisorTypeOK /\ MainInv
  /\ NothingCutOff /\ ExitStatusTrue /\ StoppedForAReason

-----------------------------------------------------------------------------
(* The process starts in the invariant. *)
LEMMA InitSafety == Init => SafetyInv
<1> SUFFICES ASSUME Init PROVE SafetyInv
  OBVIOUS
<1> USE DEF Init, Finished, Deaths, Waiting, None
<1>1. \A f \in Feeds : thread[f] = "none"
  OBVIOUS
<1>2. SupervisorTypeOK
  BY DEF SupervisorTypeOK
<1>3. MainInv
  BY <1>1 DEF MainInv
<1>4. NothingCutOff /\ ExitStatusTrue /\ StoppedForAReason
  BY <1>1 DEF NothingCutOff, ExitStatusTrue, StoppedForAReason
<1> QED BY <1>2, <1>3, <1>4 DEF SafetyInv

(* main before start, and start: no thread is lost sight of before wait has *)
(* them all.                                                               *)
LEMMA StartSafety ==
  ASSUME SafetyInv,
         \/ ConfRefused \/ ConfChecked \/ ConfRead \/ InstallFails \/ Install
         \/ PrepareFails \/ SpawnFails \/ StartFailed
         \/ \E f \in Feeds : Prepare(f) \/ Spawn(f)
  PROVE  SafetyInv'
<1> USE DEF SafetyInv, SupervisorTypeOK, MainInv, NothingCutOff, ExitStatusTrue,
            StoppedForAReason, Finished, Deaths, Waiting, None
<1>1. CASE ConfRefused
  BY <1>1 DEF ConfRefused, Exit
<1>2. CASE ConfChecked
  BY <1>2 DEF ConfChecked, Exit
<1>3. CASE ConfRead
  BY <1>3 DEF ConfRead
<1>4. CASE InstallFails
  BY <1>4 DEF InstallFails, Exit
<1>5. CASE Install
  BY <1>5 DEF Install
<1>6. CASE PrepareFails
  BY <1>6 DEF PrepareFails, Exit
<1>7. CASE SpawnFails
  BY <1>7 DEF SpawnFails
<1>8. CASE StartFailed
  BY <1>8 DEF StartFailed, Exit
<1>9. ASSUME NEW f \in Feeds, Prepare(f)
      PROVE  SafetyInv'
  BY <1>9 DEF Prepare
<1>10. ASSUME NEW f \in Feeds, Spawn(f)
       PROVE  SafetyInv'
  BY <1>10 DEF Spawn
<1> QED BY <1>1, <1>2, <1>3, <1>4, <1>5, <1>6, <1>7, <1>8, <1>9, <1>10

(* An iteration of wait: a feed that leaves the vector has ended, its death *)
(* is recorded in `failed` and raises the flag, and wait returns only when  *)
(* the vector is empty.                                                    *)
LEMMA WaitSafety ==
  ASSUME SafetyInv, Mirror \/ Scan \/ Sleep
  PROVE  SafetyInv'
<1> USE DEF SafetyInv, SupervisorTypeOK, MainInv, NothingCutOff, ExitStatusTrue,
            StoppedForAReason, Finished, Deaths, Waiting, None
<1>1. CASE Mirror
  BY <1>1 DEF Mirror
<1>2. CASE Sleep
  BY <1>2 DEF Sleep
<1>3. CASE Scan /\ Done = {} /\ UNCHANGED <<watched, failed, stop>>
  <2>1. CASE watched' = {}
    BY <1>3, <2>1 DEF Scan, Returns, Exit
  <2>2. CASE watched' # {}
    BY <1>3, <2>2 DEF Scan, Returns
  <2> QED BY <2>1, <2>2
<1>4. ASSUME Scan, NEW f \in Done, Join(f)
      PROVE  SafetyInv'
  <2>1. CASE watched' = {}
    <3>1. /\ pc = "scan" /\ pc' = "over" /\ prepared' = {} /\ requested' = requested
          /\ exit' = IF failed' THEN 3 ELSE 0
          /\ thread' = [g \in Feeds |-> IF thread[g] = "running" THEN "killed" ELSE thread[g]]
      BY <1>4, <2>1 DEF Scan, Returns, Exit
    <3>2. f \in watched /\ thread[f] \in Finished /\ watched = {f}
      BY <1>4, <2>1 DEF Join, Done
    <3>3. \A g \in Feeds : thread[g] \in Finished /\ thread'[g] = thread[g]
      BY <3>1, <3>2
    <3>4. failed' <=> \E g \in Feeds : thread'[g] \in Deaths
      BY <1>4, <3>1, <3>2, <3>3 DEF Join
    <3>5. stop' => requested' \/ \E g \in Feeds : thread'[g] \in Deaths
      BY <1>4, <3>1, <3>2, <3>3 DEF Join
    <3>6. failed' \in BOOLEAN /\ stop' \in BOOLEAN
      BY <1>4 DEF Join
    <3>7. SupervisorTypeOK'
      BY <2>1, <3>1, <3>3, <3>6
    <3> QED BY <3>1, <3>3, <3>4, <3>5, <3>6, <3>7
  <2>2. CASE watched' # {}
    BY <1>4, <2>2 DEF Scan, Join, Done, Returns
  <2> QED BY <2>1, <2>2
<1>5. Scan => \/ Done = {} /\ UNCHANGED <<watched, failed, stop>>
              \/ \E f \in Done : Join(f)
  BY DEF Scan
<1> QED BY <1>1, <1>2, <1>3, <1>4, <1>5

(* A thread that ends, and a signal. *)
LEMMA ThreadSafety ==
  ASSUME SafetyInv,
         (\E f \in Feeds : SeesStop(f) \/ Dies(f) \/ Panics(f)) \/ Signal
  PROVE  SafetyInv'
<1> USE DEF SafetyInv, SupervisorTypeOK, MainInv, NothingCutOff, ExitStatusTrue,
            StoppedForAReason, Finished, Deaths, Waiting, None
<1>1. CASE Signal
  BY <1>1 DEF Signal
<1>2. ASSUME NEW f \in Feeds, NEW how \in Finished, Ends(f, how)
      PROVE  SafetyInv'
  BY <1>2 DEF Ends
<1> QED BY <1>1, <1>2 DEF SeesStop, Dies, Panics

(* The invariant holds of every state of every behaviour. *)
THEOREM SafetyInvariant == Spec => []SafetyInv
<1>1. Init => SafetyInv
  BY InitSafety
<1>2. SafetyInv /\ [Next]_vars => SafetyInv'
  <2> SUFFICES ASSUME SafetyInv, [Next]_vars PROVE SafetyInv'
    OBVIOUS
  <2>1. CASE UNCHANGED vars
    BY <2>1 DEF vars, SafetyInv, SupervisorTypeOK, MainInv, NothingCutOff, ExitStatusTrue,
                StoppedForAReason
  <2>2. CASE Next
    BY <2>2, StartSafety, WaitSafety, ThreadSafety DEF Next, Main
  <2> QED BY <2>1, <2>2
<1> QED BY <1>1, <1>2, PTL DEF Spec

(* Whatever feeds a conf names: when the process ends after a successful   *)
(* start, every feed thread has returned (feed::wait).                     *)
THEOREM NobodyCutOff == Spec => []NothingCutOff
<1>1. SafetyInv => NothingCutOff
  BY DEF SafetyInv
<1> QED BY <1>1, SafetyInvariant, PTL

(* Whatever feeds a conf names: the exit status says what became of them    *)
(* (feed::wait, main).                                                     *)
THEOREM ExitStatus == Spec => []ExitStatusTrue
<1>1. SafetyInv => ExitStatusTrue
  BY DEF SafetyInv
<1> QED BY <1>1, SafetyInvariant, PTL

(* Whatever feeds a conf names: none is started before all are prepared     *)
(* (start).                                                                *)
THEOREM PreparedFirst == Spec => []StartedOnlyWhenAllPrepared
<1>1. SafetyInv => StartedOnlyWhenAllPrepared
  BY DEF SafetyInv, SupervisorTypeOK, MainInv, StartedOnlyWhenAllPrepared, Waiting
<1> QED BY <1>1, SafetyInvariant, PTL

(* Whatever feeds a conf names: they are stopped only on a signal or after  *)
(* a death (feed::wait).                                                   *)
THEOREM ReasonToStop == Spec => []StoppedForAReason
<1>1. SafetyInv => StoppedForAReason
  BY DEF SafetyInv
<1> QED BY <1>1, SafetyInvariant, PTL

(* Whatever feeds a conf names: main, the threads and wait's vector stay    *)
(* consistent, and the process is over exactly when it has a status.       *)
THEOREM TypeCorrect == Spec => []SupervisorTypeOK
<1>1. SafetyInv => SupervisorTypeOK
  BY DEF SafetyInv
<1> QED BY <1>1, SafetyInvariant, PTL
====

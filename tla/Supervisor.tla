------------------------------ MODULE Supervisor ------------------------------
(***************************************************************************)
(* A handler process: main of the binaries (jeed/src/bin), the start       *)
(* functions of krx.rs, crypto.rs and fix.rs, the feed threads seen from   *)
(* outside, and the watching of feed.rs, with the stop flag of signal.     *)
(*                                                                         *)
(* Main and the feed threads share the flag `stop` and the threads' ends.  *)
(* Every read or write of one of them is a step.  What a feed does in a    *)
(* round is the matter of KrxFeed, FixSession and CryptoFeed; here it goes *)
(* on, sees the flag, fails or panics.                                     *)
(***************************************************************************)
EXTENDS Integers

CONSTANT Feeds       \* the feeds of the conf, which must name one

ASSUME FeedsAssumption == Feeds # {}

VARIABLES
  pc,         \* where main is
  prepared,   \* feeds whose ring exists and whose receiver is built
  thread,     \* what has become of each feed's thread
  watched,    \* wait's vector of feeds
  stop,       \* the flag the threads read
  requested,  \* signal::STOP
  failed,     \* wait's result so far
  exit        \* the exit status, None while the process lives

vars == <<pc, prepared, thread, watched, stop, requested, failed, exit>>

None == -1

\* How a thread ends: on request, with an error, by a panic, with the process.
Deaths   == {"died", "panicked"}
Finished == {"stopped"} \cup Deaths

SupervisorTypeOK ==
  /\ pc \in {"conf", "install", "prepare", "spawn", "mirror", "scan", "sleep", "failing", "over"}
  /\ prepared \subseteq Feeds /\ watched \subseteq Feeds
  /\ thread \in [Feeds -> {"none", "running", "killed"} \cup Finished]
  /\ stop \in BOOLEAN /\ requested \in BOOLEAN /\ failed \in BOOLEAN
  /\ exit \in {None, 0, 1, 2, 3}
  /\ pc = "over" <=> exit # None
  /\ watched # {} => pc \in {"spawn", "mirror", "scan", "sleep"}

Init ==
  /\ pc = "conf" /\ prepared = {} /\ thread = [f \in Feeds |-> "none"] /\ watched = {}
  /\ stop = FALSE /\ requested = FALSE /\ failed = FALSE /\ exit = None

Running == {f \in Feeds : thread[f] = "running"}

\* The end of main is the end of every thread.
Exit(status) ==
  /\ exit' = status
  /\ pc' = "over"
  /\ prepared' = {}
  /\ thread' = [f \in Feeds |-> IF thread[f] = "running" THEN "killed" ELSE thread[f]]

-----------------------------------------------------------------------------
(***************************************************************************)
(* main, up to start.                                                      *)
(***************************************************************************)
ConfRefused ==
  /\ pc = "conf"
  /\ Exit(1)
  /\ UNCHANGED <<watched, stop, requested, failed>>

\* --check: the conf was all that was asked about.
ConfChecked ==
  /\ pc = "conf"
  /\ Exit(0)
  /\ UNCHANGED <<watched, stop, requested, failed>>

ConfRead ==
  /\ pc = "conf"
  /\ pc' = "install"
  /\ UNCHANGED <<prepared, thread, watched, stop, requested, failed, exit>>

InstallFails ==
  /\ pc = "install"
  /\ Exit(2)
  /\ UNCHANGED <<watched, stop, requested, failed>>

Install ==
  /\ pc = "install"
  /\ pc' = "prepare"
  /\ UNCHANGED <<prepared, thread, watched, stop, requested, failed, exit>>

-----------------------------------------------------------------------------
(***************************************************************************)
(* start: everything that can be refused is refused before a thread runs.  *)
(***************************************************************************)
\* Mutant: a feed is spawned as soon as it is prepared.
PrepareAndSpawn(f) ==
  /\ pc = "prepare" /\ f \notin prepared
  /\ prepared' = prepared \cup {f}
  /\ thread' = [thread EXCEPT ![f] = "running"]
  /\ watched' = watched \cup {f}
  /\ pc' = IF prepared' = Feeds THEN "mirror" ELSE "prepare"
  /\ UNCHANGED <<stop, requested, failed, exit>>

Prepare(f) ==
  /\ pc = "prepare" /\ f \notin prepared
  /\ prepared' = prepared \cup {f}
  /\ pc' = IF prepared' = Feeds THEN "spawn" ELSE "prepare"
  /\ UNCHANGED <<thread, watched, stop, requested, failed, exit>>

PrepareFails ==
  /\ pc = "prepare" /\ prepared # Feeds
  /\ Exit(2)
  /\ UNCHANGED <<watched, stop, requested, failed>>

Spawn(f) ==
  /\ pc = "spawn" /\ thread[f] = "none"
  /\ thread' = [thread EXCEPT ![f] = "running"]
  /\ watched' = watched \cup {f}
  /\ pc' = IF watched' = Feeds THEN "mirror" ELSE "spawn"
  /\ UNCHANGED <<prepared, stop, requested, failed, exit>>

\* Mutant: the handles of the feeds already started outlive the failed start.
SpawnFailsKeeping ==
  /\ pc = "spawn" /\ watched # Feeds
  /\ pc' = "failing"
  /\ UNCHANGED <<prepared, thread, watched, stop, requested, failed, exit>>

\* The handles of the feeds already started are dropped: their threads go on
\* until the process ends.
SpawnFails ==
  /\ pc = "spawn" /\ watched # Feeds
  /\ watched' = {}
  /\ pc' = "failing"
  /\ UNCHANGED <<prepared, thread, stop, requested, failed, exit>>

StartFailed ==
  /\ pc = "failing"
  /\ Exit(2)
  /\ UNCHANGED <<watched, stop, requested, failed>>

-----------------------------------------------------------------------------
(***************************************************************************)
(* wait.                                                                   *)
(***************************************************************************)
\* Mutant: the condition is the wrong way round.
MirrorUnasked ==
  /\ pc = "mirror"
  /\ stop' = (stop \/ ~requested)
  /\ pc' = "scan"
  /\ UNCHANGED <<prepared, thread, watched, requested, failed, exit>>

Mirror ==
  /\ pc = "mirror"
  /\ stop' = (stop \/ requested)
  /\ pc' = "scan"
  /\ UNCHANGED <<prepared, thread, watched, requested, failed, exit>>

Done == {f \in watched : thread[f] \in Finished}

\* Mutant: a feed that ends with an error is only reported.
JoinReporting(f) ==
  /\ watched' = watched \ {f}
  /\ failed' = (failed \/ thread[f] \in Deaths)
  /\ UNCHANGED stop

\* Mutant: a panic is taken for a clean end.
JoinTrusting(f) ==
  /\ watched' = watched \ {f}
  /\ failed' = (failed \/ thread[f] = "died")
  /\ stop' = (stop \/ thread[f] = "died")

Join(f) ==
  /\ watched' = watched \ {f}
  /\ failed' = (failed \/ thread[f] \in Deaths)
  /\ stop' = (stop \/ thread[f] \in Deaths)

\* Mutant: wait returns as soon as a feed has failed.
ReturnsEarly == watched' = {} \/ failed'

Returns == watched' = {}

\* One finished feed, if there is one, is joined in an iteration.
Scan ==
  /\ pc = "scan"
  /\ \/ Done = {} /\ UNCHANGED <<watched, failed, stop>>
     \/ \E f \in Done : Join(f)
  /\ IF Returns THEN Exit(IF failed' THEN 3 ELSE 0)
     ELSE pc' = "sleep" /\ UNCHANGED <<prepared, thread, exit>>
  /\ UNCHANGED requested

\* Mutant: the signal is looked at once, before the loop.
SleepAndScan ==
  /\ pc = "sleep"
  /\ pc' = "scan"
  /\ UNCHANGED <<prepared, thread, watched, stop, requested, failed, exit>>

Sleep ==
  /\ pc = "sleep"
  /\ pc' = "mirror"
  /\ UNCHANGED <<prepared, thread, watched, stop, requested, failed, exit>>

Main ==
  \/ ConfRefused \/ ConfChecked \/ ConfRead \/ InstallFails \/ Install
  \/ PrepareFails \/ SpawnFails \/ StartFailed
  \/ \E f \in Feeds : Prepare(f) \/ Spawn(f)
  \/ Mirror \/ Scan \/ Sleep

-----------------------------------------------------------------------------
(***************************************************************************)
(* A feed thread: run.                                                     *)
(***************************************************************************)
Ends(f, how) ==
  /\ thread[f] = "running"
  /\ thread' = [thread EXCEPT ![f] = how]
  /\ UNCHANGED <<pc, prepared, watched, stop, requested, failed, exit>>

SeesStop(f) == stop /\ Ends(f, "stopped")

\* It could not be pinned, or poll_once returned an error.
Dies(f) == Ends(f, "died")

Panics(f) == Ends(f, "panicked")

\* The operator's signal, once a handler is installed.
Signal ==
  /\ pc \notin {"conf", "install", "over"} /\ ~requested
  /\ requested' = TRUE
  /\ UNCHANGED <<pc, prepared, thread, watched, stop, failed, exit>>

Next ==
  \/ Main
  \/ \E f \in Feeds : SeesStop(f) \/ Dies(f) \/ Panics(f)
  \/ Signal

Spec == Init /\ [][Next]_vars

\* Main runs, and a thread that the flag asks to stop reads it in its next round,
\* which a bounded wait separates from this one.  Nothing need fail or be signalled.
Fairness ==
  /\ WF_vars(Main)
  /\ \A f \in Feeds : WF_vars(SeesStop(f))

FairSpec == Spec /\ Fairness

-----------------------------------------------------------------------------
(***************************************************************************)
(* Properties.                                                             *)
(***************************************************************************)

(* No thread runs before every feed's ring is created and its sockets are  *)
(* joined (krx.rs: "Everything that can fail, fails before any thread      *)
(* starts").  The one failure left after that is spawn itself.             *)
StartedOnlyWhenAllPrepared ==
  exit = None /\ (\E f \in Feeds : thread[f] # "none") => prepared = Feeds

(* wait leaves nothing behind: when the process ends after start succeeded *)
(* every feed has returned, and none was cut off in the middle of a record *)
(* (feed::wait).                                                           *)
NothingCutOff ==
  exit \in {0, 3} => \A f \in Feeds : thread[f] # "killed"

(* The exit status is the truth: 3 when a feed died or panicked, 0 only    *)
(* when every feed ended on request or none was started, and 1 when none   *)
(* was (bin/krx.rs, feed::wait).                                           *)
ExitStatusTrue ==
  /\ exit = 3 => \E f \in Feeds : thread[f] \in Deaths
  /\ exit = 0 => \A f \in Feeds : thread[f] \in {"none", "stopped"}
  /\ exit = 1 => \A f \in Feeds : thread[f] = "none"

(* The feeds are stopped for a reason: a signal, or the death of one of    *)
(* them (feed::wait).                                                      *)
StoppedForAReason ==
  stop => requested \/ \E f \in Feeds : thread[f] \in Deaths

(* One feed down is the whole handler down: after a death the process ends *)
(* with an error status (feed::wait).                                      *)
OneDownAllDown ==
  (\E f \in Feeds : thread[f] \in Deaths) ~> exit \in {2, 3}

(* A signal ends the handler, whenever after the installation it arrives,  *)
(* start included (signal, feed::wait).                                    *)
SignalEndsHandler == requested ~> exit # None
====

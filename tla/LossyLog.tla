------------------------------- MODULE LossyLog -------------------------------
(***************************************************************************)
(* What one run of the ring promises its readers, without slots, sequence  *)
(* locks or copying: an append-only log of which only the newest Lap       *)
(* records are kept.  A reader joins at the end, then moves forward one    *)
(* record at a time, or gives up exactly the records that are more than    *)
(* Lap from the end.  A record it is given is the whole record, except for *)
(* the one at Unsafe, about whose content nothing is promised.             *)
(***************************************************************************)
EXTENDS Integers

CONSTANTS Readers, Words, Lap, Unsafe

VARIABLES
  len,    \* records appended so far
  pos,    \* next record of each reader; -1 while it has not joined
  known,  \* the reader knows which run it reads
  got     \* what the reader's last call gave it; Nothing if no record

vars == <<len, pos, known, got>>

Nothing   == [w \in Words |-> <<0, 0>>]
Record(s) == [w \in Words |-> <<1, s>>]

Init ==
  /\ len = 0
  /\ pos   = [r \in Readers |-> -1]
  /\ known = [r \in Readers |-> FALSE]
  /\ got   = [r \in Readers |-> Nothing]

Append ==
  /\ len' = len + 1
  /\ UNCHANGED <<pos, known, got>>

Join(r) ==
  /\ pos[r] = -1
  /\ pos' = [pos EXCEPT ![r] = len]
  /\ known' \in {known, [known EXCEPT ![r] = TRUE]}
  /\ UNCHANGED <<len, got>>

(* The reader learns that the run it reads is not the one it joined.  That *)
(* happens at most once in a run, and puts it at the end again.            *)
Rejoin(r) ==
  /\ pos[r] # -1 /\ ~known[r]
  /\ pos' = [pos EXCEPT ![r] = len]
  /\ known' = [known EXCEPT ![r] = TRUE]
  /\ UNCHANGED <<len, got>>

Deliver(r) ==
  /\ pos[r] \in 0 .. len - 1
  /\ pos' = [pos EXCEPT ![r] = pos[r] + 1]
  /\ \E g \in [Words -> {1} \X (0..len)] \cup {Record(pos[r])} :
       /\ pos[r] # Unsafe => g = Record(pos[r])
       /\ got' = [got EXCEPT ![r] = g]
  /\ UNCHANGED <<len, known>>

(* The reader was lapped: it is told how many records it has lost, and     *)
(* continues at the oldest one kept.                                       *)
Skip(r) ==
  /\ pos[r] \in 0 .. len - Lap - 1
  /\ pos' = [pos EXCEPT ![r] = len - Lap]
  /\ UNCHANGED <<len, known, got>>

(* The reader is done with the record it was given.                        *)
Reuse(r) ==
  /\ got' = [got EXCEPT ![r] = Nothing]
  /\ UNCHANGED <<len, pos, known>>

Leave(r) ==
  /\ pos'   = [pos EXCEPT ![r] = -1]
  /\ known' = [known EXCEPT ![r] = FALSE]
  /\ got'   = [got EXCEPT ![r] = Nothing]
  /\ UNCHANGED len

Next ==
  \/ Append
  \/ \E r \in Readers :
       Join(r) \/ Rejoin(r) \/ Deliver(r) \/ Skip(r) \/ Reuse(r) \/ Leave(r)

Spec == Init /\ [][Next]_vars
=============================================================================

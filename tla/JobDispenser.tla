---------------------------- MODULE JobDispenser ----------------------------
(***************************************************************************)
(* What saveSlices relies on when it hands slices to its threads: a job is *)
(* taken by one thread at one moment, is carried out at most once, and the *)
(* jobs that wait are dropped when the run is cancelled.  SlicePool shows  *)
(* that JobQueue, TinyQueue and the loop of slices2disk provide this.      *)
(***************************************************************************)
CONSTANTS Jobs, Takers, NoJob

VARIABLES waiting, held, done, stopped
vars == <<waiting, held, done, stopped>>

Init ==
    /\ waiting \in SUBSET Jobs
    /\ held = [t \in Takers |-> NoJob] /\ done = {} /\ stopped = FALSE

\* JobQueue::pop
take(t) ==
    /\ held[t] = NoJob
    /\ \E j \in waiting : held' = [held EXCEPT ![t] = j] /\ waiting' = waiting \ {j}
    /\ UNCHANGED <<done, stopped>>

\* The slice file is renamed into the archive
save(t) ==
    /\ held[t] \notin done \cup {NoJob}
    /\ done' = done \cup {held[t]}
    /\ UNCHANGED <<waiting, held, stopped>>

\* Saved, skipped or left alone; running out of space stops the other threads
release(t) ==
    /\ held[t] # NoJob
    /\ held' = [held EXCEPT ![t] = NoJob] /\ stopped' \in {stopped, TRUE}
    /\ UNCHANGED <<waiting, done>>

stop == stopped' = TRUE /\ UNCHANGED <<waiting, held, done>>

\* setState(QUEUE_ABORT)
discard ==
    /\ stopped /\ waiting' = {}
    /\ UNCHANGED <<held, done, stopped>>

Next == stop \/ discard \/ \E t \in Takers : take(t) \/ save(t) \/ release(t)

Spec == Init /\ [][Next]_vars

----------------------------------------------------------------------------
TypeOK ==
    /\ waiting \in SUBSET Jobs /\ done \in SUBSET Jobs /\ stopped \in BOOLEAN
    /\ held \in [Takers -> Jobs \cup {NoJob}]

\* No two threads write the same slice (backup.cpp:1963), and a slice that waits has
\* neither been saved nor is anybody saving it.
OnePlace ==
    /\ \A t, u \in Takers : t # u /\ held[t] # NoJob => held[t] # held[u]
    /\ \A t \in Takers : held[t] \notin waiting
    /\ waiting \cap done = {}
=============================================================================

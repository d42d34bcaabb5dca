----------------------------- MODULE SlicePool -----------------------------
(***************************************************************************)
(* saveSlices from initTCA to exitTCA: the threads of slices2disk take the *)
(* slices from a JobQueue over the global TinyQueue and write them, while  *)
(* Ctrl-C or a full backup disk may cancel the run.  Locks are explicit;   *)
(* what a slice consists of is left to the modules about its bytes.        *)
(***************************************************************************)
EXTENDS Integers, FiniteSets

CONSTANTS
    Slices,     \* slices planned and not saved yet
    Workers,    \* threads: config.maxThreads of them
    QueueSize,  \* MAX_JOBS
    NoJob, NoOne

ASSUME SlicesAssumption == IsFiniteSet(Slices) /\ NoJob \notin Slices
ASSUME WorkersAssumption == IsFiniteSet(Workers) /\ Workers # {} /\ NoOne \notin Workers
ASSUME QueueSizeAssumption == QueueSize \in Nat

VARIABLES
    main,               \* saveSlices itself: "create", "join" its threads, "end"
    started,            \* threads that pthread_create started
    mutex, finishMode,  \* JobQueue: holder of the lock; END_OF_DATA or ABORT
    rowids, head, tail, \* TinyQueue
    operationCanceled,  \* TCA
    files2process, filesProcessed, filesSkipped,
    pc, job,            \* where a thread is, the slice it took
    genCanceled, outcome,   \* its SLICE: given up, and why
    written             \* slices renamed into the archive

queueVars == <<rowids, head, tail>>
countVars == <<files2process, filesProcessed, filesSkipped>>
sliceVars == <<genCanceled, outcome>>
vars == <<main, started, mutex, finishMode, rowids, head, tail, operationCanceled,
          files2process, filesProcessed, filesSkipped, pc, job, genCanceled, outcome, written>>

Cells   == 1..QueueSize
Waiting == {rowids[i] : i \in (tail + 1)..head}

----------------------------------------------------------------------------
\* load2queue stops at the first slice that does not fit (the next sync saves the
\* rest); the queue is END_OF_DATA from the start
Init ==
    /\ head \in {n \in 0..QueueSize : n = Cardinality(Slices)
                                      \/ (n = QueueSize /\ n < Cardinality(Slices))}
    /\ rowids \in [Cells -> Slices \cup {NoJob}]
    /\ \A i \in Cells : rowids[i] = NoJob <=> i > head
    /\ \A i, k \in 1..head : rowids[i] = rowids[k] => i = k
    /\ tail = 0 /\ finishMode = "END_OF_DATA" /\ mutex = NoOne
    /\ main = "create" /\ started = {} /\ operationCanceled = FALSE
    /\ files2process = head /\ filesProcessed = 0 /\ filesSkipped = 0
    /\ pc = [w \in Workers |-> "new"] /\ job = [w \in Workers |-> NoJob]
    /\ genCanceled = [w \in Workers |-> FALSE] /\ outcome = [w \in Workers |-> "ok"]
    /\ written = {}

\* Mutant: two threads are taken for one
waitMany == Cardinality(Workers) > 2

\* With one thread the lock is only tried
wait == Cardinality(Workers) > 1

----------------------------------------------------------------------------
createThread(w) ==
    /\ main = "create" /\ w \notin started
    /\ started' = started \cup {w} /\ pc' = [pc EXCEPT ![w] = "pop"]
    /\ UNCHANGED <<main, mutex, finishMode, queueVars, operationCanceled, countVars, job,
                   sliceVars, written>>

\* All threads run, or pthread_create failed (with one thread it is not called)
startJoin ==
    /\ main = "create" /\ (started = Workers \/ wait)
    /\ main' = "join"
    /\ UNCHANGED <<started, mutex, finishMode, queueVars, operationCanceled, countVars, pc,
                   job, sliceVars, written>>

joinThreads ==
    /\ main = "join" /\ \A w \in started : pc[w] = "gone"
    /\ main' = "end"
    /\ UNCHANGED <<started, mutex, finishMode, queueVars, operationCanceled, countVars, pc,
                   job, sliceVars, written>>

----------------------------------------------------------------------------
(* JobQueue::pop.                                                          *)

\* Mutant: the lock does not exclude anybody
neverBusy == TRUE

lockFree == mutex = NoOne

\* lock, or trylock: when that says EBUSY pop returns NULL, as if no job were left
popLock(w) ==
    /\ pc[w] = "pop" /\ (lockFree \/ ~wait)
    /\ mutex' = IF lockFree THEN w ELSE mutex
    /\ pc' = [pc EXCEPT ![w] = IF lockFree THEN "take" ELSE "gone"]
    /\ UNCHANGED <<main, started, finishMode, queueVars, operationCanceled, countVars, job,
                   sliceVars, written>>

\* Mutant: the last job is never found
hasAnother == tail + 1 < head

hasJob == head # tail

\* TinyQueue::pop reads rowids[tail] ...
popRead(w) ==
    /\ pc[w] = "take"
    /\ job' = [job EXCEPT ![w] = IF hasJob THEN rowids[tail + 1] ELSE NoJob]
    /\ pc' = [pc EXCEPT ![w] = "advance"]
    /\ UNCHANGED <<main, started, mutex, finishMode, queueVars, operationCanceled,
                   countVars, sliceVars, written>>

\* Mutant: pop returns early, and keeps the lock, when there is no job
keptIfEmpty(w) == IF job[w] = NoJob THEN w ELSE NoOne

unlocked(w) == NoOne

\* ... and advances tail; no job ends the thread
popUnlock(w) ==
    /\ pc[w] = "advance"
    /\ tail' = IF job[w] = NoJob THEN tail ELSE tail + 1
    /\ mutex' = unlocked(w)
    /\ pc' = [pc EXCEPT ![w] = IF job[w] = NoJob THEN "gone" ELSE "test"]
    /\ UNCHANGED <<main, started, finishMode, rowids, head, operationCanceled, countVars,
                   job, sliceVars, written>>

----------------------------------------------------------------------------
(* cancelRequest and JobQueue::setState(QUEUE_ABORT).                      *)

\* Mutant: the state of the queue is taken for the cancellation
abortSeen == finishMode = "ABORT"

cancelSeen == operationCanceled

\* Called after pop (without a SLICE), in every buffer round and by exitSliceFile.
\* finishMode is written before the lock is taken; the first caller clears the queue.
cancelRequest(w) ==
    /\ pc[w] \in {"test", "round", "exit"} /\ cancelSeen
    /\ genCanceled' = [genCanceled EXCEPT ![w] = pc[w] # "test"]
    /\ finishMode' = "ABORT"
    /\ pc' = [pc EXCEPT ![w] = IF finishMode # "ABORT" THEN "clear"
                               ELSE IF pc[w] = "test" THEN "gone" ELSE "count"]
    /\ job' = [job EXCEPT ![w] = IF pc[w] = "test" THEN NoJob ELSE @]
    /\ UNCHANGED <<main, started, mutex, queueVars, operationCanceled, countVars, outcome,
                   written>>

\* Mutant: TinyQueue::clear forgets tail
keptTail == tail

clearedTail == 0

clearQueue(w) ==
    /\ pc[w] = "clear" /\ lockFree
    /\ head' = 0 /\ tail' = clearedTail /\ rowids' = [i \in Cells |-> NoJob]
    /\ pc' = [pc EXCEPT ![w] = IF genCanceled[w] THEN "count" ELSE "gone"]
    /\ UNCHANGED <<main, started, mutex, finishMode, operationCanceled, countVars, job,
                   sliceVars, written>>

----------------------------------------------------------------------------
(* createSliceFile and the rest of the loop of slices2disk.                *)

createSliceFile(w) ==
    /\ pc[w] = "test" /\ ~cancelSeen
    /\ genCanceled' = [genCanceled EXCEPT ![w] = FALSE]
    /\ outcome' = [outcome EXCEPT ![w] = "ok"]
    /\ pc' = [pc EXCEPT ![w] = "round"]
    /\ UNCHANGED <<main, started, mutex, finishMode, queueVars, operationCanceled,
                   countVars, job, written>>

\* The last buffer round: every byte was processed, or cancelGen gave the slice up
\* because a file could not be read (or the work file not be opened) or written
computeParity(w, r) ==
    /\ pc[w] = "round" /\ ~cancelSeen
    /\ outcome' = [outcome EXCEPT ![w] = r]
    /\ genCanceled' = [genCanceled EXCEPT ![w] = r # "ok"]
    /\ pc' = [pc EXCEPT ![w] = "exit"]
    /\ UNCHANGED <<main, started, mutex, finishMode, queueVars, operationCanceled,
                   countVars, job, written>>

exitSliceFile(w) ==
    /\ pc[w] = "exit" /\ ~cancelSeen
    /\ pc' = [pc EXCEPT ![w] = IF genCanceled[w] THEN "count" ELSE "write"]
    /\ UNCHANGED <<main, started, mutex, finishMode, queueVars, operationCanceled,
                   countVars, job, sliceVars, written>>

\* Header, tail and rename; no cancellation is looked for any more
saveWorkFile(w) ==
    /\ pc[w] = "write"
    /\ written' = written \cup {job[w]} /\ pc' = [pc EXCEPT ![w] = "count"]
    /\ UNCHANGED <<main, started, mutex, finishMode, queueVars, operationCanceled,
                   countVars, job, sliceVars>>

cancelGen(w, r) ==
    /\ pc[w] = "write" /\ r # "ok"
    /\ outcome' = [outcome EXCEPT ![w] = r]
    /\ genCanceled' = [genCanceled EXCEPT ![w] = TRUE]
    /\ pc' = [pc EXCEPT ![w] = "count"]
    /\ UNCHANGED <<main, started, mutex, finishMode, queueVars, operationCanceled,
                   countVars, job, written>>

\* monitorRun counts under the mutex of the TCA
monitorRun(w) ==
    /\ pc[w] = "count" /\ ~(genCanceled[w] /\ outcome[w] = "space")
    /\ filesProcessed' = filesProcessed + 1
    /\ filesSkipped' = filesSkipped + (IF genCanceled[w] THEN 1 ELSE 0)
    /\ job' = [job EXCEPT ![w] = NoJob] /\ pc' = [pc EXCEPT ![w] = "pop"]
    /\ UNCHANGED <<main, started, mutex, finishMode, queueVars, operationCanceled,
                   files2process, sliceVars, written>>

outOfSpace(w) ==
    /\ pc[w] = "count" /\ genCanceled[w] /\ outcome[w] = "space"
    /\ operationCanceled' = TRUE
    /\ job' = [job EXCEPT ![w] = NoJob] /\ pc' = [pc EXCEPT ![w] = "gone"]
    /\ UNCHANGED <<main, started, mutex, finishMode, queueVars, countVars, sliceVars,
                   written>>

----------------------------------------------------------------------------
intHandler ==
    /\ main # "end" /\ operationCanceled' = TRUE
    /\ UNCHANGED <<main, started, mutex, finishMode, queueVars, countVars, pc, job,
                   sliceVars, written>>

Main == startJoin \/ joinThreads \/ \E w \in Workers : createThread(w)

Outcomes == {"ok", "changed", "space"}

slices2disk(w) ==
    \/ popLock(w) \/ popRead(w) \/ popUnlock(w)
    \/ cancelRequest(w) \/ clearQueue(w)
    \/ createSliceFile(w) \/ exitSliceFile(w) \/ saveWorkFile(w)
    \/ \E r \in Outcomes : computeParity(w, r) \/ cancelGen(w, r)
    \/ monitorRun(w) \/ outOfSpace(w)

Next == Main \/ intHandler \/ \E w \in Workers : slices2disk(w)

Spec == Init /\ [][Next]_vars

\* The operating system runs every thread, and disk operations come to an end
LiveSpec == Spec /\ WF_vars(Main) /\ \A w \in Workers : WF_vars(slices2disk(w))

----------------------------------------------------------------------------
TypeOK ==
    /\ main \in {"create", "join", "end"} /\ started \in SUBSET Workers
    /\ mutex \in Workers \cup {NoOne} /\ finishMode \in {"END_OF_DATA", "ABORT"}
    /\ rowids \in [Cells -> Slices \cup {NoJob}]
    /\ head \in 0..QueueSize /\ tail \in 0..head
    /\ operationCanceled \in BOOLEAN
    /\ files2process \in Nat /\ filesProcessed \in Nat /\ filesSkipped \in Nat
    /\ pc \in [Workers -> {"new", "pop", "take", "advance", "test", "clear", "round",
                           "exit", "write", "count", "gone"}]
    /\ job \in [Workers -> Slices \cup {NoJob}]
    /\ genCanceled \in [Workers -> BOOLEAN] /\ outcome \in [Workers -> Outcomes]
    /\ written \in SUBSET Slices

----------------------------------------------------------------------------
(* Properties.                                                             *)

\* A thread has its slice from the moment tail passed it
Held == [w \in Workers |-> IF pc[w] = "advance" THEN NoJob ELSE job[w]]

Dispenser == INSTANCE JobDispenser
    WITH Jobs <- Slices, Takers <- Workers, waiting <- Waiting, held <- Held,
         done <- written, stopped <- operationCanceled

\* pop, setState and the loop of slices2disk hand out each slice once, to one thread,
\* at one moment, and never save one twice (backup.cpp:1963, jobqueue.cpp:47), however
\* the steps of the threads and of a cancellation interleave.
Implements == Dispenser!Spec

\* When the threads are joined and nobody cancelled, every slice that was queued is in
\* the archive or was counted as skipped: none is lost between two pops, and the
\* progress line ends at 100% (backup.cpp:2118, 1897).
NothingForgotten ==
    main = "end" /\ started # {} /\ ~operationCanceled =>
        /\ filesProcessed = files2process
        /\ Cardinality(written) + filesSkipped = files2process

\* A thread that ends while slices wait leaves the work to fewer threads: only a
\* cancelled run may do so (pop returns NULL when a trylock fails, jobqueue.cpp:48).
NoEarlyExit ==
    \A w \in Workers : pc[w] = "gone" => operationCanceled \/ tail = head

\* saveSlices returns, whoever holds or waits for which lock when the run is cancelled.
Joins == <>(main = "end")
============================================================================

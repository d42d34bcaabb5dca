-------------------------- MODULE SlicePoolProofs --------------------------
(***************************************************************************)
(* The threads of saveSlices implement JobDispenser, for any number of     *)
(* slices, threads and places in the queue; a cancelled run saves no slice *)
(* that still waited when it was cancelled.                                *)
(***************************************************************************)
EXTENDS CancelledPool, FiniteSetTheorems, TLAPS

----------------------------------------------------------------------------
(* The inductive invariant: who holds the lock, what the reader of rowids  *)
(* may rely on until it advances tail, which threads have a slice, and     *)
(* that slices are in one place.                                           *)

LockInv == \A w \in Workers : pc[w] \in {"take", "advance"} <=> mutex = w

QueueInv ==
    /\ \A i \in 1..head : rowids[i] # NoJob
    /\ \A i, k \in 1..head : rowids[i] = rowids[k] => i = k

PeekInv ==
    \A w \in Workers : pc[w] = "advance" /\ job[w] # NoJob =>
                           tail < head /\ job[w] = rowids[tail + 1]

JobInv ==
    \A w \in Workers :
        /\ w \notin started => pc[w] = "new"
        /\ pc[w] \in {"new", "pop", "take", "gone"} => job[w] = NoJob
        /\ pc[w] \in {"test", "round", "exit", "write", "count"} => job[w] # NoJob
        /\ pc[w] = "clear" => operationCanceled /\ (genCanceled[w] <=> job[w] # NoJob)

PlaceInv ==
    /\ \A w \in Workers : Held[w] \notin Waiting
    /\ \A w, u \in Workers : w # u /\ Held[w] # NoJob => Held[w] # Held[u]
    /\ written \cap Waiting = {}
    /\ \A w \in Workers : pc[w] \in {"test", "round", "exit", "write"} => job[w] \notin written

PoolInv == TypeOK /\ LockInv /\ QueueInv /\ PeekInv /\ JobInv /\ PlaceInv

LEMMA SomeCells == ASSUME TypeOK PROVE 1..head \subseteq Cells /\ (tail + 1)..head \subseteq 1..head
BY QueueSizeAssumption DEF TypeOK, Cells

\* What waits after tail moved on.
LEMMA WaitingAdvanced ==
    ASSUME TypeOK, QueueInv, tail < head
    PROVE  {rowids[i] : i \in (tail + 2)..head} = Waiting \ {rowids[tail + 1]}
<1>1. tail \in Nat /\ head \in Nat /\ tail + 1 \in 1..head
    BY QueueSizeAssumption DEF TypeOK
<1>2. \A i \in (tail + 1)..head : i \in 1..head /\ (i = tail + 1 \/ i \in (tail + 2)..head)
    BY <1>1
<1>3. \A i \in (tail + 2)..head : i \in (tail + 1)..head /\ rowids[i] # rowids[tail + 1]
    BY <1>1, <1>2 DEF QueueInv
<1>4. QED
    BY <1>2, <1>3 DEF Waiting

LEMMA PoolInit == Init => PoolInv
<1> SUFFICES ASSUME Init PROVE PoolInv
    OBVIOUS
<1>1. Cardinality(Slices) \in Nat
    BY SlicesAssumption, FS_CardinalityType
<1>2. head \in 0..QueueSize /\ tail = 0
    BY DEF Init
<1>3. TypeOK
    <2>1. head \in 0..QueueSize /\ tail \in 0..head /\ head \in Nat
        BY <1>2, QueueSizeAssumption
    <2>2. mutex = NoOne /\ main = "create" /\ finishMode = "END_OF_DATA"
        BY DEF Init
    <2>3. QED
        BY <2>1, <2>2 DEF Init, TypeOK, Outcomes
<1>4. QueueInv
    BY <1>2, QueueSizeAssumption DEF Init, QueueInv, Cells
<1>5. \A i \in 1..head : rowids[i] \in Slices
    BY <1>3, <1>4, SomeCells DEF QueueInv, TypeOK
<1>6. NoJob \notin Waiting
    BY <1>2, <1>5, SlicesAssumption, QueueSizeAssumption DEF Waiting
<1>7. PlaceInv
    BY <1>6 DEF Init, PlaceInv, Held
<1>8. LockInv /\ PeekInv /\ JobInv
    BY WorkersAssumption DEF Init, LockInv, PeekInv, JobInv
<1>9. QED
    BY <1>3, <1>4, <1>7, <1>8 DEF PoolInv

----------------------------------------------------------------------------
(* Every step keeps the types.                                             *)

LEMMA TypeStep == PoolInv /\ [Next]_vars => TypeOK'
<1> SUFFICES ASSUME PoolInv, [Next]_vars PROVE TypeOK'
    OBVIOUS
<1>1. TypeOK
    BY DEF PoolInv
<1> USE <1>1 DEF queueVars, countVars, sliceVars
<1>2. CASE UNCHANGED vars \/ Main \/ intHandler
    BY <1>2 DEF vars, Main, startJoin, joinThreads, createThread, intHandler, TypeOK
<1>3. ASSUME NEW w \in Workers, popLock(w) PROVE TypeOK'
    BY <1>3 DEF popLock, TypeOK
<1>4. ASSUME NEW w \in Workers, popRead(w) PROVE TypeOK'
    <2>1. CASE hasJob
        <3>1. tail + 1 \in 1..head
            BY <2>1, QueueSizeAssumption DEF hasJob, TypeOK
        <3>2. rowids[tail + 1] \in Slices \cup {NoJob}
            BY <3>1, SomeCells DEF TypeOK
        <3>3. QED
            BY <1>4, <2>1, <3>2 DEF popRead, TypeOK
    <2>2. CASE ~hasJob
        BY <1>4, <2>2 DEF popRead, TypeOK
    <2>3. QED
        BY <2>1, <2>2
<1>5. ASSUME NEW w \in Workers, popUnlock(w) PROVE TypeOK'
    <2>1. tail' \in 0..head
        <3>1. job[w] # NoJob => tail < head
            BY <1>5 DEF popUnlock, PoolInv, PeekInv
        <3>2. QED
            BY <1>5, <3>1, QueueSizeAssumption DEF popUnlock, TypeOK
    <2>2. QED
        BY <1>5, <2>1 DEF popUnlock, unlocked, TypeOK
<1>6. ASSUME NEW w \in Workers, cancelRequest(w) PROVE TypeOK'
    BY <1>6 DEF cancelRequest, TypeOK
<1>7. ASSUME NEW w \in Workers, clearQueue(w) PROVE TypeOK'
    BY <1>7, QueueSizeAssumption DEF clearQueue, clearedTail, TypeOK
<1>8. ASSUME NEW w \in Workers,
             createSliceFile(w) \/ exitSliceFile(w) \/ saveWorkFile(w) \/ outOfSpace(w)
      PROVE  TypeOK'
    <2>1. CASE saveWorkFile(w)
        <3>1. job[w] \in Slices
            BY <2>1 DEF saveWorkFile, PoolInv, JobInv, TypeOK
        <3>2. QED
            BY <2>1, <3>1 DEF saveWorkFile, TypeOK
    <2>2. CASE createSliceFile(w) \/ exitSliceFile(w) \/ outOfSpace(w)
        BY <2>2 DEF createSliceFile, exitSliceFile, outOfSpace, TypeOK, Outcomes
    <2>3. QED
        BY <1>8, <2>1, <2>2
<1>9. ASSUME NEW w \in Workers, NEW r \in Outcomes, computeParity(w, r) \/ cancelGen(w, r)
      PROVE  TypeOK'
    BY <1>9 DEF computeParity, cancelGen, TypeOK
<1>10. ASSUME NEW w \in Workers, monitorRun(w) PROVE TypeOK'
    BY <1>10 DEF monitorRun, TypeOK
<1>11. QED
    BY <1>2, <1>3, <1>4, <1>5, <1>6, <1>7, <1>8, <1>9, <1>10 DEF Next, slices2disk

----------------------------------------------------------------------------
(* Steps of a thread outside pop and clear.                                *)

\* They leave the lock and the queue alone and at most let go of the thread's slice.
LEMMA LocalStep ==
    ASSUME PoolInv, TypeOK', NEW w \in Workers,
           pc[w] \notin {"take", "advance"}, pc'[w] \notin {"take", "advance"},
           job'[w] \in {job[w], NoJob},
           \A u \in Workers \ {w} : pc'[u] = pc[u] /\ job'[u] = job[u],
           UNCHANGED <<mutex, rowids, head, tail>>
    PROVE  /\ LockInv' /\ QueueInv' /\ PeekInv' /\ Waiting' = Waiting
           /\ \A u \in Workers \ {w} : Held'[u] = Held[u]
           /\ Held[w] = job[w] /\ Held'[w] = job'[w]
<1>1. LockInv'
    BY DEF PoolInv, LockInv
<1>2. QueueInv' /\ Waiting' = Waiting
    BY DEF PoolInv, QueueInv, Waiting
<1>3. PeekInv'
    BY DEF PoolInv, PeekInv
<1>4. QED
    BY <1>1, <1>2, <1>3 DEF Held

\* No slice waits under the name of "no job".
LEMMA NoJobNeverWaits == ASSUME PoolInv PROVE NoJob \notin Waiting
BY SomeCells DEF PoolInv, QueueInv, Waiting

\* So the slices stay in one place, if the thread does not save its slice in this step.
LEMMA LocalPlace ==
    ASSUME PoolInv, TypeOK', NEW w \in Workers,
           pc[w] \notin {"take", "advance"}, pc'[w] \notin {"take", "advance"},
           job'[w] \in {job[w], NoJob},
           \A u \in Workers \ {w} : pc'[u] = pc[u] /\ job'[u] = job[u],
           UNCHANGED <<mutex, rowids, head, tail, written>>,
           pc'[w] \in {"test", "round", "exit", "write"}
               => pc[w] \in {"test", "round", "exit", "write"} /\ job'[w] = job[w]
    PROVE  PlaceInv'
<1>1. Waiting' = Waiting
    BY LocalStep
<1>2. \A u \in Workers : Held'[u] \in {Held[u], NoJob}
    BY LocalStep
<1>3. QED
    BY <1>1, <1>2, NoJobNeverWaits DEF PoolInv, PlaceInv

----------------------------------------------------------------------------
(* Every step keeps the rest of the invariant.                             *)

LEMMA MainStep == PoolInv /\ (Main \/ intHandler \/ UNCHANGED vars) => PoolInv'
<1> SUFFICES ASSUME PoolInv, Main \/ intHandler \/ UNCHANGED vars PROVE PoolInv'
    OBVIOUS
<1>1. TypeOK /\ TypeOK'
    BY TypeStep DEF PoolInv, Next
<1> USE <1>1 DEF queueVars, countVars, sliceVars
<1>2. ASSUME NEW w \in Workers, createThread(w) PROVE PoolInv'
    <2>1. pc[w] = "new" /\ pc'[w] = "pop" /\ \A u \in Workers \ {w} : pc'[u] = pc[u]
        BY <1>2 DEF createThread, PoolInv, JobInv, TypeOK
    <2>2. LockInv' /\ QueueInv' /\ PeekInv' /\ JobInv'
        BY <1>2, <2>1 DEF createThread, PoolInv, LockInv, QueueInv, PeekInv, JobInv
    <2>3. Held' = Held /\ Waiting' = Waiting
        BY <1>2, <2>1 DEF createThread, Held, Waiting
    <2>4. QED
        BY <1>2, <2>1, <2>2, <2>3 DEF createThread, PoolInv, PlaceInv
<1>3. CASE startJoin \/ joinThreads \/ intHandler \/ UNCHANGED vars
    BY <1>3 DEF startJoin, joinThreads, intHandler, vars, PoolInv, LockInv, QueueInv, PeekInv,
                JobInv, PlaceInv, Held, Waiting
<1>4. QED
    BY <1>2, <1>3 DEF Main

LEMMA PopStep ==
    ASSUME PoolInv, NEW w \in Workers, popLock(w) \/ popRead(w) \/ popUnlock(w)
    PROVE  PoolInv'
<1>1. TypeOK /\ TypeOK'
    BY TypeStep DEF PoolInv, Next, slices2disk
<1> USE <1>1 DEF queueVars, countVars, sliceVars
<1>2. CASE popLock(w)
    <2>1. LockInv' /\ PeekInv'
        BY <1>2, WorkersAssumption
           DEF popLock, lockFree, PoolInv, LockInv, PeekInv, TypeOK
    <2>2. QueueInv' /\ JobInv' /\ PlaceInv'
        BY <1>2 DEF popLock, PoolInv, QueueInv, JobInv, PlaceInv, Held, Waiting, TypeOK
    <2>3. QED
        BY <2>1, <2>2 DEF PoolInv
<1>3. CASE popRead(w)
    <2>1. LockInv' /\ QueueInv' /\ JobInv'
        BY <1>3 DEF popRead, PoolInv, LockInv, QueueInv, JobInv, TypeOK
    <2>2. PeekInv'
        <3>1. ASSUME hasJob PROVE tail < head
            BY <3>1, QueueSizeAssumption DEF hasJob, TypeOK
        <3>2. QED
            BY <1>3, <3>1 DEF popRead, PoolInv, PeekInv, TypeOK
    <2>3. PlaceInv'
        <3>1. Held' = Held
            BY <1>3 DEF popRead, PoolInv, JobInv, Held, TypeOK
        <3>2. Waiting' = Waiting
            BY <1>3 DEF popRead, Waiting
        <3>3. QED
            BY <1>3, <3>1, <3>2 DEF popRead, PoolInv, PlaceInv, TypeOK
    <2>4. QED
        BY <2>1, <2>2, <2>3 DEF PoolInv
<1>4. CASE popUnlock(w)
    <2>1. \A u \in Workers \ {w} : pc[u] \notin {"take", "advance"}
        BY <1>4 DEF popUnlock, PoolInv, LockInv
    <2>2. LockInv' /\ QueueInv' /\ PeekInv' /\ JobInv'
        BY <1>4, <2>1, WorkersAssumption
           DEF popUnlock, unlocked, PoolInv, LockInv, QueueInv, PeekInv, JobInv, TypeOK
    <2>3. CASE job[w] = NoJob
        <3>1. Waiting' = Waiting
            BY <1>4, <2>3 DEF popUnlock, Waiting
        <3>2. Held' = Held
            BY <1>4, <2>3 DEF popUnlock, Held, TypeOK
        <3>3. QED
            BY <1>4, <2>2, <2>3, <3>1, <3>2 DEF popUnlock, PoolInv, PlaceInv, TypeOK
    <2>4. CASE job[w] # NoJob
        <3>1. tail < head /\ job[w] = rowids[tail + 1]
            BY <1>4, <2>4 DEF popUnlock, PoolInv, PeekInv
        <3>2. Waiting' = Waiting \ {job[w]}
            <4>1. {rowids[i] : i \in (tail + 2)..head} = Waiting \ {rowids[tail + 1]}
                BY <3>1, WaitingAdvanced DEF PoolInv
            <4>2. tail \in Nat /\ tail' + 1 = tail + 2
                BY <1>4, <2>4, QueueSizeAssumption DEF popUnlock, TypeOK
            <4>3. QED
                BY <1>4, <3>1, <4>1, <4>2 DEF popUnlock, Waiting
        <3>3. job[w] \in Waiting
            <4>1. tail + 1 \in (tail + 1)..head
                BY <3>1, QueueSizeAssumption DEF TypeOK
            <4>2. QED
                BY <3>1, <4>1 DEF Waiting
        <3>4. Held'[w] = job[w] /\ \A u \in Workers \ {w} : Held'[u] = Held[u]
            BY <1>4, <2>4 DEF popUnlock, Held, TypeOK
        <3>5. PlaceInv'
            BY <1>4, <2>4, <3>2, <3>3, <3>4 DEF popUnlock, PoolInv, PlaceInv, TypeOK
        <3>6. QED
            BY <2>2, <3>5 DEF PoolInv
    <2>5. QED
        BY <2>3, <2>4
<1>5. QED
    BY <1>2, <1>3, <1>4

LEMMA ClearStep == ASSUME PoolInv, NEW w \in Workers, clearQueue(w) PROVE PoolInv'
<1>1. TypeOK /\ TypeOK'
    BY TypeStep DEF PoolInv, Next, slices2disk
<1>2. \A u \in Workers : pc[u] \notin {"take", "advance"} /\ pc'[u] \notin {"take", "advance"}
    BY <1>1, WorkersAssumption DEF clearQueue, lockFree, PoolInv, LockInv, TypeOK
<1>3. LockInv' /\ PeekInv'
    BY <1>1, <1>2, WorkersAssumption DEF clearQueue, lockFree, PoolInv, LockInv, PeekInv
<1>4. QueueInv' /\ Waiting' = {}
    BY DEF clearQueue, clearedTail, QueueInv, Waiting
<1>5. JobInv'
    BY <1>1 DEF clearQueue, PoolInv, JobInv, TypeOK, sliceVars
<1>6. Held' = Held
    BY <1>2 DEF clearQueue, Held
<1>7. PlaceInv'
    BY <1>1, <1>4, <1>6 DEF clearQueue, PoolInv, PlaceInv, TypeOK
<1>8. QED
    BY <1>1, <1>3, <1>4, <1>5, <1>7 DEF PoolInv

\* What the thread does between pop and the next pop.
LEMMA SliceStep ==
    ASSUME PoolInv, NEW w \in Workers,
           \/ cancelRequest(w) \/ createSliceFile(w) \/ exitSliceFile(w) \/ saveWorkFile(w)
           \/ \E r \in Outcomes : computeParity(w, r) \/ cancelGen(w, r)
           \/ monitorRun(w) \/ outOfSpace(w)
    PROVE  PoolInv'
<1>1. TypeOK /\ TypeOK'
    BY TypeStep DEF PoolInv, Next, slices2disk
<1> USE <1>1 DEF queueVars, countVars, sliceVars
<1> DEFINE At == pc[w] \notin {"take", "advance"} /\ pc'[w] \notin {"take", "advance"}
           Own == /\ job'[w] \in {job[w], NoJob}
                  /\ \A u \in Workers \ {w} : pc'[u] = pc[u] /\ job'[u] = job[u]
                  /\ UNCHANGED <<mutex, rowids, head, tail>>
<1>2. CASE cancelRequest(w)
    <2>1. At /\ Own
        BY <1>2 DEF cancelRequest, TypeOK
    <2>2. JobInv'
        BY <1>2 DEF cancelRequest, cancelSeen, PoolInv, JobInv, TypeOK
    <2>3. PlaceInv'
        BY <1>2, <2>1, LocalPlace DEF cancelRequest, TypeOK
    <2>4. QED
        BY <2>1, <2>2, <2>3, LocalStep DEF PoolInv
<1>3. CASE createSliceFile(w) \/ exitSliceFile(w)
    <2>1. At /\ Own
        BY <1>3 DEF createSliceFile, exitSliceFile, TypeOK
    <2>2. JobInv'
        BY <1>3 DEF createSliceFile, exitSliceFile, PoolInv, JobInv, TypeOK
    <2>3. PlaceInv'
        BY <1>3, <2>1, LocalPlace DEF createSliceFile, exitSliceFile, TypeOK
    <2>4. QED
        BY <2>1, <2>2, <2>3, LocalStep DEF PoolInv
<1>4. ASSUME NEW r \in Outcomes, computeParity(w, r) \/ cancelGen(w, r) PROVE PoolInv'
    <2>1. At /\ Own
        BY <1>4 DEF computeParity, cancelGen, TypeOK
    <2>2. JobInv'
        BY <1>4 DEF computeParity, cancelGen, PoolInv, JobInv, TypeOK
    <2>3. PlaceInv'
        BY <1>4, <2>1, LocalPlace DEF computeParity, cancelGen, TypeOK
    <2>4. QED
        BY <2>1, <2>2, <2>3, LocalStep DEF PoolInv
<1>5. CASE monitorRun(w) \/ outOfSpace(w)
    <2>1. At /\ Own
        BY <1>5 DEF monitorRun, outOfSpace, TypeOK
    <2>2. JobInv'
        BY <1>5 DEF monitorRun, outOfSpace, PoolInv, JobInv, TypeOK
    <2>3. PlaceInv'
        BY <1>5, <2>1, LocalPlace DEF monitorRun, outOfSpace, TypeOK
    <2>4. QED
        BY <2>1, <2>2, <2>3, LocalStep DEF PoolInv
<1>6. CASE saveWorkFile(w)
    <2>1. At /\ Own /\ job' = job
        BY <1>6 DEF saveWorkFile, TypeOK
    <2>2. JobInv'
        BY <1>6 DEF saveWorkFile, PoolInv, JobInv, TypeOK
    <2>3. Waiting' = Waiting /\ Held' = Held
        BY <1>6, <2>1, LocalStep DEF Held
    <2>4. job[w] = Held[w] /\ job[w] # NoJob
        BY <1>6 DEF saveWorkFile, Held, PoolInv, JobInv
    <2>5. \A u \in Workers \ {w} :
             pc'[u] \in {"test", "round", "exit", "write"} => job[u] # job[w]
        BY <2>1, <2>4 DEF PoolInv, PlaceInv, Held
    <2>6. PlaceInv'
        BY <1>6, <2>1, <2>3, <2>4, <2>5 DEF saveWorkFile, PoolInv, PlaceInv, TypeOK
    <2>7. QED
        BY <2>1, <2>2, <2>6, LocalStep DEF PoolInv
<1>7. QED
    BY <1>2, <1>3, <1>4, <1>5, <1>6

LEMMA PoolStep == PoolInv /\ [Next]_vars => PoolInv'
BY MainStep, PopStep, ClearStep, SliceStep DEF Next, slices2disk

\* The lock, the queue and the threads agree, and every slice is in one place.
THEOREM PoolInvariant == Spec => []PoolInv
BY PoolInit, PoolStep, PTL DEF Spec

\* Type correctness.
THEOREM TypeCorrect == Spec => []TypeOK
<1>1. PoolInv => TypeOK
    BY DEF PoolInv
<1>2. QED
    BY <1>1, PoolInvariant, PTL

----------------------------------------------------------------------------
(* Refinement: pop takes effect when tail is advanced under the lock,      *)
(* setState when it clears the queue.                                      *)

Stutters == UNCHANGED <<Waiting, Held, written, operationCanceled>>

LEMMA RefinesInit == Init => Dispenser!Init
<1> SUFFICES ASSUME Init PROVE Dispenser!Init
    OBVIOUS
<1>1. TypeOK
    BY PoolInit DEF PoolInv
<1>2. Waiting \subseteq Slices
    BY <1>1, SomeCells, PoolInit, NoJobNeverWaits DEF TypeOK, Waiting
<1>3. QED
    BY <1>2 DEF Init, Dispenser!Init, Held

LEMMA PopRefines ==
    ASSUME PoolInv, NEW w \in Workers, popUnlock(w)
    PROVE  Dispenser!take(w) \/ Stutters
<1>1. TypeOK
    BY DEF PoolInv
<1> USE <1>1
<1>2. CASE job[w] = NoJob
    <2>1. Waiting' = Waiting
        BY <1>2 DEF popUnlock, Waiting
    <2>2. Held' = Held
        BY <1>2 DEF popUnlock, Held, TypeOK
    <2>3. QED
        BY <2>1, <2>2 DEF popUnlock, Stutters
<1>3. CASE job[w] # NoJob
    <2>1. tail < head /\ job[w] = rowids[tail + 1]
        BY <1>3 DEF popUnlock, PoolInv, PeekInv
    <2>2. tail \in Nat /\ tail + 1 \in (tail + 1)..head
        BY <2>1, QueueSizeAssumption DEF TypeOK
    <2>3. job[w] \in Waiting
        BY <2>1, <2>2 DEF Waiting
    <2>4. Waiting' = Waiting \ {job[w]}
        <3>1. {rowids[i] : i \in (tail + 2)..head} = Waiting \ {rowids[tail + 1]}
            BY <2>1, WaitingAdvanced DEF PoolInv
        <3>2. tail' + 1 = tail + 2
            BY <1>3, <2>2 DEF popUnlock
        <3>3. QED
            BY <2>1, <3>1, <3>2 DEF popUnlock, Waiting
    <2>5. Held[w] = NoJob /\ Held' = [Held EXCEPT ![w] = job[w]]
        BY <1>3 DEF popUnlock, Held, TypeOK
    <2>6. QED
        BY <2>3, <2>4, <2>5 DEF popUnlock, Dispenser!take
<1>4. QED
    BY <1>2, <1>3

LEMMA SliceRefines ==
    ASSUME PoolInv, NEW w \in Workers,
           \/ cancelRequest(w) \/ createSliceFile(w) \/ exitSliceFile(w) \/ saveWorkFile(w)
           \/ \E r \in Outcomes : computeParity(w, r) \/ cancelGen(w, r)
           \/ monitorRun(w) \/ outOfSpace(w)
    PROVE  Dispenser!save(w) \/ Dispenser!release(w) \/ Stutters
<1>1. TypeOK
    BY DEF PoolInv
<1> USE <1>1 DEF queueVars, countVars, sliceVars
<1>2. ASSUME UNCHANGED queueVars PROVE Waiting' = Waiting
    BY <1>2 DEF Waiting
<1>3. CASE saveWorkFile(w)
    <2>1. Held[w] = job[w] /\ job[w] \notin written \cup {NoJob}
        BY <1>3 DEF saveWorkFile, Held, PoolInv, JobInv, PlaceInv
    <2>2. Held' = Held
        BY <1>3 DEF saveWorkFile, Held, TypeOK
    <2>3. QED
        BY <1>2, <1>3, <2>1, <2>2 DEF saveWorkFile, Dispenser!save
<1>4. CASE monitorRun(w) \/ outOfSpace(w)
    <2>1. Held[w] # NoJob
        BY <1>4 DEF monitorRun, outOfSpace, Held, PoolInv, JobInv
    <2>2. Held' = [Held EXCEPT ![w] = NoJob]
        BY <1>4 DEF monitorRun, outOfSpace, Held, TypeOK
    <2>3. QED
        BY <1>2, <1>4, <2>1, <2>2 DEF monitorRun, outOfSpace, Dispenser!release
<1>5. CASE cancelRequest(w)
    <2>1. CASE pc[w] = "test"
        <3>1. Held[w] # NoJob
            BY <2>1 DEF Held, PoolInv, JobInv
        <3>2. Held' = [Held EXCEPT ![w] = NoJob]
            BY <1>5, <2>1 DEF cancelRequest, Held, TypeOK
        <3>3. QED
            BY <1>2, <1>5, <3>1, <3>2 DEF cancelRequest, Dispenser!release
    <2>2. CASE pc[w] # "test"
        <3>1. Held' = Held
            BY <1>5, <2>2 DEF cancelRequest, Held, TypeOK
        <3>2. QED
            BY <1>2, <1>5, <3>1 DEF cancelRequest, Stutters
    <2>3. QED
        BY <2>1, <2>2
<1>6. CASE createSliceFile(w) \/ exitSliceFile(w)
    <2>1. Held' = Held
        BY <1>6 DEF createSliceFile, exitSliceFile, Held, TypeOK
    <2>2. QED
        BY <1>2, <1>6, <2>1 DEF createSliceFile, exitSliceFile, Stutters
<1>7. ASSUME NEW r \in Outcomes, computeParity(w, r) \/ cancelGen(w, r) PROVE Stutters
    <2>1. Held' = Held
        BY <1>7 DEF computeParity, cancelGen, Held, TypeOK
    <2>2. QED
        BY <1>2, <1>7, <2>1 DEF computeParity, cancelGen, Stutters
<1>8. QED
    BY <1>3, <1>4, <1>5, <1>6, <1>7

LEMMA RefinesStep == PoolInv /\ [Next]_vars => [Dispenser!Next]_(Dispenser!vars)
<1> SUFFICES ASSUME PoolInv, [Next]_vars PROVE Dispenser!Next \/ Stutters
    BY DEF Stutters, Dispenser!vars
<1>1. TypeOK
    BY DEF PoolInv
<1> USE <1>1 DEF queueVars, countVars, sliceVars
<1>2. CASE startJoin \/ joinThreads \/ UNCHANGED vars
    BY <1>2 DEF startJoin, joinThreads, vars, Stutters, Held, Waiting
<1>3. ASSUME NEW w \in Workers, createThread(w) PROVE Stutters
    <2>1. pc[w] = "new"
        BY <1>3 DEF createThread, PoolInv, JobInv
    <2>2. Held' = Held
        BY <1>3, <2>1 DEF createThread, Held, TypeOK
    <2>3. QED
        BY <1>3, <2>2 DEF createThread, Stutters, Waiting
<1>4. CASE intHandler
    BY <1>4 DEF intHandler, Dispenser!Next, Dispenser!stop, Held, Waiting
<1>5. ASSUME NEW w \in Workers, popLock(w) \/ popRead(w) PROVE Stutters
    <2>1. Held' = Held
        BY <1>5 DEF popLock, popRead, Held, PoolInv, JobInv, TypeOK
    <2>2. QED
        BY <1>5, <2>1 DEF popLock, popRead, Stutters, Waiting
<1>6. ASSUME NEW w \in Workers, clearQueue(w) PROVE Dispenser!discard
    <2>1. Held' = Held
        BY <1>6 DEF clearQueue, Held, TypeOK
    <2>2. Waiting' = {}
        BY <1>6 DEF clearQueue, clearedTail, Waiting
    <2>3. operationCanceled
        BY <1>6 DEF clearQueue, PoolInv, JobInv
    <2>4. QED
        BY <1>6, <2>1, <2>2, <2>3 DEF clearQueue, Dispenser!discard
<1>7. QED
    BY <1>2, <1>3, <1>4, <1>5, <1>6, PopRefines, SliceRefines
       DEF Next, Main, slices2disk, Dispenser!Next

\* pop, setState and the loop of slices2disk hand out each slice once, to one thread, at
\* one moment, and save none twice.
THEOREM PoolImplements == Spec => Implements
BY RefinesInit, RefinesStep, PoolInvariant, PTL DEF Spec, Implements, Dispenser!Spec

\* What JobDispenser promises holds of the threads: no slice is with two of them, and one
\* that waits is neither saved nor with any of them.
THEOREM SlicesInOnePlace == Spec => []Dispenser!OnePlace
<1>1. PoolInv => Dispenser!OnePlace
    BY NoJobNeverWaits DEF PoolInv, PlaceInv, Dispenser!OnePlace
<1>2. QED
    BY <1>1, PoolInvariant, PTL

----------------------------------------------------------------------------
(* No thread leaves early.                                                 *)

\* With one thread nobody else holds the lock.
LEMMA OneWorker ==
    ASSUME ~wait, NEW w \in Workers, NEW u \in Workers PROVE u = w
<1>1. Cardinality(Workers) \in Nat /\ Cardinality(Workers) <= 1
    BY WorkersAssumption, FS_CardinalityType DEF wait
<1>2. Cardinality(Workers) = 0 => Workers = {}
    BY WorkersAssumption, FS_EmptySet
<1>3. Cardinality(Workers) = 1 => \E x : Workers = {x}
    BY WorkersAssumption, FS_Singleton
<1>4. QED
    BY <1>1, <1>2, <1>3

\* A thread that got no job found the queue empty, and it stays empty.
ExitInv ==
    /\ NoEarlyExit
    /\ \A w \in Workers : pc[w] = "advance" /\ job[w] = NoJob => tail = head

LEMMA ExitInit == Init => ExitInv
BY DEF Init, ExitInv, NoEarlyExit

LEMMA ExitStep == PoolInv /\ ExitInv /\ [Next]_vars => ExitInv'
<1> SUFFICES ASSUME PoolInv, ExitInv, [Next]_vars PROVE ExitInv'
    OBVIOUS
<1>1. TypeOK
    BY DEF PoolInv
<1> USE <1>1 DEF queueVars, countVars, sliceVars
<1>2. CASE UNCHANGED vars \/ Main \/ intHandler
    BY <1>2 DEF vars, Main, startJoin, joinThreads, createThread, intHandler, ExitInv,
                NoEarlyExit, TypeOK
<1>3. ASSUME NEW w \in Workers, popLock(w) PROVE ExitInv'
    <2>1. lockFree
        <3>1. ASSUME ~wait PROVE mutex \in {NoOne, w}
            BY <3>1, OneWorker DEF TypeOK
        <3>2. mutex # w
            BY <1>3 DEF popLock, PoolInv, LockInv
        <3>3. QED
            BY <1>3, <3>1, <3>2 DEF popLock, lockFree
    <2>2. QED
        BY <1>3, <2>1 DEF popLock, ExitInv, NoEarlyExit, TypeOK
<1>4. ASSUME NEW w \in Workers, popRead(w) PROVE ExitInv'
    <2>1. hasJob => rowids[tail + 1] # NoJob
        <3>1. hasJob => tail + 1 \in 1..head
            BY QueueSizeAssumption DEF hasJob, TypeOK
        <3>2. QED
            BY <3>1 DEF PoolInv, QueueInv
    <2>2. job'[w] = NoJob => tail = head
        BY <1>4, <2>1 DEF popRead, hasJob, TypeOK
    <2>3. QED
        BY <1>4, <2>2 DEF popRead, ExitInv, NoEarlyExit, TypeOK
<1>5. ASSUME NEW w \in Workers, popUnlock(w) PROVE ExitInv'
    <2>1. \A u \in Workers \ {w} : pc[u] # "advance"
        BY <1>5 DEF popUnlock, PoolInv, LockInv
    <2>2. job[w] # NoJob => tail < head
        BY <1>5 DEF popUnlock, PoolInv, PeekInv
    <2>3. \A u \in Workers : pc[u] = "gone" => operationCanceled \/ tail = head
        BY DEF ExitInv, NoEarlyExit
    <2>4. CASE job[w] = NoJob
        BY <1>5, <2>1, <2>3, <2>4 DEF popUnlock, ExitInv, NoEarlyExit, TypeOK
    <2>5. CASE job[w] # NoJob
        <3>1. tail # head
            BY <2>2, <2>5, QueueSizeAssumption DEF TypeOK
        <3>2. QED
            BY <1>5, <2>1, <2>3, <2>5, <3>1 DEF popUnlock, ExitInv, NoEarlyExit, TypeOK
    <2>6. QED
        BY <2>4, <2>5
<1>6. ASSUME NEW w \in Workers, cancelRequest(w) \/ clearQueue(w) PROVE ExitInv'
    BY <1>6 DEF cancelRequest, cancelSeen, clearQueue, clearedTail, PoolInv, JobInv, ExitInv,
                NoEarlyExit, TypeOK
<1>7. ASSUME NEW w \in Workers,
             \/ createSliceFile(w) \/ exitSliceFile(w) \/ saveWorkFile(w)
             \/ \E r \in Outcomes : computeParity(w, r) \/ cancelGen(w, r)
             \/ monitorRun(w) \/ outOfSpace(w)
      PROVE  ExitInv'
    BY <1>7 DEF createSliceFile, exitSliceFile, saveWorkFile, computeParity, cancelGen,
                monitorRun, outOfSpace, ExitInv, NoEarlyExit, TypeOK
<1>8. QED
    BY <1>2, <1>3, <1>4, <1>5, <1>6, <1>7 DEF Next, slices2disk

\* A thread ends while slices wait only in a cancelled run.
THEOREM NoEarlyExitHolds == Spec => []NoEarlyExit
<1>1. ExitInv => NoEarlyExit
    BY DEF ExitInv
<1>2. QED
    BY <1>1, ExitInit, ExitStep, PoolInvariant, PTL DEF Spec

----------------------------------------------------------------------------
(* Nothing is forgotten: until somebody cancels, a slice is counted, waits *)
(* or is with a thread, and one that was counted is saved or was skipped.  *)

Busy == {w \in Workers : pc[w] \in {"test", "round", "exit", "write", "count"}}

\* Threads whose slice is saved and not counted yet.
Uncounted == {w \in Workers : pc[w] = "count" /\ ~genCanceled[w]}

ThreadInv ==
    /\ \A w \in started : pc[w] # "new"
    /\ main = "end" => \A w \in started : pc[w] = "gone"
    /\ \A w \in Workers : pc[w] = "write" => ~genCanceled[w]

CountInv ==
    ~operationCanceled =>
        /\ files2process = filesProcessed + (head - tail) + Cardinality(Busy)
        /\ Cardinality(written) + filesSkipped = filesProcessed + Cardinality(Uncounted)

LEMMA ThreadStep == TypeOK /\ ThreadInv /\ [Next]_vars => ThreadInv'
<1> SUFFICES ASSUME TypeOK, ThreadInv, [Next]_vars PROVE ThreadInv'
    OBVIOUS
<1> USE DEF queueVars, countVars, sliceVars
<1>1. CASE UNCHANGED vars \/ Main \/ intHandler
    BY <1>1 DEF vars, Main, startJoin, joinThreads, createThread, intHandler, ThreadInv, TypeOK
<1>2. ASSUME NEW w \in Workers, popLock(w) \/ popRead(w) \/ popUnlock(w) PROVE ThreadInv'
    BY <1>2 DEF popLock, popRead, popUnlock, ThreadInv, TypeOK
<1>3. ASSUME NEW w \in Workers, cancelRequest(w) \/ clearQueue(w) PROVE ThreadInv'
    BY <1>3 DEF cancelRequest, clearQueue, ThreadInv, TypeOK
<1>4. ASSUME NEW w \in Workers,
             \/ createSliceFile(w) \/ exitSliceFile(w) \/ saveWorkFile(w)
             \/ \E r \in Outcomes : computeParity(w, r) \/ cancelGen(w, r)
             \/ monitorRun(w) \/ outOfSpace(w)
      PROVE  ThreadInv'
    BY <1>4 DEF createSliceFile, exitSliceFile, saveWorkFile, computeParity, cancelGen,
                monitorRun, outOfSpace, ThreadInv, TypeOK
<1>5. QED
    BY <1>1, <1>2, <1>3, <1>4 DEF Next, slices2disk

\* The sets that are counted are finite.
LEMMA Countable ==
    ASSUME TypeOK
    PROVE  /\ IsFiniteSet(Busy) /\ Cardinality(Busy) \in Nat
           /\ IsFiniteSet(Uncounted) /\ Cardinality(Uncounted) \in Nat
           /\ IsFiniteSet(written) /\ Cardinality(written) \in Nat
           /\ head \in Nat /\ tail \in Nat
<1>1. Busy \in SUBSET Workers /\ Uncounted \in SUBSET Workers /\ written \in SUBSET Slices
    BY DEF Busy, Uncounted, TypeOK
<1>2. IsFiniteSet(Busy) /\ IsFiniteSet(Uncounted) /\ IsFiniteSet(written)
    BY <1>1, WorkersAssumption, SlicesAssumption, FS_Subset
<1>3. head \in Nat /\ tail \in Nat
    BY QueueSizeAssumption DEF TypeOK
<1>4. QED
    BY <1>2, <1>3, FS_CardinalityType

LEMMA CountInit == Init => ThreadInv /\ CountInv
<1> SUFFICES ASSUME Init PROVE ThreadInv /\ CountInv
    OBVIOUS
<1>1. Busy = {} /\ Uncounted = {}
    BY DEF Init, Busy, Uncounted
<1>2. head \in Nat
    BY Countable, PoolInit DEF PoolInv
<1>3. ThreadInv
    BY DEF Init, ThreadInv
<1>4. CountInv
    BY <1>1, <1>2, FS_EmptySet DEF Init, CountInv
<1>5. QED
    BY <1>3, <1>4

\* Steps that neither take a slice nor save or count one.
LEMMA CountsKept ==
    ASSUME CountInv, Busy' = Busy, Uncounted' = Uncounted,
           UNCHANGED <<head, tail, files2process, filesProcessed, filesSkipped, written>>,
           operationCanceled => operationCanceled'
    PROVE  CountInv'
BY DEF CountInv

LEMMA CountStep == PoolInv /\ ThreadInv /\ CountInv /\ [Next]_vars => CountInv'
<1> SUFFICES ASSUME PoolInv, ThreadInv, CountInv, [Next]_vars PROVE CountInv'
    OBVIOUS
<1>1. TypeOK
    BY DEF PoolInv
<1>2. TypeOK'
    BY TypeStep
<1> USE <1>1 DEF queueVars, countVars, sliceVars
<1>3. CASE UNCHANGED vars \/ startJoin \/ joinThreads \/ intHandler
    <2>1. Busy' = Busy /\ Uncounted' = Uncounted
        BY <1>3 DEF vars, startJoin, joinThreads, intHandler, Busy, Uncounted
    <2>2. QED
        BY <1>3, <2>1, CountsKept DEF vars, startJoin, joinThreads, intHandler
<1>4. ASSUME NEW w \in Workers, createThread(w) PROVE CountInv'
    <2>1. Busy' = Busy /\ Uncounted' = Uncounted
        BY <1>4 DEF createThread, PoolInv, JobInv, Busy, Uncounted, TypeOK
    <2>2. QED
        BY <1>4, <2>1, CountsKept DEF createThread
<1>5. ASSUME NEW w \in Workers, popLock(w) \/ popRead(w) PROVE CountInv'
    <2>1. Busy' = Busy /\ Uncounted' = Uncounted
        BY <1>5 DEF popLock, popRead, Busy, Uncounted, TypeOK
    <2>2. QED
        BY <1>5, <2>1, CountsKept DEF popLock, popRead
<1>6. ASSUME NEW w \in Workers, popUnlock(w) PROVE CountInv'
    <2>1. Uncounted' = Uncounted
        BY <1>6 DEF popUnlock, Uncounted, TypeOK
    <2>2. CASE job[w] = NoJob
        <3>1. Busy' = Busy
            BY <1>6, <2>2 DEF popUnlock, Busy, TypeOK
        <3>2. QED
            BY <1>6, <2>1, <2>2, <3>1, CountsKept DEF popUnlock
    <2>3. CASE job[w] # NoJob
        <3>1. Busy' = Busy \cup {w} /\ w \notin Busy
            BY <1>6, <2>3 DEF popUnlock, Busy, TypeOK
        <3>2. Cardinality(Busy') = Cardinality(Busy) + 1
            BY <3>1, Countable, FS_AddElement
        <3>3. QED
            BY <1>6, <2>1, <2>3, <3>2, Countable DEF popUnlock, CountInv, TypeOK
    <2>4. QED
        BY <2>2, <2>3
<1>7. ASSUME NEW w \in Workers, cancelRequest(w) \/ clearQueue(w) \/ outOfSpace(w)
      PROVE  CountInv'
    BY <1>7 DEF cancelRequest, cancelSeen, clearQueue, outOfSpace, PoolInv, JobInv, CountInv
<1>8. ASSUME NEW w \in Workers,
             \/ createSliceFile(w) \/ exitSliceFile(w)
             \/ \E r \in Outcomes : computeParity(w, r) \/ cancelGen(w, r)
      PROVE  CountInv'
    <2>1. Busy' = Busy
        BY <1>8 DEF createSliceFile, exitSliceFile, computeParity, cancelGen, Busy, TypeOK
    <2>2. Uncounted' = Uncounted
        BY <1>8 DEF createSliceFile, exitSliceFile, computeParity, cancelGen, Uncounted, TypeOK
    <2>3. QED
        BY <1>8, <2>1, <2>2, CountsKept
           DEF createSliceFile, exitSliceFile, computeParity, cancelGen
<1>9. ASSUME NEW w \in Workers, saveWorkFile(w) PROVE CountInv'
    <2>1. Busy' = Busy
        BY <1>9 DEF saveWorkFile, Busy, TypeOK
    <2>2. Uncounted' = Uncounted \cup {w} /\ w \notin Uncounted
        BY <1>9 DEF saveWorkFile, ThreadInv, Uncounted, TypeOK
    <2>3. Cardinality(Uncounted') = Cardinality(Uncounted) + 1
        BY <2>2, Countable, FS_AddElement
    <2>4. written' = written \cup {job[w]} /\ job[w] \notin written
        BY <1>9 DEF saveWorkFile, PoolInv, PlaceInv
    <2>5. Cardinality(written') = Cardinality(written) + 1
        BY <2>4, Countable, FS_AddElement
    <2>6. QED
        BY <1>9, <2>1, <2>3, <2>5, Countable DEF saveWorkFile, CountInv, TypeOK
<1>10. ASSUME NEW w \in Workers, monitorRun(w) PROVE CountInv'
    <2>1. Busy' = Busy \ {w} /\ w \in Busy
        BY <1>10 DEF monitorRun, Busy, TypeOK
    <2>2. Cardinality(Busy') = Cardinality(Busy) - 1
        BY <2>1, Countable, FS_RemoveElement
    <2>3. CASE genCanceled[w]
        <3>1. Uncounted' = Uncounted
            BY <1>10, <2>3 DEF monitorRun, Uncounted, TypeOK
        <3>2. QED
            BY <1>10, <2>2, <2>3, <3>1, Countable DEF monitorRun, CountInv, TypeOK
    <2>4. CASE ~genCanceled[w]
        <3>1. Uncounted' = Uncounted \ {w} /\ w \in Uncounted
            BY <1>10, <2>4 DEF monitorRun, Uncounted, TypeOK
        <3>2. Cardinality(Uncounted') = Cardinality(Uncounted) - 1
            BY <3>1, Countable, FS_RemoveElement
        <3>3. QED
            BY <1>10, <2>2, <2>4, <3>2, Countable DEF monitorRun, CountInv, TypeOK
    <2>5. QED
        BY <2>3, <2>4
<1>11. QED
    BY <1>3, <1>4, <1>5, <1>6, <1>7, <1>8, <1>9, <1>10 DEF Next, Main, slices2disk

\* Of a run nobody cancelled, every queued slice is saved or counted as skipped when the
\* threads are joined.
THEOREM NothingForgottenHolds == Spec => []NothingForgotten
<1>1. PoolInv /\ ThreadInv /\ [Next]_vars => ThreadInv'
    BY ThreadStep DEF PoolInv
<1>2. PoolInv /\ NoEarlyExit /\ ThreadInv /\ CountInv => NothingForgotten
    <2> SUFFICES ASSUME PoolInv, NoEarlyExit, ThreadInv, CountInv,
                        main = "end", started # {}, ~operationCanceled
                 PROVE  /\ filesProcessed = files2process
                        /\ Cardinality(written) + filesSkipped = files2process
        BY DEF NothingForgotten
    <2>1. TypeOK
        BY DEF PoolInv
    <2>2. \A w \in Workers : pc[w] \in {"new", "gone"}
        BY DEF PoolInv, JobInv, ThreadInv
    <2>3. Busy = {} /\ Uncounted = {}
        BY <2>2 DEF Busy, Uncounted
    <2>4. \E w \in Workers : pc[w] = "gone"
        BY <2>1 DEF ThreadInv, TypeOK
    <2>5. tail = head
        BY <2>4 DEF NoEarlyExit
    <2>6. QED
        BY <2>1, <2>3, <2>5, Countable, FS_EmptySet DEF CountInv, TypeOK
<1>3. QED
    BY <1>1, <1>2, CountInit, CountStep, PoolInvariant, NoEarlyExitHolds, PTL DEF Spec
----------------------------------------------------------------------------
(* A cancelled run.                                                        *)

\* The slices a thread works on, and the saved ones, were taken before the cancellation;
\* one taken since does not get past the test for it.
CancelInv ==
    /\ ~operationCanceled => atCancel = {}
    /\ CancelStops
    /\ \A w \in Workers : pc[w] \in {"round", "exit", "write"} => job[w] \notin atCancel

LEMMA CancelInvInit == CancelInit => CancelInv
BY DEF CancelInit, Init, CancelInv, CancelStops

LEMMA CancelStep ==
    PoolInv /\ PoolInv' /\ CancelInv /\ [CancelNext]_cancelVars => CancelInv'
<1> SUFFICES ASSUME PoolInv, PoolInv', CancelInv, [CancelNext]_cancelVars PROVE CancelInv'
    OBVIOUS
<1>1. TypeOK
    BY DEF PoolInv
<1> USE <1>1 DEF queueVars, countVars, sliceVars
<1>2. CASE UNCHANGED cancelVars
    BY <1>2 DEF cancelVars, vars, CancelInv, CancelStops
<1>3. CASE CancelNext /\ operationCanceled' /\ ~operationCanceled
    <2>1. atCancel' = Waiting'
        BY <1>3 DEF CancelNext
    <2>2. CancelStops'
        BY <2>1 DEF CancelStops, PoolInv, PlaceInv
    <2>3. \A w \in Workers : pc'[w] \in {"round", "exit", "write"} => job'[w] \notin Waiting'
        BY DEF PoolInv, PlaceInv, Held
    <2>4. QED
        BY <1>3, <2>1, <2>2, <2>3 DEF CancelInv
<1>4. CASE CancelNext /\ ~(operationCanceled' /\ ~operationCanceled)
    <2>1. Next /\ atCancel' = atCancel
        BY <1>4 DEF CancelNext
    <2>2. CASE Main \/ intHandler
        BY <1>4, <2>1, <2>2 DEF Main, startJoin, joinThreads, createThread, intHandler,
                           CancelInv, CancelStops, TypeOK
    <2>3. ASSUME NEW w \in Workers, popLock(w) \/ popRead(w) \/ popUnlock(w) PROVE CancelInv'
        BY <2>1, <2>3 DEF popLock, popRead, popUnlock, CancelInv, CancelStops, TypeOK
    <2>4. ASSUME NEW w \in Workers, cancelRequest(w) \/ clearQueue(w) PROVE CancelInv'
        BY <2>1, <2>4 DEF cancelRequest, clearQueue, CancelInv, CancelStops, TypeOK
    <2>5. ASSUME NEW w \in Workers, createSliceFile(w) PROVE CancelInv'
        BY <2>1, <2>5 DEF createSliceFile, cancelSeen, CancelInv, CancelStops, TypeOK
    <2>6. ASSUME NEW w \in Workers,
                 \/ exitSliceFile(w) \/ saveWorkFile(w) \/ monitorRun(w) \/ outOfSpace(w)
                 \/ \E r \in Outcomes : computeParity(w, r) \/ cancelGen(w, r)
          PROVE  CancelInv'
        BY <1>4, <2>1, <2>6 DEF exitSliceFile, saveWorkFile, monitorRun, outOfSpace,
                           computeParity, cancelGen, CancelInv, CancelStops, TypeOK
    <2>7. QED
        BY <2>1, <2>2, <2>3, <2>4, <2>5, <2>6 DEF Next, slices2disk
<1>5. QED
    BY <1>2, <1>3, <1>4

\* The run that remembers what waited is a run of the pool.
LEMMA PoolInvCancel == CancelSpec => []PoolInv
<1>1. CancelInit => PoolInv
    BY PoolInit DEF CancelInit
<1>2. PoolInv /\ [CancelNext]_cancelVars => PoolInv'
    BY PoolStep DEF CancelNext, cancelVars
<1>3. QED
    BY <1>1, <1>2, PTL DEF CancelSpec

\* After a cancellation, by Ctrl-C or by a full disk, no slice that waited then is saved.
THEOREM CancelStopsHolds == CancelSpec => []CancelStops
<1>1. CancelInv => CancelStops
    BY DEF CancelInv
<1>2. QED
    BY <1>1, CancelInvInit, CancelStep, PoolInvCancel, PTL DEF CancelSpec
=============================================================================

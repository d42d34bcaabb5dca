---------------------------- MODULE ParityStream ----------------------------
(***************************************************************************)
(* One thread of slices2disk and the slices it writes one after the other: *)
(* wait4buffers fills one buffer per data disk by asynchronous reads while *)
(* the parity of the round before is written, computeParity combines the   *)
(* buffers, until every file of the slice was read; then the slice file is *)
(* renamed into the archive.  The kernel completes requests at any time,   *)
(* in any order, with short reads and with errors.                         *)
(*                                                                         *)
(* A byte is <<slice, disk, offset>>: its place in the files of that disk  *)
(* laid end to end.  As all bytes are different, XOR is the set of the     *)
(* non-zero bytes combined.  A pass is one run of the loop over the disks  *)
(* in wait4buffers, a round is one call of fillInputBuffers.               *)
(***************************************************************************)
EXTENDS Integers, Sequences, Functions

CONSTANTS
    NDisks,     \* data disks are 1..NDisks
    Plan,       \* slices of this thread: disk -> file sizes in the order of dseq
    BufSize,    \* config.fileBufferSize
    Zero        \* a byte of a cleared buffer

Disks == 1..NDisks
P     == NDisks + 1     \* index of the parity disk
Slots == 1..BufSize

ASSUME NDisksAssumption == NDisks \in Nat \ {0}
ASSUME BufSizeAssumption == BufSize \in Nat \ {0}
ASSUME PlanAssumption == Plan \in Seq([Disks -> Seq(Nat)]) /\ Plan # <<>>

\* "should be descending" (getNextFile): newfiles and so dseq are in the order of sizes
ASSUME DescendingAssumption ==
    \A m \in 1..Len(Plan) : \A d \in Disks : \A i \in 1..Len(Plan[m][d]) :
        \A k \in i..Len(Plan[m][d]) : Plan[m][d][k] <= Plan[m][d][i]

ASSUME ZeroAssumption == Zero \notin Nat \X Nat \X Nat

VARIABLES
    pc, n,              \* where the thread is, the slice it writes
    at,                 \* disk wait4buffers looks at; 0 after a break
    disk,               \* SLICE_DISK of the data disks
    buf,                \* their dataBuf
    pbuf, plen,         \* dataBuf and datalen of the parity disk
    want, res,          \* aiocb: aio_nbytes (0: not initiated) and result
    orphan,             \* a write goes on whose aiocb was given up
    out,                \* parity bytes in the work file
    hashes,             \* hashArray: <<disk, seq, bytes hashed>>
    genCanceled, operationCanceled,
    saved, skipped      \* slice files renamed into the archive; slices given up

diskVars == <<disk, hashes>>
bufVars  == <<buf, pbuf, plen>>
aioVars  == <<want, res, orphan>>
endVars  == <<saved, skipped>>
vars == <<pc, n, at, disk, buf, pbuf, plen, want, res, orphan, out, hashes,
          genCanceled, operationCanceled, saved, skipped>>

Sizes(d)   == Plan[n][d]
Total(m, d) == SumFunction(Plan[m][d])
SliceSize(m) == CHOOSE s \in {Total(m, d) : d \in Disks} : \A d \in Disks : Total(m, d) <= s

InProgress == -2
NotSaved   == [parity |-> <<>>, hashes |-> {}]
Idle       == [i \in 1..P |-> 0]
Cleared    == [k \in Slots |-> Zero]

----------------------------------------------------------------------------
\* The SLICE initSliceStructure prepares for the thread
Fresh == [seq |-> 0, left |-> 0, open |-> FALSE, fin |-> FALSE, len |-> 0, got |-> 0,
          hashed |-> 0]

Init ==
    /\ pc = "round" /\ n = 1 /\ at = 1
    /\ disk = [d \in Disks |-> Fresh] /\ buf = [d \in Disks |-> Cleared]
    /\ pbuf = [k \in Slots |-> {}] /\ plen = 0
    /\ want = Idle /\ res = [i \in 1..P |-> InProgress] /\ orphan = FALSE
    /\ out = <<>> /\ hashes = {} /\ genCanceled = FALSE /\ operationCanceled = FALSE
    /\ saved = [m \in 1..Len(Plan) |-> NotSaved] /\ skipped = {}

----------------------------------------------------------------------------
(* createSliceFile: a round, unless the run was cancelled.                 *)

createSliceFile ==
    /\ pc = "round"
    /\ IF operationCanceled
       THEN pc' = "next" /\ genCanceled' = TRUE /\ skipped' = skipped \cup {n}
       ELSE pc' = "pass" /\ UNCHANGED <<genCanceled, skipped>>
    /\ at' = 1
    /\ UNCHANGED <<n, diskVars, bufVars, aioVars, out, operationCanceled, saved>>

----------------------------------------------------------------------------
(* startAIO on a data disk: finish the file that was read, open the next   *)
(* one, read as much as fits.                                              *)

NeedsFile(r) == ~r.fin /\ r.left = 0
HasFile(d, r) == r.seq < Len(Sizes(d))

\* Mutant: startBlockHash is not called for the next file
openNotStarted(d, r, ok) ==
    IF HasFile(d, r)
    THEN [r EXCEPT !.seq = @ + 1, !.left = Sizes(d)[r.seq + 1], !.open = ok]
    ELSE [r EXCEPT !.open = FALSE, !.fin = TRUE]

openNextFile(d, r, ok) ==
    IF HasFile(d, r)
    THEN [r EXCEPT !.seq = @ + 1, !.left = Sizes(d)[r.seq + 1], !.open = ok, !.hashed = 0]
    ELSE [r EXCEPT !.open = FALSE, !.fin = TRUE]

\* The hash of the file that ends, if it has any bytes
storeHash(d, r) ==
    IF r.open /\ r.hashed > 0 THEN {<<d, r.seq, r.hashed>>} ELSE {}

\* Mutant: the whole buffer is taken for free
wholeBuffer(r) == BufSize

freeSpace(r) == BufSize - r.len

nbytes(r) ==
    IF r.fin THEN 0 ELSE IF r.left < freeSpace(r) THEN r.left ELSE freeSpace(r)

\* r: the disk as it is when startAIO is called; ~ok: the file cannot be opened
startAIO(d, r, ok) ==
    LET q == IF NeedsFile(r) THEN openNextFile(d, r, ok) ELSE r IN
    /\ ok \/ (NeedsFile(r) /\ HasFile(d, r))
    /\ disk' = [disk EXCEPT ![d] = q]
    /\ hashes' = IF NeedsFile(r) THEN hashes \cup storeHash(d, r) ELSE hashes
    /\ genCanceled' = ~ok
    /\ want' = [want EXCEPT ![d] = IF ok THEN nbytes(q) ELSE 0]
    /\ res' = [res EXCEPT ![d] = InProgress]

----------------------------------------------------------------------------
(* The loop of wait4buffers over the disks.                                *)

Busy(i) == want[i] > 0 /\ res[i] = InProgress
Done(i) == want[i] > 0 /\ res[i] # InProgress

\* Nothing to do for this disk now
skipDisk ==
    /\ pc = "pass" /\ at \in 1..P
    /\ \/ Busy(at)
       \/ want[at] = 0 /\ genCanceled
       \/ at \in Disks /\ disk[at].fin
       \/ at = P /\ want[P] = 0 /\ plen = 0
    /\ at' = at + 1
    /\ UNCHANGED <<pc, n, diskVars, bufVars, aioVars, out, genCanceled, operationCanceled,
                   endVars>>

startRead(ok) ==
    /\ pc = "pass" /\ at \in Disks
    /\ want[at] = 0 /\ ~genCanceled /\ ~disk[at].fin
    /\ startAIO(at, disk[at], ok)
    /\ at' = IF ok THEN at + 1 ELSE 0
    /\ UNCHANGED <<pc, n, bufVars, orphan, out, operationCanceled, endVars>>

\* Data was read: hash it, count it and go on reading
consumeRead(ok) ==
    /\ pc = "pass" /\ at \in Disks /\ Done(at) /\ res[at] > 0
    /\ LET k == res[at]
           r == [disk[at] EXCEPT !.len = @ + k, !.got = @ + k, !.left = @ - k,
                                 !.hashed = @ + k]
       IN IF genCanceled
          THEN /\ ok /\ disk' = [disk EXCEPT ![at] = r]
               /\ want' = [want EXCEPT ![at] = 0] /\ UNCHANGED <<res, hashes, genCanceled>>
          ELSE startAIO(at, r, ok)
    /\ at' = at + 1
    /\ UNCHANGED <<pc, n, bufVars, orphan, out, operationCanceled, endVars>>

\* cancelGen: read error, or end of file before all planned bytes were read
rejectRead ==
    /\ pc = "pass" /\ at \in Disks /\ Done(at) /\ res[at] <= 0
    /\ genCanceled' = TRUE /\ at' = 0
    /\ want' = [want EXCEPT ![at] = 0]
    /\ UNCHANGED <<pc, n, diskVars, bufVars, res, orphan, out, operationCanceled, endVars>>

startWrite ==
    /\ pc = "pass" /\ at = P /\ want[P] = 0 /\ ~genCanceled /\ plen > 0
    /\ want' = [want EXCEPT ![P] = plen] /\ res' = [res EXCEPT ![P] = InProgress]
    /\ at' = at + 1
    /\ UNCHANGED <<pc, n, diskVars, bufVars, orphan, out, genCanceled, operationCanceled,
                   endVars>>

finishWrite ==
    /\ pc = "pass" /\ at = P /\ Done(P) /\ res[P] = plen
    /\ pbuf' = [k \in Slots |-> IF k <= plen THEN {} ELSE pbuf[k]] /\ plen' = 0
    /\ want' = [want EXCEPT ![P] = 0] /\ at' = at + 1
    /\ UNCHANGED <<pc, n, diskVars, buf, res, orphan, out, genCanceled, operationCanceled,
                   endVars>>

rejectWrite ==
    /\ pc = "pass" /\ at = P /\ Done(P) /\ res[P] # plen
    /\ genCanceled' = TRUE /\ at' = 0
    /\ UNCHANGED <<pc, n, diskVars, bufVars, aioVars, out, operationCanceled, endVars>>

----------------------------------------------------------------------------
(* The end of a pass: cancelAIO, then suspend.                             *)

AfterPass(w) == IF w = Idle THEN "parity" ELSE "suspend"

endPass ==
    /\ pc = "pass" /\ at = P + 1 /\ ~genCanceled
    /\ pc' = AfterPass(want)
    /\ UNCHANGED <<n, at, diskVars, bufVars, aioVars, out, genCanceled, operationCanceled,
                   endVars>>

\* K: requests that aio_cancel finds under way.  When the loop over the disks came to
\* its end, the last aiocb it looked at, that of the parity disk, is cleared at once.
cancelAIO(K) ==
    /\ pc = "pass" /\ at \in {0, P + 1} /\ genCanceled
    /\ K \subseteq {i \in 1..P : Busy(i)}
    /\ at = P + 1 => P \notin K
    /\ want' = [i \in 1..P |-> IF i \in K THEN want[i] ELSE 0]
    /\ orphan' = (orphan \/ (at = P + 1 /\ Busy(P)))
    /\ pc' = AfterPass(want')
    /\ UNCHANGED <<n, at, diskVars, bufVars, res, out, genCanceled, operationCanceled,
                   endVars>>

\* Mutant: only the data disks are waited for
ReadFinished == \E d \in Disks : Done(d)

SomeFinished == \E i \in 1..P : Done(i)

\* aio_suspend, then cancelRequest at the start of the next pass
suspend ==
    /\ pc = "suspend" /\ SomeFinished
    /\ pc' = "pass" /\ at' = 1
    /\ genCanceled' = (genCanceled \/ operationCanceled)
    /\ UNCHANGED <<n, diskVars, bufVars, aioVars, out, operationCanceled, endVars>>

----------------------------------------------------------------------------
\* Mutant: the parity ends with the shortest buffer
ShortestBuffer == CHOOSE k \in 0..BufSize : /\ \E d \in Disks : disk[d].len = k
                                            /\ \A d \in Disks : disk[d].len >= k

LongestBuffer == CHOOSE k \in 0..BufSize : /\ \E d \in Disks : disk[d].len = k
                                           /\ \A d \in Disks : disk[d].len <= k

computeParity ==
    /\ pc = "parity"
    /\ LET parLen == LongestBuffer IN
       IF genCanceled \/ operationCanceled
       THEN pc' = "exit" /\ genCanceled' = TRUE /\ UNCHANGED <<disk, bufVars>>
       ELSE IF parLen = 0
       THEN /\ pc' = "exit" /\ genCanceled' = (Len(out) # SliceSize(n))
            /\ UNCHANGED <<disk, bufVars>>
       ELSE /\ pbuf' = [k \in Slots |-> IF k <= parLen
                                        THEN {buf[d][k] : d \in Disks} \ {Zero}
                                        ELSE pbuf[k]]
            /\ plen' = parLen
            /\ buf' = [d \in Disks |-> [k \in Slots |-> IF k <= parLen THEN Zero
                                                        ELSE buf[d][k]]]
            /\ disk' = [d \in Disks |-> [disk[d] EXCEPT !.len = 0]]
            /\ pc' = "round" /\ UNCHANGED genCanceled
    /\ UNCHANGED <<n, at, aioVars, out, hashes, operationCanceled, endVars>>

\* Files of slice m that have a hash
Hashed(m) == UNION {{d} \X {i \in DOMAIN Plan[m][d] : Plan[m][d][i] > 0} : d \in Disks}

\* HEADER_WRITE finds every file unchanged and hashed, and the tail in its place
exitSliceFile(changed) ==
    /\ pc = "exit"
    /\ IF /\ ~genCanceled /\ ~operationCanceled /\ ~changed
          /\ \A f \in Hashed(n) : \E h \in hashes : h[1] = f[1] /\ h[2] = f[2]
          /\ Len(out) = SliceSize(n)
       THEN saved' = [saved EXCEPT ![n] = [parity |-> out, hashes |-> hashes]]
            /\ UNCHANGED skipped
       ELSE skipped' = skipped \cup {n} /\ UNCHANGED saved
    /\ pc' = "next"
    /\ UNCHANGED <<n, at, diskVars, bufVars, aioVars, out, genCanceled, operationCanceled>>

\* memcpy(&wlc, cs): every field of the SLICE is fresh again; what the dataBuf
\* pointers in it point to stays
slices2disk ==
    /\ pc = "next"
    /\ IF n = Len(Plan) \/ operationCanceled
       THEN /\ pc' = "done"
            /\ UNCHANGED <<n, disk, hashes, plen, want, out, genCanceled>>
       ELSE /\ pc' = "round" /\ n' = n + 1
            /\ disk' = [d \in Disks |-> Fresh] /\ hashes' = {} /\ plen' = 0
            /\ want' = Idle /\ out' = <<>> /\ genCanceled' = FALSE
    /\ UNCHANGED <<at, buf, pbuf, res, orphan, operationCanceled, endVars>>

----------------------------------------------------------------------------
(* The kernel, and Ctrl-C.                                                 *)

\* Mutant: data is always read to the start of the buffer
fromStart(d, k) ==
    [j \in Slots |-> IF j <= k THEN <<n, d, disk[d].got + j>> ELSE buf[d][j]]

\* aio_buf = dataBuf + datalen
filled(d, k) ==
    [j \in Slots |-> IF j \in (disk[d].len + 1)..(disk[d].len + k)
                     THEN <<n, d, disk[d].got + j - disk[d].len>> ELSE buf[d][j]]

readDone(d, k) ==
    /\ Busy(d) /\ k \in 1..want[d]
    /\ buf' = [buf EXCEPT ![d] = filled(d, k)]
    /\ res' = [res EXCEPT ![d] = k]
    /\ UNCHANGED <<pc, n, at, diskVars, pbuf, plen, want, orphan, out, genCanceled,
                   operationCanceled, endVars>>

writeDone ==
    /\ Busy(P)
    /\ out' = out \o [k \in 1..plen |-> pbuf[k]]
    /\ res' = [res EXCEPT ![P] = plen]
    /\ UNCHANGED <<pc, n, at, diskVars, bufVars, want, orphan, genCanceled,
                   operationCanceled, endVars>>

orphanDone ==
    /\ orphan /\ orphan' = FALSE
    /\ UNCHANGED <<pc, n, at, diskVars, bufVars, want, res, out, genCanceled,
                   operationCanceled, endVars>>

\* An error, or no more data: the file was truncated, the disk is full
requestFails(i, k) ==
    /\ Busy(i) /\ k \in {-1, 0}
    /\ res' = [res EXCEPT ![i] = k]
    /\ UNCHANGED <<pc, n, at, diskVars, bufVars, want, orphan, out, genCanceled,
                   operationCanceled, endVars>>

intHandler ==
    /\ pc # "done" /\ ~operationCanceled /\ operationCanceled' = TRUE
    /\ UNCHANGED <<pc, n, at, diskVars, bufVars, aioVars, out, genCanceled, endVars>>

Kernel ==
    \/ \E d \in Disks : \E k \in Slots : readDone(d, k)
    \/ writeDone \/ orphanDone

Thread ==
    \/ createSliceFile \/ skipDisk \/ startRead(TRUE) \/ consumeRead(TRUE) \/ rejectRead
    \/ startWrite \/ finishWrite \/ rejectWrite
    \/ endPass \/ suspend \/ computeParity \/ exitSliceFile(FALSE) \/ slices2disk
    \/ \E K \in SUBSET (1..P) : cancelAIO(K)

Faults ==
    \/ startRead(FALSE) \/ consumeRead(FALSE) \/ exitSliceFile(TRUE)
    \/ \E i \in 1..P, k \in {-1, 0} : requestFails(i, k)
    \/ intHandler

Next == Kernel \/ Thread \/ Faults

Spec == Init /\ [][Next]_vars

----------------------------------------------------------------------------
Byte == {b \in (1..Len(Plan)) \X Disks \X Nat : b[3] \in 1..Total(b[1], b[2])}

SliceDisk == [seq : Nat, left : Nat, open : BOOLEAN, fin : BOOLEAN, len : 0..BufSize,
              got : Nat, hashed : Nat]

TypeOK ==
    /\ pc \in {"round", "pass", "suspend", "parity", "exit", "next", "done"}
    /\ n \in 1..Len(Plan) /\ at \in 0..(P + 1)
    /\ disk \in [Disks -> SliceDisk]
    /\ \A d \in Disks : disk[d].seq \in 0..Len(Sizes(d)) /\ disk[d].got \in 0..Total(n, d)
    /\ buf \in [Disks -> [Slots -> Byte \cup {Zero}]]
    /\ pbuf \in [Slots -> SUBSET Byte] /\ plen \in 0..BufSize
    /\ want \in [1..P -> 0..BufSize] /\ res \in [1..P -> {InProgress, -1} \cup (0..BufSize)]
    /\ out \in Seq(SUBSET Byte) /\ hashes \subseteq Disks \X Nat \X Nat
    /\ orphan \in BOOLEAN /\ genCanceled \in BOOLEAN /\ operationCanceled \in BOOLEAN
    /\ saved \in [1..Len(Plan) -> [parity : Seq(SUBSET Byte), hashes : SUBSET (Disks \X Nat \X Nat)]]
    /\ skipped \in SUBSET (1..Len(Plan))

----------------------------------------------------------------------------
(* Properties.                                                             *)

Saved == {m \in 1..Len(Plan) : saved[m] # NotSaved}
Own(m, k) == {<<m, d, k>> : d \in {d \in Disks : k <= Total(m, d)}}

\* However short the reads are and in whatever order the requests of a round complete,
\* byte k of a saved slice's parity combines byte k of every disk that has one, and
\* no other byte of the slice: the disks never get out of step (asyncio.cpp:315,
\* backup.cpp:966).
ParityComplete ==
    \A m \in Saved :
        /\ Len(saved[m].parity) = SliceSize(m)
        /\ \A k \in 1..SliceSize(m) : {b \in saved[m].parity[k] : b[1] = m} = Own(m, k)

\* The hash a saved slice records for a file was computed over all of its bytes and no
\* others, once (startBlockHash asyncio.cpp:187, storeHash backup.cpp:225).
HashOfEveryFile ==
    \A m \in Saved :
        saved[m].hashes = {<<f[1], f[2], Plan[m][f[1]][f[2]]>> : f \in Hashed(m)}

\* "clear structure (copy from saved initialized)", backup.cpp:1967: the parity of a
\* slice has no trace of the slices the thread wrote before it.
CleanParity ==
    \A m \in Saved : \A k \in 1..Len(saved[m].parity) : saved[m].parity[k] \subseteq Own(m, k)

\* "continue check for started and not finished operations", asyncio.cpp:339: no request
\* is under way any more when wait4buffers returns.
NoRequestLeft ==
    pc \notin {"pass", "suspend"} => ~orphan /\ \A i \in 1..P : ~Busy(i)

\* The thread gets through all its slices, whatever fails or is cancelled.
Finishes == <>(pc = "done")
============================================================================

------------------------------ MODULE Restore ------------------------------
(***************************************************************************)
(* One thread of restoreFromDisk.  For each slice it takes from the queue  *)
(* it restores the wanted files of the lost disk T one after the other:    *)
(* the place of a file in the parity stream is the window, the parts of    *)
(* the other disks' files that lie in it are read together with the parity *)
(* (wait4buffers), combined (computeParity) and written to a work file     *)
(* that is renamed to its destination if its hash is that of the slice     *)
(* header.  Damaged files of other disks, requests that fail, files that   *)
(* cannot be saved and Ctrl-C give up a file.                              *)
(*                                                                         *)
(* A byte is <<slice, disk, file, index>> and a place in a buffer is the   *)
(* set of bytes combined there, so XOR keeps those that occur in an odd    *)
(* number of buffers.  A file that was changed has bytes of index < 0.     *)
(***************************************************************************)
EXTENDS Integers, Sequences, FiniteSets, Functions

CONSTANTS
    NDisks,     \* data disks are 1..NDisks
    T,          \* config.restoreDiskId
    Plan,       \* slices: disk -> rows of slpos ([size, start]) in the order of dseq
    BufSize,    \* config.fileBufferSize
    CountBound  \* files given up are counted up to this (a thread may give up one for ever)

Disks   == 1..NDisks
P       == NDisks + 1       \* index of the parity disk
Readers == (1..P) \ {T}
Helpers == Disks \ {T}
Slots   == 1..BufSize

ASSUME DisksAssumption == NDisks \in Nat /\ T \in Disks
ASSUME BufSizeAssumption == BufSize \in Nat \ {0}
ASSUME PlanAssumption == Plan \in Seq([Disks -> Seq([size : Nat, start : Nat])])
ASSUME CountAssumption == CountBound \in Nat

VARIABLES
    pc, n,              \* where the thread is; the slice it restores from
    at,                 \* disk wait4buffers looks at; 0 after a break
    sd,                 \* SLICE_DISK: seq, left (bytes2transfer), size, start, off, open, fin, len
    window,             \* writeStart and writeSize
    buf,                \* dataBuf of every disk
    want, res,          \* aiocb: aio_nbytes (0: not initiated) and result
    work, hashed,       \* content of the work file; bytes given to its hash
    dest,               \* restored files: <<slice, file, content>>
    written, canceled,  \* filesWritten and filesCanceled of the slice
    told,               \* what monitorRun was given of them while the slice is at work
    rv, genCanceled, outOfSpace, operationCanceled,
    wanted,             \* files of T: "no" not selected, "skip" exists already, "yes"
    damaged             \* files of other disks: "ok", "changed" or "gone"

dataVars == <<buf, work, hashed, dest>>
aioVars  == <<want, res>>
cntVars  == <<written, canceled, told>>
canVars  == <<genCanceled, outOfSpace>>
envVars  == <<operationCanceled, wanted, damaged>>
vars == <<pc, n, at, sd, window, buf, want, res, work, hashed, dest, written, canceled, told,
          rv, genCanceled, outOfSpace, operationCanceled, wanted, damaged>>

Slices        == DOMAIN Plan
Rows(m, d)    == DOMAIN Plan[m][d]
Size(m, d, i) == Plan[m][d][i].size
Targets       == UNION {{m} \X Rows(m, T) : m \in Slices}
HelperFiles   == UNION {{m} \X {d} \X Rows(m, d) : m \in Slices, d \in Helpers}

InProgress == -3
NoSpace    == -2
Idle       == [i \in 1..P |-> 0]
Cleared    == [k \in Slots |-> {}]

\* The files of a disk as they lie end to end in the slice, whatever start says
Offset(m, d, i) == SumFunctionOnSet([j \in Rows(m, d) |-> Size(m, d, j)], 1..(i - 1))
SliceSize(m) == LET totals == {Offset(m, d, Len(Plan[m][d]) + 1) : d \in Disks}
                IN CHOOSE s \in totals : \A t \in totals : t <= s

Holding(m, d, p) == {i \in Rows(m, d) : Offset(m, d, i) < p /\ p <= Offset(m, d, i) + Size(m, d, i)}

\* The slice files: at each position the byte of every disk that has one there
Parity == [m \in Slices |-> [p \in 1..SliceSize(m) |->
             UNION {{<<m, d, i, p - Offset(m, d, i)>> : i \in Holding(m, d, p)} : d \in Disks}]]

Content(m, i) == [k \in 1..Size(m, T, i) |-> {<<m, T, i, k>>}]

----------------------------------------------------------------------------
\* The SLICE restoreFromDisk copies for every slice; the slice file is open
Fresh == [seq |-> 0, left |-> 0, size |-> 0, start |-> 0, off |-> 0,
          open |-> FALSE, fin |-> FALSE, len |-> 0]
FreshFor(m) == [i \in 1..P |-> IF i = P THEN [Fresh EXCEPT !.left = Len(Parity[m]),
                                                         !.size = Len(Parity[m]), !.open = TRUE]
                               ELSE Fresh]

Nothing == [written |-> 0, canceled |-> 0]

\* wanted and damaged are given
Start ==
    /\ pc = "next" /\ n = 0 /\ at = 1
    /\ sd = [i \in 1..P |-> Fresh] /\ window = [start |-> 0, size |-> 0]
    /\ buf = [i \in 1..P |-> Cleared] /\ want = Idle /\ res = [i \in 1..P |-> InProgress]
    /\ work = <<>> /\ hashed = <<>> /\ dest = {} /\ written = 0 /\ canceled = 0 /\ told = Nothing
    /\ rv = 0 /\ genCanceled = FALSE /\ outOfSpace = FALSE /\ operationCanceled = FALSE

Init ==
    /\ wanted \in [Targets -> {"no", "skip", "yes"}]
    /\ damaged \in [HelperFiles -> {"ok", "changed", "gone"}]
    /\ Start

\* cancelGen: the first call counts; full: errno says that the disk is full
cancelGen(full) ==
    /\ genCanceled' = TRUE
    /\ outOfSpace' = IF genCanceled THEN outOfSpace ELSE full

----------------------------------------------------------------------------
(* restoreFromDisk and restoreFromSlice.                                   *)

\* ~ok: the slice file is gone or its header is not valid.  The buffers stay as they are.
nextSlice(ok) ==
    /\ pc = "next"
    /\ IF n = Len(Plan) \/ operationCanceled
       THEN /\ ok /\ pc' = "done"
            /\ UNCHANGED <<n, sd, window, cntVars, genCanceled, outOfSpace>>
       ELSE /\ pc' = IF ok THEN "round" ELSE "next"
            /\ n' = n + 1 /\ sd' = FreshFor(n + 1)
            /\ window' = [start |-> 0, size |-> 0] /\ written' = 0 /\ canceled' = 0
            /\ told' = Nothing /\ genCanceled' = FALSE /\ outOfSpace' = FALSE
    /\ UNCHANGED <<at, dataVars, aioVars, rv, envVars>>

\* After Ctrl-C what monitorRun was not told yet is dropped
restoreFromSlice ==
    /\ pc = "round"
    /\ pc' = IF operationCanceled THEN "next" ELSE "target"
    /\ genCanceled' = (genCanceled \/ operationCanceled)
    /\ IF operationCanceled
       THEN written' = told.written /\ canceled' = told.canceled /\ UNCHANGED told
       ELSE UNCHANGED cntVars
    /\ rv' = 0
    /\ UNCHANGED <<n, at, sd, window, dataVars, aioVars, outOfSpace, envVars>>

\* Whether enough data was written since the last call is left open
monitorRun ==
    /\ UNCHANGED <<written, canceled>>
    /\ told' = told \/ told' = [written |-> written, canceled |-> canceled]

----------------------------------------------------------------------------
(* The window of a file of T, and the parts of other files in it.          *)

windowEnd(w) == w.start + w.size

involved(w, r) == w.start <= r.start + r.size /\ r.start <= windowEnd(w)

\* Mutant: the part before the window is not skipped in the file
keepOffset(w, r) ==
    LET after  == r.start + r.left - windowEnd(w)
        before == w.start - r.start
    IN [r EXCEPT !.left = @ - (IF after > 0 THEN after ELSE 0)
                            - (IF before > 0 THEN before ELSE 0)]

fitTransferOption(w, r) ==
    LET after  == r.start + r.left - windowEnd(w)
        before == w.start - r.start
    IN [r EXCEPT !.left = @ - (IF after > 0 THEN after ELSE 0)
                            - (IF before > 0 THEN before ELSE 0),
                 !.off  = IF before > 0 THEN before ELSE @]

\* A disk whose current file has no part in the window is closed, bytes2transfer stays
newTargetFile(w, r) ==
    IF involved(w, r)
    THEN fitTransferOption(w, [r EXCEPT !.fin = FALSE, !.left = r.size, !.off = 0])
    ELSE [r EXCEPT !.fin = FALSE, !.open = FALSE]

fileFinished(w, r) ==
    /\ r.left = 0
    /\ ~r.open \/ r.size = 0 \/ r.start + r.size <= windowEnd(w) \/ r.off = r.size

----------------------------------------------------------------------------
(* The target file.                                                        *)

\* wait4buffers: the start of a turn of its loop
beginTurn ==
    /\ pc = "target"
    /\ genCanceled' = (genCanceled \/ operationCanceled)
    /\ pc' = IF ~sd[T].open /\ sd[T].size = 0 THEN "file" ELSE "pass"
    /\ at' = 1
    /\ UNCHANGED <<n, sd, window, dataVars, aioVars, cntVars, rv, outOfSpace, envVars>>

least(S) == CHOOSE x \in S : \A y \in S : x <= y

\* Mutant: the file saved last is looked at once more
NotPassed == {i \in Rows(n, T) : i >= sd[T].seq /\ wanted[<<n, i>>] = "yes"}

ToRestore == {i \in Rows(n, T) : i > sd[T].seq /\ wanted[<<n, i>>] = "yes"}
Skipped(S) == Cardinality({i \in S : i > sd[T].seq /\ wanted[<<n, i>>] = "skip"})

\* getNextFile finds no more file of T: the slice is done
noNextTarget ==
    /\ pc = "file" /\ ~genCanceled /\ ToRestore = {}
    /\ pc' = "next"
    /\ sd' = [sd EXCEPT ![T].fin = TRUE, ![T].seq = Len(Plan[n][T])]
    /\ LET k == Skipped(Rows(n, T))
       IN written' = written + k /\ canceled' = canceled + k
    /\ UNCHANGED <<n, at, window, dataVars, aioVars, told, rv, canVars, envVars>>

\* openNextFile on T, and newTargetFile; ~ok: no work file can be opened
openTarget(ok) ==
    /\ pc = "file" /\ ~genCanceled /\ ToRestore # {}
    /\ LET i == least(ToRestore)
           f == Plan[n][T][i]
           w == [start |-> f.start, size |-> f.size]
           k == Skipped(1..(i - 1))
           t == [sd[T] EXCEPT !.seq = i, !.left = f.size, !.size = f.size, !.start = f.start,
                              !.off = 0, !.open = ok]
       IN /\ sd' = [j \in 1..P |-> IF j = T THEN t
                                   ELSE IF ok THEN newTargetFile(w, sd[j]) ELSE sd[j]]
          /\ window' = IF ok THEN w ELSE window
          /\ written' = written + k /\ canceled' = canceled + k
          /\ pc' = IF ~ok THEN "next" ELSE IF f.size = 0 THEN "empty" ELSE "pass"
          /\ genCanceled' = ~ok
    /\ work' = <<>> /\ hashed' = <<>>
    /\ UNCHANGED <<n, at, buf, dest, aioVars, told, rv, outOfSpace, envVars>>

\* openNextFile gives up at once
afterCancel ==
    /\ pc = "file" /\ genCanceled /\ pc' = "next"
    /\ UNCHANGED <<n, at, sd, window, dataVars, aioVars, cntVars, rv, canVars, envVars>>

\* Mutant: the hash is not compared
unchecked(h) == FALSE

wrongHash(h) == Len(h) > 0 /\ h # Content(n, sd[T].seq)

\* finishCurrentFile on T.  saved: what saveWorkFile comes to; "exists" leaves the work
\* file open, as a file given up before does
finishCurrentFile(t, h, saved) ==
    LET bad == genCanceled \/ wrongHash(h) IN
    /\ bad => saved = "ok"
    /\ sd' = [sd EXCEPT ![T] = [t EXCEPT !.size = 0, !.start = 0,
                                         !.open = bad \/ saved = "exists"]]
    /\ IF ~bad /\ saved = "ok"
       THEN /\ dest' = dest \cup {<<n, t.seq, work>>} /\ written' = written + 1
            /\ UNCHANGED canVars
       ELSE cancelGen(FALSE) /\ UNCHANGED <<dest, written>>

saveEmpty(saved) ==
    /\ pc = "empty"
    /\ finishCurrentFile(sd[T], hashed, saved)
    /\ pc' = "file"
    /\ UNCHANGED <<n, at, window, buf, work, hashed, aioVars, canceled, told, rv, envVars>>

----------------------------------------------------------------------------
(* startAIO on a disk that is read.                                        *)

NeedsFile(i, r) == i # P /\ r.left = 0 /\ fileFinished(window, r)

\* The next files of disk d that do not end before the window
NextRows(d, r) == {j \in Rows(n, d) : j > r.seq /\ Plan[n][d][j].start + Size(n, d, j) >= window.start}

\* openNextFile: the disk is finished, or has a file with fd -1, or an open one.
\* seq is not set when there was no row to read (garbage).
openNextFile(d, r, garbage) ==
    IF NextRows(d, r) = {}
    THEN [r EXCEPT !.open = FALSE, !.fin = TRUE,
                   !.seq = IF @ < Len(Plan[n][d]) THEN Len(Plan[n][d]) ELSE garbage]
    ELSE LET j == least(NextRows(d, r))
             f == Plan[n][d][j]
         IN IF r.size > 0 /\ f.size > r.size
            THEN [r EXCEPT !.open = FALSE, !.seq = j]
            ELSE fitTransferOption(window,
                    [r EXCEPT !.seq = j, !.size = f.size, !.start = f.start, !.left = f.size,
                              !.off = 0, !.open = damaged[<<n, d, j>>] # "gone"])

\* Mutant: the whole buffer is taken for free
wholeBuffer(r) == BufSize

room(r) == BufSize - r.len

\* From the slice file, the rest of the window is read.  Behind the window it is closed: the
\* request fails, whatever its length.
rest(i, r) == IF i = P /\ r.off < windowEnd(window) THEN windowEnd(window) - r.off ELSE r.left

nbytes(i, r) ==
    IF r.left <= 0 THEN 0 ELSE IF rest(i, r) < room(r) THEN rest(i, r) ELSE room(r)

\* r: the disk as it is when startAIO is called; ~ok: its next file cannot be opened
startAIO(i, r, garbage, ok) ==
    LET row == openNextFile(i, r, garbage)
        q == IF NeedsFile(i, r) THEN [row EXCEPT !.open = @ /\ ok] ELSE r
        failed == NeedsFile(i, r) /\ ~q.open /\ ~q.fin
    IN /\ ok \/ (NeedsFile(i, r) /\ row.open)
       /\ sd' = [sd EXCEPT ![i] = q]
       /\ IF failed THEN cancelGen(FALSE) ELSE UNCHANGED canVars
       /\ want' = [want EXCEPT ![i] = IF failed \/ q.fin THEN 0 ELSE nbytes(i, q)]
       /\ res' = [res EXCEPT ![i] = InProgress]

----------------------------------------------------------------------------
(* The loop of wait4buffers over the disks.                                *)

Busy(i) == want[i] > 0 /\ res[i] = InProgress
Done(i) == want[i] > 0 /\ res[i] # InProgress

skipDisk ==
    /\ pc = "pass" /\ at \in 1..P
    /\ \/ Busy(at)
       \/ want[at] = 0 /\ genCanceled
       \/ sd[at].fin
       \/ at = T /\ want[T] = 0 /\ sd[T].len = 0
    /\ at' = at + 1
    /\ UNCHANGED <<pc, n, sd, window, dataVars, aioVars, cntVars, rv, canVars, envVars>>

startRead(garbage, ok) ==
    /\ pc = "pass" /\ at \in Readers
    /\ want[at] = 0 /\ ~genCanceled /\ ~sd[at].fin
    /\ startAIO(at, sd[at], garbage, ok)
    /\ at' = IF genCanceled' THEN 0 ELSE at + 1
    /\ UNCHANGED <<pc, n, window, dataVars, cntVars, rv, envVars>>

\* Data was read; go on reading
consumeRead(garbage, ok) ==
    /\ pc = "pass" /\ at \in Readers /\ Done(at) /\ res[at] > 0
    /\ LET k == res[at]
           r == [sd[at] EXCEPT !.len = @ + k, !.off = @ + k, !.left = @ - k]
       IN IF genCanceled
          THEN /\ ok /\ sd' = [sd EXCEPT ![at] = r] /\ want' = [want EXCEPT ![at] = 0]
               /\ UNCHANGED <<res, canVars>>
          ELSE startAIO(at, r, garbage, ok)
    /\ at' = at + 1
    /\ UNCHANGED <<pc, n, window, dataVars, cntVars, rv, envVars>>

\* Size of file changed
rejectRead ==
    /\ pc = "pass" /\ at \in Readers /\ Done(at) /\ res[at] = 0
    /\ cancelGen(FALSE) /\ at' = 0
    /\ sd' = [sd EXCEPT ![at].left = 0] /\ want' = [want EXCEPT ![at] = 0]
    /\ UNCHANGED <<pc, n, window, dataVars, res, cntVars, rv, envVars>>

\* AIO failed
rejectAIO ==
    /\ pc = "pass" /\ at \in 1..P /\ Done(at) /\ res[at] < 0
    /\ cancelGen(res[at] = NoSpace) /\ at' = 0
    /\ rv' = IF ~genCanceled /\ res[at] = NoSpace THEN -1 ELSE 0
    /\ UNCHANGED <<pc, n, sd, window, dataVars, aioVars, cntVars, envVars>>

\* The fd may be that of a work file given up before (-1)
startWrite ==
    /\ pc = "pass" /\ at = T /\ want[T] = 0 /\ ~genCanceled /\ sd[T].len > 0
    /\ want' = [want EXCEPT ![T] = sd[T].len] /\ res' = [res EXCEPT ![T] = InProgress]
    /\ at' = at + 1
    /\ UNCHANGED <<pc, n, sd, window, dataVars, cntVars, rv, canVars, envVars>>

rejectWrite ==
    /\ pc = "pass" /\ at = T /\ Done(T) /\ res[T] >= 0 /\ res[T] # sd[T].len
    /\ cancelGen(FALSE) /\ at' = 0
    /\ UNCHANGED <<pc, n, sd, window, dataVars, aioVars, cntVars, rv, envVars>>

finishWrite(saved) ==
    /\ pc = "pass" /\ at = T /\ Done(T) /\ res[T] = sd[T].len
    /\ LET k == sd[T].len
           t == [sd[T] EXCEPT !.len = 0, !.off = @ + k, !.left = @ - k]
           h == hashed \o SubSeq(buf[T], 1, k)
       IN /\ hashed' = h
          /\ IF t.left <= 0 THEN finishCurrentFile(t, h, saved)
             ELSE saved = "ok" /\ sd' = [sd EXCEPT ![T] = t] /\ UNCHANGED <<dest, written, canVars>>
          /\ buf' = [buf EXCEPT ![T] = [j \in Slots |-> IF j <= k THEN {} ELSE buf[T][j]]]
    /\ want' = [want EXCEPT ![T] = 0] /\ at' = at + 1
    /\ UNCHANGED <<pc, n, window, work, res, canceled, told, rv, envVars>>

----------------------------------------------------------------------------
(* The end of a turn.                                                      *)

AfterTurn(w) == IF w = Idle THEN "after" ELSE "suspend"

endPass ==
    /\ pc = "pass" /\ at = P + 1 /\ ~genCanceled
    /\ pc' = AfterTurn(want)
    /\ UNCHANGED <<n, at, sd, window, dataVars, aioVars, cntVars, rv, canVars, envVars>>

\* Mutant: a file whose work file was closed by saveWorkFile is not counted
countOpen == IF sd[T].open /\ written < CountBound THEN 1 ELSE 0

countOne == IF written < CountBound THEN 1 ELSE 0

\* K: requests aio_cancel finds under way.  Once there are none the file is given up: counted,
\* its work file closed, but fileSize stays.  When the loop came to its end, the aiocb of the
\* parity disk is cleared without a cancel.
cancelAIO(K) ==
    /\ pc = "pass" /\ at \in {0, P + 1} /\ genCanceled
    /\ K \subseteq {i \in 1..P : Busy(i)}
    /\ at = P + 1 => P \notin K
    /\ want' = [i \in 1..P |-> IF i \in K THEN want[i] ELSE 0]
    /\ pc' = AfterTurn(want')
    /\ IF K = {} /\ ~outOfSpace
       THEN /\ written' = written + countOne /\ canceled' = canceled + countOne
            /\ sd' = [sd EXCEPT ![T].left = 0, ![T].open = FALSE]
       ELSE UNCHANGED <<written, canceled, sd>>
    /\ UNCHANGED <<n, at, window, dataVars, res, told, rv, canVars, envVars>>

\* Mutant: only reads are waited for
ReadFinished == \E i \in Readers : Done(i)

SomeFinished == \E i \in 1..P : Done(i)

suspend ==
    /\ pc = "suspend" /\ SomeFinished
    /\ pc' = "target"
    /\ UNCHANGED <<n, at, sd, window, dataVars, aioVars, cntVars, rv, canVars, envVars>>

----------------------------------------------------------------------------
(* restoreFromSlice goes on: to the next file after a cancel, to computeParity else.    *)

afterFill ==
    /\ pc = "after" /\ (rv < 0 \/ genCanceled)
    /\ pc' = IF rv < 0 THEN "next" ELSE "round"
    /\ genCanceled' = (rv < 0)
    /\ IF rv < 0 THEN UNCHANGED cntVars ELSE monitorRun
    /\ UNCHANGED <<n, at, sd, window, dataVars, aioVars, rv, outOfSpace, envVars>>

combined(k) ==
    {b \in UNION {buf[i][k] : i \in Readers} :
        Cardinality({i \in Readers : b \in buf[i][k]}) % 2 = 1}

LongestBuffer == CHOOSE k \in 0..BufSize : /\ \E i \in Readers : sd[i].len = k
                                           /\ \A i \in Readers : sd[i].len <= k

computeParity ==
    /\ pc = "after" /\ rv = 0 /\ ~genCanceled
    /\ pc' = "round" /\ monitorRun
    /\ LET parLen == LongestBuffer
           cleared(b) == [k \in Slots |-> IF k <= parLen THEN {} ELSE b[k]]
       IN IF operationCanceled
          THEN genCanceled' = TRUE /\ UNCHANGED <<sd, buf, outOfSpace>>
          ELSE IF parLen = 0
          THEN /\ IF sd[T].left # 0 THEN cancelGen(FALSE) ELSE UNCHANGED canVars
               /\ sd' = [sd EXCEPT ![T].len = 0] /\ UNCHANGED buf
          ELSE /\ buf' = [i \in 1..P |-> IF i = T
                              THEN [k \in Slots |-> IF k <= parLen THEN combined(k) ELSE buf[T][k]]
                              ELSE cleared(buf[i])]
               /\ sd' = [i \in 1..P |-> [sd[i] EXCEPT !.len = IF i = T THEN parLen ELSE 0]]
               /\ UNCHANGED canVars
    /\ UNCHANGED <<n, at, window, work, hashed, dest, aioVars, rv, envVars>>

----------------------------------------------------------------------------
(* The kernel, and what goes wrong.                                        *)

\* Byte at position p of the open file of disk i; behind its parity a slice file has a tail
ByteAt(i, p) ==
    IF i = P THEN IF p <= Len(Parity[n]) THEN Parity[n][p] ELSE {<<n, P, 0, p>>}
    ELSE {<<n, i, sd[i].seq, IF damaged[<<n, i, sd[i].seq>>] = "changed" THEN 0 - p ELSE p>>}

readDone(i, k) ==
    /\ Busy(i) /\ sd[i].open /\ k \in 1..want[i]
    /\ buf' = [buf EXCEPT ![i] = [j \in Slots |->
                   IF j \in (sd[i].len + 1)..(sd[i].len + k)
                   THEN ByteAt(i, sd[i].off + j - sd[i].len) ELSE buf[i][j]]]
    /\ res' = [res EXCEPT ![i] = k]
    /\ UNCHANGED <<pc, n, at, sd, window, want, work, hashed, dest, cntVars, rv, canVars, envVars>>

\* A file after pwrite of s at offset off
pwrite(f, off, s) ==
    [k \in 1..(IF Len(f) > off + Len(s) THEN Len(f) ELSE off + Len(s)) |->
        IF k > off /\ k <= off + Len(s) THEN s[k - off] ELSE IF k <= Len(f) THEN f[k] ELSE {}]

writeDone(k) ==
    /\ Busy(T) /\ sd[T].open /\ k \in 0..want[T]
    /\ work' = pwrite(work, sd[T].off, SubSeq(buf[T], 1, k))
    /\ res' = [res EXCEPT ![T] = k]
    /\ UNCHANGED <<pc, n, at, sd, window, buf, want, hashed, dest, cntVars, rv, canVars, envVars>>

badFile(i) ==
    /\ Busy(i) /\ ~sd[i].open
    /\ res' = [res EXCEPT ![i] = -1]
    /\ UNCHANGED <<pc, n, at, sd, window, want, dataVars, cntVars, rv, canVars, envVars>>

\* An error, a full disk, or the end of a file that became shorter
requestFails(i, k) ==
    /\ Busy(i) /\ sd[i].open
    /\ k \in {-1} \cup (IF i = T THEN {NoSpace} ELSE {0})
    /\ res' = [res EXCEPT ![i] = k]
    /\ UNCHANGED <<pc, n, at, sd, window, want, dataVars, cntVars, rv, canVars, envVars>>

intHandler ==
    /\ pc # "done" /\ ~operationCanceled /\ operationCanceled' = TRUE
    /\ UNCHANGED <<pc, n, at, sd, window, dataVars, aioVars, cntVars, rv, canVars, wanted, damaged>>

Kernel ==
    \/ \E i \in Readers, k \in Slots : readDone(i, k)
    \/ writeDone(want[T])
    \/ \E i \in 1..P : badFile(i)

\* What seq may become in openNextFile
Garbage == IF pc = "pass" /\ at \in Helpers /\ sd[at].seq = Len(Plan[n][at])
           THEN 0..Len(Plan[n][at]) ELSE {0}

Thread ==
    \/ nextSlice(TRUE) \/ restoreFromSlice \/ beginTurn
    \/ noNextTarget \/ openTarget(TRUE) \/ afterCancel \/ saveEmpty("ok")
    \/ skipDisk \/ rejectRead \/ rejectAIO
    \/ \E g \in Garbage : startRead(g, TRUE) \/ consumeRead(g, TRUE)
    \/ startWrite \/ rejectWrite \/ finishWrite("ok")
    \/ endPass \/ suspend \/ afterFill \/ computeParity
    \/ \E K \in SUBSET (1..P) : cancelAIO(K)

\* What keeps a finished file from being saved
SaveFaults == \E s \in {"exists", "rename"} : saveEmpty(s) \/ finishWrite(s)

Faults ==
    \/ nextSlice(FALSE) \/ openTarget(FALSE) \/ intHandler
    \/ \E g \in Garbage : startRead(g, FALSE) \/ consumeRead(g, FALSE)
    \/ \E k \in 0..(BufSize - 1) : k < want[T] /\ writeDone(k)
    \/ \E i \in 1..P, k \in {-1, 0, NoSpace} : requestFails(i, k)

Next == Kernel \/ Thread \/ SaveFaults \/ Faults

Spec == Init /\ [][Next]_vars

----------------------------------------------------------------------------
(* Properties.                                                             *)

Record == [seq : Nat, left : Int, size : Nat, start : Nat, off : Nat, open : BOOLEAN,
           fin : BOOLEAN, len : 0..BufSize]

TypeOK ==
    /\ pc \in {"next", "round", "target", "file", "empty", "pass", "suspend", "after", "done"}
    /\ n \in 0..Len(Plan) /\ at \in 0..(P + 1)
    /\ sd \in [1..P -> Record] /\ window \in [start : Nat, size : Nat]
    /\ \A i \in 1..P : DOMAIN buf[i] = Slots
    /\ want \in [1..P -> 0..BufSize]
    /\ \A i \in 1..P : res[i] \in -3..BufSize
    /\ written \in Nat /\ canceled \in Nat /\ told \in [written : Nat, canceled : Nat] /\ rv \in {0, -1}
    /\ genCanceled \in BOOLEAN /\ outOfSpace \in BOOLEAN /\ operationCanceled \in BOOLEAN

\* Whatever fails: only files that were to be restored appear at the destination, each once and
\* with exactly the bytes it had when its slice was written - no buffer that kept bytes of
\* another round, no part of a window left out or written twice gets past the
\* hash, and what is hashed is what the file contains (asyncio.cpp:147, :398).
Exact == \A f \in dest : wanted[<<f[1], f[2]>>] = "yes" /\ f[3] = Content(f[1], f[2])

\* Ctrl-C may have ended the slice, and dropped what monitorRun was not told (backup.cpp:2171)
MayDrop == pc \in {"next", "done"} /\ operationCanceled

\* What is reported of a slice is what happened: whatever gives up a file, and however often, files
\* written less files canceled are those at the destination (asyncio.cpp:113, :158, :418).  Ctrl-C
\* drops counts (backup.cpp:2171, :2187): then no file is reported that is not at the destination.
SavedAreCounted ==
    LET saved == Cardinality({f \in dest : f[1] = n})
    IN /\ written - canceled <= saved
       /\ ~MayDrop => written - canceled = saved

\* A slice that was done to its end has counted every selected file, also those that exist already
\* and those given up, whatever gave them up and however it overlaps with saving them
\* (asyncio.cpp:113, :158, :418).  A cancel while no file is open counts one too many.
EveryFileCounted ==
    pc = "next" /\ sd[T].fin => written >= Cardinality({i \in Rows(n, T) : wanted[<<n, i>>] # "no"})

\* The file being restored was given up half-way: its work file is closed, but its size stays
TargetLost == pc = "round" /\ sd[T].size > 0 /\ ~sd[T].open

\* The thread gets through its slices unless it gives up a file half-way (asyncio.cpp:315,
\* backup.cpp:2169).
EndsOrGivesUp == <>(pc = "done" \/ TargetLost)

\* "Try restore next file from slice" (asyncio.cpp:416): the thread gets through its slices.
Finishes == <>(pc = "done")
=============================================================================

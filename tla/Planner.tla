------------------------------ MODULE Planner ------------------------------
(***************************************************************************)
(* createSlices: how the free files of the data disks are grouped into     *)
(* slices by their sizes.  A slice starts with the largest free file of    *)
(* each disk; then the disk that lags behind most is filled with the files *)
(* that fit the hole, until the disks are level or nothing fits.  When     *)
(* only one disk has files left, they form slices of their own.            *)
(***************************************************************************)
EXTENDS Integers, FiniteSets, Sequences, Functions

CONSTANTS
    NDisks,     \* data disks are 1..NDisks
    MaxFiles,   \* config.maxFilesInSlice
    Tolerance,  \* config.percentTolerance
    SameSize,   \* MIN_THE_SAME_SIZE
    SoloBytes   \* 2 * GIGA: bytes after which a slice of one disk is cut

ASSUME NDisksAssumption == NDisks \in Nat \ {0}
ASSUME MaxFilesAssumption == MaxFiles \in Nat \ {0}
ASSUME SizesAssumption == Tolerance \in Nat /\ SameSize \in Nat /\ SoloBytes \in Nat

VARIABLES
    size,               \* table newfiles: disk -> sizes of its files in the order of seq
    marked,             \* rows in state '*', in and at the start of the transaction
    committed,
    pc,                 \* "start" a slice, "select" a disk, "fill" it; "done", "fatal"
    cur,                \* rows of slpos for the slice under way
    sum, cnt, fin,      \* its SLICE_DISKs: sumFilesLen, filesInSlice, diskFinished
    sliceSize, maxFilledDisk,
    consumed,           \* consumedSize of the disks
    nextDisk, holeSize, \* arguments of fillHole
    slices              \* slices committed

fillVars == <<nextDisk, holeSize>>
statVars == <<sum, cnt, fin, sliceSize, maxFilledDisk>>
vars == <<size, marked, committed, pc, cur, sum, cnt, fin, sliceSize, maxFilledDisk,
          consumed, nextDisk, holeSize, slices>>

Disks == 1..NDisks
None  == [d \in Disks |-> {}]
Zeros == [d \in Disks |-> 0]

least(S)   == CHOOSE x \in S : \A y \in S : x <= y
largest(S) == CHOOSE x \in S : \A y \in S : x >= y

----------------------------------------------------------------------------
\* 0: the same within the tolerance; otherwise the signed difference in percent
percentDiff(a, b) ==
    LET diff == IF a < b THEN b - a ELSE a - b
        big  == IF a < b THEN b ELSE a
        prc  == (200 * diff + big) \div (2 * big)
    IN IF diff <= SameSize \/ prc <= Tolerance THEN 0 ELSE IF a < b THEN -prc ELSE prc

FilesSize(d) == SumFunction(size[d])
Free(d)      == DOMAIN size[d] \ marked[d]
Bytes(d, rows) == SumFunctionOnSet(size[d], rows)

\* The first disk with the most bytes, those of files in older slices included
maxSizeDisk == least({d \in Disks : \A e \in Disks : FilesSize(e) <= FilesSize(d)})

diskInUse(d) == cnt[d] < MaxFiles /\ FilesSize(d) > consumed[d]

\* Mutant: diskFinished is not looked at
inUse(d) == diskInUse(d)

Usable(d) == diskInUse(d) /\ ~fin[d]

Init ==
    /\ size \in [Disks -> Seq(Nat)]
    /\ \A d \in Disks : \A i, k \in DOMAIN size[d] : i <= k => size[d][k] <= size[d][i]
    /\ marked \in [Disks -> SUBSET Nat] /\ \A d \in Disks : marked[d] \subseteq DOMAIN size[d]
    /\ committed = marked /\ pc = "start" /\ cur = {}
    /\ sum = Zeros /\ cnt = Zeros /\ fin = [d \in Disks |-> FALSE]
    /\ sliceSize = 0 /\ maxFilledDisk = 1 /\ consumed = Zeros
    /\ nextDisk = 1 /\ holeSize = 0 /\ slices = <<>>

----------------------------------------------------------------------------
(* insert2slice: rows of one disk get their places behind those it has.    *)

startOf(d, base, rows, q) == base + Bytes(d, {p \in rows : p < q})

Positions(d, base, rows) ==
    {[disk |-> d, seq |-> q, start |-> startOf(d, base, rows, q)] : q \in rows}

\* freshSliceStat for the rows added to each disk; a longer disk leads only if it is
\* strictly longer
freshSliceStat(add) ==
    LET s == [d \in Disks |-> sum[d] + Bytes(d, add[d])]
        m == largest({s[d] : d \in Disks})
    IN /\ sum' = s
       /\ cnt' = [d \in Disks |-> cnt[d] + Cardinality(add[d])]
       /\ sliceSize' = m
       /\ maxFilledDisk' = IF m > sliceSize THEN least({d \in Disks : s[d] = m})
                                            ELSE maxFilledDisk

\* Mutant: a disk once finished stays so
commitFinished(pos, s, m) ==
    /\ slices' = Append(slices, [pos |-> pos, ssize |-> largest({s[d] : d \in Disks})])
    /\ consumed' = [d \in Disks |-> consumed[d] + s[d]]
    /\ marked' = m /\ committed' = m
    /\ pc' = "start" /\ cur' = {} /\ sum' = Zeros /\ cnt' = Zeros /\ fin' = fin
    /\ sliceSize' = 0 /\ maxFilledDisk' = 1

\* INSERT INTO slhead, COMMIT, clearSliceStat
commitSlice(pos, s, m) ==
    /\ slices' = Append(slices, [pos |-> pos, ssize |-> largest({s[d] : d \in Disks})])
    /\ consumed' = [d \in Disks |-> consumed[d] + s[d]]
    /\ marked' = m /\ committed' = m
    /\ pc' = IF \E d \in Disks : consumed'[d] > FilesSize(d) THEN "fatal" ELSE "start"
    /\ cur' = {} /\ sum' = Zeros /\ cnt' = Zeros /\ fin' = [d \in Disks |-> FALSE]
    /\ sliceSize' = 0 /\ maxFilledDisk' = 1

----------------------------------------------------------------------------
(* startSlice: the largest free file of every disk.                        *)

Firsts == [d \in Disks |-> IF Usable(d) /\ Free(d) # {} THEN {least(Free(d))} ELSE {}]
Active == {d \in Disks : Bytes(d, Firsts[d]) > 0}

startSlice ==
    /\ pc = "start" /\ Cardinality(Active) > 1
    /\ cur' = UNION {Positions(d, 0, Firsts[d]) : d \in Disks}
    /\ marked' = [d \in Disks |-> marked[d] \cup Firsts[d]]
    /\ freshSliceStat(Firsts)
    /\ pc' = "select"
    /\ UNCHANGED <<size, committed, fin, consumed, fillVars, slices>>

\* Mutant: only the bytes are limited
manyRows(d, rows) == {q \in rows : Bytes(d, {p \in rows : p < q}) <= SoloBytes}

\* The rows the rest of a solo disk is cut to
soloRows(d, rows) ==
    {q \in rows : LET before == {p \in rows : p < q} IN
                  Cardinality(before) <= MaxFiles /\ Bytes(d, before) <= SoloBytes}

\* Mutant: lastSeq stays LONG_MAX
markAll(rows, rest) == rows

\* UPDATE ... BETWEEN 1 AND the last row inserted
markUpTo(rows, rest) == {q \in rows : \E r \in rest : q <= r}

\* Only one disk has files: take the rest of them.  Free files of another disk (they
\* are empty, or its first one would have started the slice) are a fatal error.
soloSlice ==
    /\ pc = "start"
    /\ \E d \in Disks : Active = {d} /\
       LET left == [e \in Disks |-> Free(e) \ Firsts[e]] IN
       \E rest \in {soloRows(d, left[d])} :
          IF \E e, f \in Disks : e # f /\ left[e] # {} /\ left[f] # {}
          THEN pc' = "fatal"
               /\ UNCHANGED <<marked, committed, cur, statVars, consumed, slices>>
          ELSE commitSlice((UNION {Positions(e, 0, Firsts[e]) : e \in Disks})
                               \cup Positions(d, Bytes(d, Firsts[d]), rest),
                           [e \in Disks |-> Bytes(e, Firsts[e])
                                              + IF e = d THEN Bytes(d, rest) ELSE 0],
                           [e \in Disks |-> marked[e] \cup Firsts[e] \cup
                                IF e = d THEN markUpTo(left[d], rest) ELSE {}])
    /\ UNCHANGED <<size, fillVars>>

\* sliceSize is 0: what startSlice inserted is rolled back
noSlice ==
    /\ pc = "start" /\ Active = {}
    /\ pc' = "done"
    /\ UNCHANGED <<size, marked, committed, cur, statVars, consumed, fillVars, slices>>

\* Ctrl-C: the loop ends and the slice under way is rolled back
cancelRequest ==
    /\ pc \in {"start", "select"}
    /\ pc' = "done" /\ marked' = committed /\ cur' = {}
    /\ UNCHANGED <<size, committed, statVars, consumed, fillVars, slices>>

----------------------------------------------------------------------------
(* selectNextDisk: the disk that lags behind most, but the disk with the   *)
(* most data is served first unless it leads.                              *)

Lag(d)   == -percentDiff(sum[d], sum[maxFilledDisk])
Lagging  == {d \in Disks : Usable(d) /\ Lag(d) > 0}
Furthest == least({d \in Lagging : \A e \in Lagging : Lag(e) <= Lag(d)})

\* maxSizePercent is 100 while maxSizeDisk is not usable
selectNextDisk ==
    IF maxFilledDisk # maxSizeDisk /\ maxSizeDisk \in Lagging THEN maxSizeDisk ELSE Furthest

addFile2slice ==
    /\ pc = "select" /\ Lagging # {}
    /\ nextDisk' = selectNextDisk
    /\ holeSize' = sum[maxFilledDisk] - sum[nextDisk']
    /\ pc' = "fill"
    /\ UNCHANGED <<size, marked, committed, cur, statVars, consumed, slices>>

sliceReady ==
    /\ pc = "select" /\ Lagging = {}
    /\ commitSlice(cur, sum, marked)
    /\ UNCHANGED <<size, fillVars>>

----------------------------------------------------------------------------
(* fillHole: one turn of its outer loop, a chunk of consecutive files that *)
(* together do not exceed the hole, or fill it within the tolerance.       *)

\* Mutant: rows in state '*' are read again
anyState ==
    LET S == {q \in DOMAIN size[nextDisk] : size[nextDisk][q] <= holeSize}
    IN [i \in 1..Cardinality(S) |-> CHOOSE q \in S : Cardinality({p \in S : p < q}) = i - 1]

\* Mutant: a file as large as the hole is passed over
smaller ==
    LET S == {q \in Free(nextDisk) : size[nextDisk][q] < holeSize}
    IN [i \in 1..Cardinality(S) |-> CHOOSE q \in S : Cardinality({p \in S : p < q}) = i - 1]

\* Free files not larger than the hole, in the order of seq
Candidates ==
    LET S == {q \in Free(nextDisk) : size[nextDisk][q] <= holeSize}
    IN [i \in 1..Cardinality(S) |-> CHOOSE q \in S : Cardinality({p \in S : p < q}) = i - 1]

\* The files of a turn, what is left of the hole, and whether the disk has no file for it
Turn ==
    LET cand     == Candidates
        taken(j) == {cand[i] : i \in 1..j}
        hole(j)  == holeSize - Bytes(nextDisk, taken(j))
        full(j)  == cnt[nextDisk] + j >= MaxFiles
        none(j)  == j = Len(cand)
        next(j)  == size[nextDisk][cand[j + 1]]
        fits(j)  == ~none(j) /\ percentDiff(next(j), hole(j)) = 0
        big(j)   == ~none(j) /\ next(j) > hole(j)
        stop     == least({j \in 0..Len(cand) : full(j) \/ none(j) \/ fits(j) \/ big(j)})
        last     == ~full(stop) /\ fits(stop)
    IN [files    |-> taken(IF last THEN stop + 1 ELSE stop),
        hole     |-> IF full(stop) \/ last THEN 0 ELSE hole(stop),
        finished |-> ~full(0) /\ none(0)]

fillHole ==
    /\ pc = "fill" /\ holeSize > 0
    /\ \E t \in {Turn} :
       \E rows \in {{q \in Free(nextDisk) : \E p, r \in t.files : p <= q /\ q <= r}} :
          IF \/ Cardinality(rows) # Cardinality(t.files)
             \/ Bytes(nextDisk, rows) # Bytes(nextDisk, t.files)
          THEN pc' = "fatal"
               /\ UNCHANGED <<marked, cur, statVars, holeSize>>
          ELSE /\ cur' = cur \cup Positions(nextDisk, sum[nextDisk], rows)
               /\ marked' = [marked EXCEPT ![nextDisk] = @ \cup rows]
               /\ freshSliceStat([None EXCEPT ![nextDisk] = rows])
               /\ fin' = [fin EXCEPT ![nextDisk] = @ \/ t.finished]
               /\ holeSize' = IF t.finished \/ cnt'[nextDisk] >= MaxFiles THEN 0 ELSE t.hole
               /\ pc' = IF holeSize' > 0 THEN "fill" ELSE "select"
    /\ UNCHANGED <<size, committed, consumed, nextDisk, slices>>

----------------------------------------------------------------------------
CreateSlices == startSlice \/ soloSlice \/ noSlice \/ addFile2slice \/ sliceReady \/ fillHole

Next == CreateSlices \/ cancelRequest

Spec == Init /\ [][Next]_vars /\ WF_vars(CreateSlices)

----------------------------------------------------------------------------
Position == [disk : Disks, seq : Nat \ {0}, start : Nat]

TypeOK ==
    /\ pc \in {"start", "select", "fill", "done", "fatal"}
    /\ size \in [Disks -> Seq(Nat)]
    /\ marked \in [Disks -> SUBSET Nat] /\ committed \in [Disks -> SUBSET Nat]
    /\ \A d \in Disks : marked[d] \subseteq DOMAIN size[d] /\ committed[d] \subseteq marked[d]
    /\ cur \subseteq Position
    /\ sum \in [Disks -> Nat] /\ cnt \in [Disks -> Nat] /\ fin \in [Disks -> BOOLEAN]
    /\ sliceSize \in Nat /\ maxFilledDisk \in Disks /\ consumed \in [Disks -> Nat]
    /\ nextDisk \in Disks /\ holeSize \in Nat
    /\ slices \in Seq([pos : SUBSET Position, ssize : Nat])

----------------------------------------------------------------------------
(* Properties.                                                             *)

Of(sl, d)    == {p \in sl.pos : p.disk = d}
Rows(sl, d)  == {p.seq : p \in Of(sl, d)}
LastSlice(t) == t[Len(t)]

\* A file leaves the list of files to plan exactly when the slice that holds it is
\* committed, and the slice holds it once (state '*' of newfiles and the rows of slpos,
\* planer.cpp:177 and 190, are written by separate statements).
MarkedWithSlice ==
    [][IF slices' = slices
       THEN committed' = committed
       ELSE \A d \in Disks : LET last == LastSlice(slices') IN
               /\ Rows(last, d) = committed'[d] \ committed[d]
               /\ Cardinality(Of(last, d)) = Cardinality(Rows(last, d))]_vars

\* When planning ends by itself, no file with data is left: neither the limit of files in
\* a slice, nor a disk finished for one slice, nor the account of consumed bytes leaves
\* one behind.
AllPlanned == [][noSlice => \A d \in Disks : Bytes(d, Free(d)) = 0]_vars

\* The limit of files of a disk in a slice: exact for slices of several disks; the slice
\* of one disk (it holds data of no other) exceeds it by two at most.
FilesLimit ==
    \A i \in DOMAIN slices : \A d \in Disks :
        LET sl   == slices[i]
            solo == \A e \in Disks \ {d} : Bytes(e, Rows(sl, e)) = 0
        IN Cardinality(Of(sl, d)) <= IF solo THEN MaxFiles + 2 ELSE MaxFiles

\* None of the checks that end the program ("Program BUG", "Incorrect sum", "Not processed
\* files") fires unless empty files are left to plan.
FatalForEmptyOnly == pc = "fatal" => \E d \in Disks : \E q \in Free(d) : size[d][q] = 0

\* Slices are filled: a disk is left behind the largest file of a committed slice only at
\* its limit of files or when each of its free files with data would pass that file (a disk
\* finished early, planer.cpp:262, is not tried again when the slice grows).
FilledToLargest ==
    [][sliceReady =>
         LET largestFile == largest({size[p.disk][p.seq] : p \in cur}) IN
         \A d \in Disks : Lag(d) > 0 =>
             \/ cnt[d] >= MaxFiles
             \/ \A q \in Free(d) : size[d][q] \notin 1..(largestFile - sum[d])]_vars

\* "parityStart; // offset in slice parity array", backup.h:134: a position's start is
\* where the parity stream has the file: behind the files of the disk with a smaller
\* dseq (asyncio.cpp:82 reads them in that order).
StartIsOffset ==
    \A i \in DOMAIN slices : \A p \in slices[i].pos :
        p.start = Bytes(p.disk, {q.seq : q \in {q \in Of(slices[i], p.disk) : q.seq < p.seq}})

\* createSlices comes to its end: every turn of its loops adds files to the slice or
\* finishes a disk.
Finishes == <>(pc \in {"done", "fatal"})
=============================================================================

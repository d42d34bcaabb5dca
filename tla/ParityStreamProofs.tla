------------------------ MODULE ParityStreamProofs ------------------------
(***************************************************************************)
(* Proofs about ParityStream and FaultyStream.  Four invariants, each on   *)
(* top of the ones before: where every disk is in its files (PlaceInv),    *)
(* what the hashes were computed over (HashInv), that the disks stay in    *)
(* step while nothing was cancelled (StepInv), and that a slice with which *)
(* nothing goes wrong passes every check (CleanInv).                       *)
(***************************************************************************)
EXTENDS FaultyStream, SumTheorems

USE NDisksAssumption, BufSizeAssumption

----------------------------------------------------------------------------
(* The files of a disk laid end to end.                                    *)

\* The first k files of disk d in slice m
Start(m, d, k) == SumFunctionOnSet(Plan[m][d], 1..k)

LEMMA Lengths ==
    ASSUME NEW m \in 1..Len(Plan), NEW d \in Disks
    PROVE  /\ Plan[m][d] \in Seq(Nat) /\ Len(Plan[m][d]) \in Nat
           /\ \A i \in 1..Len(Plan[m][d]) : Plan[m][d][i] \in Nat
<1>1. Plan[m] \in [Disks -> Seq(Nat)]
    BY PlanAssumption
<1>2. Plan[m][d] \in Seq(Nat)
    BY <1>1
<1>3. QED
    BY <1>2

LEMMA Starts ==
    ASSUME NEW m \in 1..Len(Plan), NEW d \in Disks, NEW k \in 0..Len(Plan[m][d])
    PROVE  /\ Start(m, d, k) \in Nat /\ Total(m, d) \in Nat /\ Start(m, d, k) <= Total(m, d)
           /\ k < Len(Plan[m][d]) => Start(m, d, k + 1) = Start(m, d, k) + Plan[m][d][k + 1]
           /\ k = Len(Plan[m][d]) => Start(m, d, k) = Total(m, d)
           /\ k = 0 => Start(m, d, k) = 0
           /\ k # 0 /\ Plan[m][d][k] = 0 => Start(m, d, k) = Total(m, d)
<1>1. Plan[m][d] \in Seq(Nat) /\ Len(Plan[m][d]) \in Nat
    BY Lengths
<1>2. /\ Start(m, d, k) \in Nat /\ Start(m, d, k) <= Total(m, d)
      /\ k < Len(Plan[m][d]) => Start(m, d, k + 1) = Start(m, d, k) + Plan[m][d][k + 1]
      /\ k = Len(Plan[m][d]) => Start(m, d, k) = Total(m, d)
    BY <1>1, SumOfStart DEF Start, Total
<1>3. Total(m, d) \in Nat
    <2>1. Len(Plan[m][d]) \in 0..Len(Plan[m][d])
        BY <1>1
    <2>2. QED
        BY <1>1, <2>1, SumOfStart DEF Total
<1>4. k = 0 => Start(m, d, k) = 0
    <2>1. 1..0 = {}
        OBVIOUS
    <2>2. QED
        BY <2>1, SumEmpty DEF Start
<1>5. ASSUME k # 0, Plan[m][d][k] = 0 PROVE Start(m, d, k) = Total(m, d)
    <2>1. k \in 1..Len(Plan[m][d])
        BY <1>1, <1>5
    <2>2. QED
        BY <1>1, <1>5, <2>1, SumOfRest, DescendingAssumption DEF Start, Total
<1>6. QED
    BY <1>2, <1>3, <1>4, <1>5

\* SliceSize is the total of the largest disk.
LEMMA SizeOfSlice ==
    ASSUME NEW m \in 1..Len(Plan)
    PROVE  /\ SliceSize(m) \in Nat
           /\ \A d \in Disks : Total(m, d) <= SliceSize(m)
           /\ \E d \in Disks : Total(m, d) = SliceSize(m)
<1>1. \A d \in Disks : Total(m, d) \in Nat
    <2> TAKE d \in Disks
    <2>1. 0 \in 0..Len(Plan[m][d])
        BY Lengths
    <2>2. QED
        BY <2>1, Starts
<1> DEFINE T == [d \in Disks |-> Total(m, d)]
<1>2. \A d \in 1..NDisks : T[d] \in Nat
    BY <1>1 DEF Disks
<1> HIDE DEF T
<1>3. \E d \in 1..NDisks : \A e \in 1..NDisks : T[e] <= T[d]
    BY <1>2, LargestOf
<1>4. PICK d \in Disks : \A e \in Disks : Total(m, e) <= Total(m, d)
    BY <1>3 DEF T, Disks
<1>5. \E s \in {Total(m, e) : e \in Disks} : \A e \in Disks : Total(m, e) <= s
    BY <1>4
<1>6. SliceSize(m) \in {Total(m, e) : e \in Disks} /\ \A e \in Disks : Total(m, e) <= SliceSize(m)
    BY <1>5 DEF SliceSize
<1>7. QED
    BY <1>1, <1>6

----------------------------------------------------------------------------
(* Where a disk is in its files, and what its request may still bring.     *)

FileOK(m, d, r) ==
    /\ r \in SliceDisk
    /\ r.seq \in 0..Len(Plan[m][d])
    /\ r.got + r.left = Start(m, d, r.seq)
    /\ r.fin => r.seq = Len(Plan[m][d]) /\ r.left = 0
    /\ r.len <= r.got

ReadOK(r, w, s) ==
    w > 0 => /\ w <= r.left /\ w + r.len <= BufSize /\ ~r.fin
             /\ s \in {InProgress, -1} \cup (0..w)

\* A disk has filled its buffer, or has come to the end of its files.
FullAt(m, d, r) == r.len = BufSize \/ r.got = Total(m, d)

FileInv == \A d \in Disks : FileOK(n, d, disk[d]) /\ ReadOK(disk[d], want[d], res[d])

WriteInv ==
    /\ want[P] > 0 => want[P] = plen /\ res[P] \in {InProgress, -1, 0, plen}
    /\ pc \notin {"pass", "suspend"} => want = Idle

PlaceInv == TypeOK /\ FileInv /\ WriteInv

\* A disk is never beyond the end of its files, and at the end when there is no next one.
LEMMA FileBounds ==
    ASSUME NEW m \in 1..Len(Plan), NEW d \in Disks, NEW r, FileOK(m, d, r)
    PROVE  /\ r.got + r.left <= Total(m, d)
           /\ r.fin => r.got = Total(m, d)
           /\ Total(m, d) \in Nat
BY Starts DEF FileOK, SliceDisk

LEMMA Fields ==
    ASSUME NEW r \in SliceDisk
    PROVE  /\ r.seq \in Nat /\ r.left \in Nat /\ r.got \in Nat /\ r.hashed \in Nat
           /\ r.len \in 0..BufSize /\ r.open \in BOOLEAN /\ r.fin \in BOOLEAN
BY DEF SliceDisk

\* What openNextFile changes
LEMMA NextFile ==
    ASSUME NEW d \in Disks, NEW r \in SliceDisk, NEW ok \in BOOLEAN, n \in 1..Len(Plan),
           HasFile(d, r)
    PROVE  /\ openNextFile(d, r, ok) \in SliceDisk
           /\ openNextFile(d, r, ok).seq = r.seq + 1
           /\ openNextFile(d, r, ok).left = Plan[n][d][r.seq + 1]
           /\ openNextFile(d, r, ok).open = ok
           /\ openNextFile(d, r, ok).hashed = 0
           /\ openNextFile(d, r, ok).fin = r.fin
           /\ openNextFile(d, r, ok).len = r.len
           /\ openNextFile(d, r, ok).got = r.got
<1> DEFINE i == r.seq + 1
           s == Plan[n][d][i]
<1>1. i \in Nat /\ s \in Nat
    <2>1. r.seq \in Nat /\ r.seq < Len(Plan[n][d])
        BY Fields DEF HasFile, Sizes
    <2>2. i \in 1..Len(Plan[n][d])
        BY <2>1, Lengths
    <2>3. QED
        BY <2>2, Lengths
<1>2. openNextFile(d, r, ok) = [r EXCEPT !.seq = i, !.left = s, !.open = ok, !.hashed = 0]
    BY DEF openNextFile, Sizes
<1> HIDE DEF i, s
<1>3. [r EXCEPT !.seq = i, !.left = s, !.open = ok, !.hashed = 0] \in SliceDisk
    BY <1>1 DEF SliceDisk
<1>4. QED
    BY <1>1, <1>2, <1>3 DEF SliceDisk, i, s

LEMMA BytesToRead ==
    ASSUME NEW q \in SliceDisk
    PROVE  /\ nbytes(q) \in 0..BufSize /\ ReadOK(q, nbytes(q), InProgress)
           /\ nbytes(q) = 0 => q.fin \/ q.left = 0 \/ q.len = BufSize
<1>1. q.left \in Nat /\ q.len \in 0..BufSize
    BY DEF SliceDisk
<1>2. CASE q.fin
    BY <1>2 DEF nbytes, ReadOK
<1>3. CASE ~q.fin
    <2>1. /\ nbytes(q) \in 0..BufSize /\ nbytes(q) <= q.left /\ nbytes(q) + q.len <= BufSize
          /\ nbytes(q) = 0 => q.left = 0 \/ q.len = BufSize
        BY <1>1, <1>3 DEF nbytes, freeSpace
    <2>2. QED
        BY <1>3, <2>1 DEF ReadOK
<1>4. QED
    BY <1>2, <1>3

\* Where startAIO leaves a disk: it is still at its place, asks for no more than the file
\* has and the buffer takes, and asks for nothing only if it is full.
LEMMA StartAIOPlace ==
    ASSUME NEW d \in Disks, NEW r, NEW ok \in BOOLEAN, n \in 1..Len(Plan), FileOK(n, d, r),
           NEW q, q = IF NeedsFile(r) THEN openNextFile(d, r, ok) ELSE r
    PROVE  /\ FileOK(n, d, q) /\ q.len = r.len /\ q.got = r.got
           /\ nbytes(q) \in 0..BufSize /\ ReadOK(q, nbytes(q), InProgress)
           /\ nbytes(q) = 0 => FullAt(n, d, q)
<1>1. /\ r.seq \in 0..Len(Plan[n][d]) /\ r.left \in Nat /\ r.got \in Nat /\ r.len \in 0..BufSize
      /\ Len(Plan[n][d]) \in Nat /\ r.fin \in BOOLEAN
    BY Lengths DEF FileOK, SliceDisk
<1>2. FileOK(n, d, q) /\ q.len = r.len /\ q.got = r.got
      /\ (q.left = 0 => q.got = Total(n, d))
    <2>1. CASE ~NeedsFile(r)
        BY <2>1, <1>1, FileBounds DEF NeedsFile
    <2>2. CASE NeedsFile(r) /\ HasFile(d, r)
        <3>1. /\ q.seq = r.seq + 1 /\ q.left = Plan[n][d][r.seq + 1] /\ q.open = ok /\ q.hashed = 0
              /\ q.fin = r.fin /\ q.len = r.len /\ q.got = r.got /\ q \in SliceDisk
            BY <2>2, NextFile DEF FileOK
        <3>2. /\ r.seq < Len(Plan[n][d]) /\ r.left = 0 /\ ~r.fin
              /\ r.got = Start(n, d, r.seq)
            BY <2>2, <1>1 DEF NeedsFile, HasFile, Sizes, FileOK
        <3>3. Start(n, d, q.seq) = r.got + q.left
            BY <1>1, <3>1, <3>2, Starts
        <3>4. q.left = 0 => Start(n, d, q.seq) = Total(n, d)
            <4>1. q.seq \in 0..Len(Plan[n][d]) /\ q.seq # 0 /\ Plan[n][d][q.seq] = q.left
                BY <1>1, <3>1, <3>2
            <4>2. QED
                BY <4>1, Starts
        <3>5. FileOK(n, d, q)
            BY <1>1, <3>1, <3>2, <3>3 DEF FileOK
        <3>6. q.left = 0 => q.got = Total(n, d)
            BY <1>1, <3>1, <3>3, <3>4
        <3>7. QED
            BY <3>1, <3>5, <3>6
    <2>3. CASE NeedsFile(r) /\ ~HasFile(d, r)
        <3>1. /\ q.seq = r.seq /\ q.left = r.left /\ q.fin = TRUE /\ q.len = r.len
              /\ q.got = r.got /\ q \in SliceDisk
            BY <2>3 DEF openNextFile, FileOK, SliceDisk
        <3>2. r.seq = Len(Plan[n][d]) /\ r.left = 0
            BY <2>3, <1>1 DEF NeedsFile, HasFile, Sizes
        <3>3. FileOK(n, d, q)
            BY <3>1, <3>2 DEF FileOK
        <3>4. q.got = Total(n, d)
            BY <3>1, <3>3, FileBounds
        <3>5. QED
            BY <3>1, <3>3, <3>4
    <2>4. QED
        BY <2>1, <2>2, <2>3
<1>3. q.left \in Nat /\ q.len \in 0..BufSize /\ q.fin \in BOOLEAN
    BY <1>2 DEF FileOK, SliceDisk
<1>4. /\ nbytes(q) \in 0..BufSize /\ ReadOK(q, nbytes(q), InProgress)
      /\ nbytes(q) = 0 => q.fin \/ q.left = 0 \/ q.len = BufSize
    BY <1>2, BytesToRead DEF FileOK
<1>5. nbytes(q) = 0 => FullAt(n, d, q)
    BY <1>2, <1>4, FileBounds DEF FullAt
<1>6. QED
    BY <1>2, <1>4, <1>5

----------------------------------------------------------------------------
(* Every step leaves the disks at their places.                            *)

LEMMA PBasics == /\ P \in 1..P /\ Disks \subseteq 1..P /\ P \notin Disks
                 /\ 1..P = Disks \cup {P} /\ P \in Nat /\ BufSize \in Nat
BY DEF P, Disks

LEMMA PlaceTyped ==
    ASSUME n \in 1..Len(Plan), FileInv
    PROVE  \A d \in Disks : disk[d].seq \in 0..Len(Sizes(d)) /\ disk[d].got \in 0..Total(n, d)
<1> TAKE d \in Disks
<1>1. FileOK(n, d, disk[d])
    BY DEF FileInv
<1>2. disk[d].got \in Nat /\ disk[d].left \in Nat
    BY <1>1 DEF FileOK, SliceDisk
<1>3. QED
    BY <1>1, <1>2, FileBounds DEF FileOK, Sizes

LEMMA PlaceTypedNext ==
    ASSUME n' \in 1..Len(Plan), FileInv'
    PROVE  (\A d \in Disks : disk[d].seq \in 0..Len(Sizes(d)) /\ disk[d].got \in 0..Total(n, d))'
<1>1. ASSUME NEW d \in Disks
      PROVE  disk'[d].seq \in 0..Len(Plan[n'][d]) /\ disk'[d].got \in 0..Total(n', d)
    <2>1. FileOK(n', d, disk'[d])
        BY DEF FileInv
    <2>2. disk'[d].got \in Nat /\ disk'[d].left \in Nat
        BY <2>1 DEF FileOK, SliceDisk
    <2>3. QED
        BY <2>1, <2>2, FileBounds DEF FileOK
<1>2. QED
    BY <1>1 DEF Sizes, Total

\* A step that moves one disk
LEMMA MoveDisk ==
    ASSUME TypeOK, FileInv, NEW d \in Disks, NEW q, NEW w \in 0..BufSize,
           NEW s \in {InProgress, -1} \cup (0..BufSize), FileOK(n, d, q), ReadOK(q, w, s),
           disk' = [disk EXCEPT ![d] = q], want' = [want EXCEPT ![d] = w],
           res' = [res EXCEPT ![d] = s], n' = n
    PROVE  /\ disk' \in [Disks -> SliceDisk] /\ want' \in [1..P -> 0..BufSize]
           /\ res' \in [1..P -> {InProgress, -1} \cup (0..BufSize)]
           /\ want'[P] = want[P] /\ res'[P] = res[P]
           /\ want'[d] = w /\ res'[d] = s /\ disk'[d] = q
           /\ FileInv'
<1>1. q \in SliceDisk
    BY DEF FileOK
<1>2. /\ disk \in [Disks -> SliceDisk] /\ want \in [1..P -> 0..BufSize]
      /\ res \in [1..P -> {InProgress, -1} \cup (0..BufSize)]
    BY DEF TypeOK
<1>3. /\ want'[P] = want[P] /\ res'[P] = res[P] /\ want'[d] = w /\ res'[d] = s /\ disk'[d] = q
    BY <1>2, PBasics
<1>4. ASSUME NEW e \in Disks
      PROVE  FileOK(n, e, disk'[e]) /\ ReadOK(disk'[e], want'[e], res'[e])
    <2>1. CASE e = d
        BY <2>1, <1>3
    <2>2. CASE e # d
        <3>1. disk'[e] = disk[e] /\ want'[e] = want[e] /\ res'[e] = res[e]
            BY <2>2, <1>2, PBasics
        <3>2. QED
            BY <3>1 DEF FileInv
    <2>3. QED
        BY <2>1, <2>2
<1>5. FileInv'
    BY <1>4 DEF FileInv, FileOK, ReadOK, SliceDisk, Start, Total
<1>6. QED
    BY <1>1, <1>2, <1>3, <1>5, PBasics

\* A step of startAIO
LEMMA StartAIOStep ==
    ASSUME TypeOK, FileInv, NEW d \in Disks, NEW r, NEW ok \in BOOLEAN, FileOK(n, d, r),
           startAIO(d, r, ok), n' = n
    PROVE  /\ disk' \in [Disks -> SliceDisk] /\ want' \in [1..P -> 0..BufSize]
           /\ res' \in [1..P -> {InProgress, -1} \cup (0..BufSize)]
           /\ want'[P] = want[P] /\ res'[P] = res[P]
           /\ FileInv'
           /\ disk'[d].len = r.len /\ disk'[d].got = r.got /\ res'[d] = InProgress
           /\ \A e \in Disks \ {d} : /\ disk'[e] = disk[e] /\ want'[e] = want[e]
                                     /\ res'[e] = res[e]
           /\ genCanceled' = ~ok
           /\ hashes' \subseteq Disks \X Nat \X Nat
           /\ ok /\ want'[d] = 0 => FullAt(n, d, disk'[d])
<1> DEFINE q == IF NeedsFile(r) THEN openNextFile(d, r, ok) ELSE r
           w == IF ok THEN nbytes(q) ELSE 0
<1>1. /\ disk' = [disk EXCEPT ![d] = q] /\ want' = [want EXCEPT ![d] = w]
      /\ res' = [res EXCEPT ![d] = InProgress] /\ genCanceled' = ~ok
    BY DEF startAIO
<1>2. n \in 1..Len(Plan)
    BY DEF TypeOK
<1>3. q = IF NeedsFile(r) THEN openNextFile(d, r, ok) ELSE r
    OBVIOUS
<1> HIDE DEF q
<1>4. /\ FileOK(n, d, q) /\ q.len = r.len /\ q.got = r.got
      /\ nbytes(q) \in 0..BufSize /\ ReadOK(q, nbytes(q), InProgress)
      /\ nbytes(q) = 0 => FullAt(n, d, q)
    BY <1>2, <1>3, StartAIOPlace
<1>5. w \in 0..BufSize /\ ReadOK(q, w, InProgress)
    BY <1>4 DEF ReadOK
<1> HIDE DEF w
<1>6. /\ disk' \in [Disks -> SliceDisk] /\ want' \in [1..P -> 0..BufSize]
      /\ res' \in [1..P -> {InProgress, -1} \cup (0..BufSize)]
      /\ want'[P] = want[P] /\ res'[P] = res[P]
      /\ want'[d] = w /\ res'[d] = InProgress /\ disk'[d] = q
      /\ FileInv'
    BY <1>1, <1>4, <1>5, MoveDisk
<1>7. \A e \in Disks \ {d} : disk'[e] = disk[e] /\ want'[e] = want[e] /\ res'[e] = res[e]
    BY <1>1, PBasics DEF TypeOK
<1>8. hashes' \subseteq Disks \X Nat \X Nat
    <2>1. r.seq \in Nat /\ r.hashed \in Nat
        BY DEF FileOK, SliceDisk
    <2>2. storeHash(d, r) \subseteq Disks \X Nat \X Nat
        BY <2>1 DEF storeHash
    <2>3. hashes' = hashes \/ hashes' = hashes \cup storeHash(d, r)
        BY DEF startAIO
    <2>4. hashes \subseteq Disks \X Nat \X Nat
        BY DEF TypeOK
    <2>5. QED
        BY <2>2, <2>3, <2>4
<1>9. QED
    BY <1>1, <1>4, <1>6, <1>7, <1>8 DEF w

\* The disk as consumeRead counts the bytes
Counted(r, k) == [r EXCEPT !.len = @ + k, !.got = @ + k, !.left = @ - k, !.hashed = @ + k]

LEMMA CountedPlace ==
    ASSUME NEW m \in 1..Len(Plan), NEW d \in Disks, NEW r, FileOK(m, d, r),
           NEW w \in 0..BufSize, NEW k \in {InProgress, -1} \cup (0..BufSize),
           ReadOK(r, w, k), w > 0, k > 0
    PROVE  /\ FileOK(m, d, Counted(r, k))
           /\ Counted(r, k).len = r.len + k /\ Counted(r, k).got = r.got + k
           /\ Counted(r, k).left = r.left - k /\ Counted(r, k).hashed = r.hashed + k
           /\ Counted(r, k).seq = r.seq /\ Counted(r, k).fin = r.fin
           /\ Counted(r, k).open = r.open
<1>1. k \in 1..w /\ w <= r.left /\ w + r.len <= BufSize /\ ~r.fin /\ k \in Nat
    BY DEF ReadOK, InProgress
<1>2. /\ r \in SliceDisk /\ r.left \in Nat /\ r.len \in Nat /\ r.got \in Nat /\ r.hashed \in Nat
      /\ r.left - k \in Nat /\ r.len + k \in 0..BufSize
      /\ r.got + k \in Nat /\ r.hashed + k \in Nat
      /\ (r.got + k) + (r.left - k) = r.got + r.left
    <2>1. r \in SliceDisk
        BY DEF FileOK
    <2>2. r.left \in Nat /\ r.len \in Nat /\ r.got \in Nat /\ r.hashed \in Nat
        BY <2>1, Fields
    <2> DEFINE left == r.left
               len  == r.len
               got  == r.got
               hashed == r.hashed
    <2>3. left \in Nat /\ len \in Nat /\ got \in Nat /\ hashed \in Nat /\ k <= left
          /\ k + len <= BufSize
        BY <1>1, <2>2
    <2> HIDE DEF left, len, got, hashed
    <2>4. /\ left - k \in Nat /\ len + k \in 0..BufSize /\ got + k \in Nat /\ hashed + k \in Nat
          /\ (got + k) + (left - k) = got + left
        BY <1>1, <2>3
    <2>5. QED
        BY <2>1, <2>2, <2>4 DEF left, len, got, hashed
<1>3. /\ Counted(r, k).len = r.len + k /\ Counted(r, k).got = r.got + k
      /\ Counted(r, k).left = r.left - k /\ Counted(r, k).hashed = r.hashed + k
      /\ Counted(r, k).seq = r.seq /\ Counted(r, k).fin = r.fin
      /\ Counted(r, k).open = r.open
    BY <1>2 DEF Counted, SliceDisk
<1>4. Counted(r, k) \in SliceDisk
    <2> DEFINE a == r.len + k
               b == r.got + k
               c == r.left - k
               e == r.hashed + k
    <2>1. a \in 0..BufSize /\ b \in Nat /\ c \in Nat /\ e \in Nat
        BY <1>2
    <2>2. Counted(r, k) = [r EXCEPT !.len = a, !.got = b, !.left = c, !.hashed = e]
        BY DEF Counted
    <2> HIDE DEF a, b, c, e
    <2>3. QED
        BY <1>2, <2>1, <2>2 DEF SliceDisk
<1>5. FileOK(m, d, Counted(r, k))
    <2>1. r.len <= r.got
        BY DEF FileOK
    <2>2. r.len + k <= r.got + k
        BY <1>1, <1>2, <2>1
    <2>3. /\ r.seq \in 0..Len(Plan[m][d]) /\ r.got + r.left = Start(m, d, r.seq)
        BY DEF FileOK
    <2>4. Counted(r, k).got + Counted(r, k).left = Start(m, d, r.seq)
        BY <1>2, <1>3, <2>3
    <2>5. QED
        BY <1>1, <1>3, <1>4, <2>2, <2>3, <2>4 DEF FileOK
<1>6. QED
    BY <1>3, <1>5

\* The disks stay where they are, and requests end or are given up.
LEMMA SamePlace ==
    ASSUME FileInv, n' = n,
           \A d \in Disks : /\ disk'[d] = disk[d]
                            /\ \/ want'[d] = 0
                               \/ /\ want'[d] = want[d]
                                  /\ res'[d] = res[d] \/ res'[d] \in {-1} \cup (0..want[d])
    PROVE  FileInv'
<1>1. ASSUME NEW d \in Disks PROVE FileOK(n, d, disk[d])' /\ ReadOK(disk[d], want[d], res[d])'
    <2>1. FileOK(n, d, disk[d]) /\ ReadOK(disk[d], want[d], res[d])
        BY DEF FileInv
    <2>2. FileOK(n, d, disk[d])'
        BY <2>1 DEF FileOK
    <2>3. ReadOK(disk'[d], want'[d], res'[d])
        BY <2>1 DEF ReadOK
    <2>4. QED
        BY <2>2, <2>3
<1>2. QED
    BY <1>1 DEF FileInv

\* The disk as computeParity leaves it
Emptied(r) == [r EXCEPT !.len = 0]

LEMMA EmptiedPlace ==
    ASSUME NEW m \in 1..Len(Plan), NEW d \in Disks, NEW r, FileOK(m, d, r)
    PROVE  /\ FileOK(m, d, Emptied(r)) /\ Emptied(r) \in SliceDisk
           /\ Emptied(r).len = 0 /\ Emptied(r).got = r.got /\ Emptied(r).left = r.left
           /\ Emptied(r).hashed = r.hashed /\ Emptied(r).seq = r.seq
           /\ Emptied(r).fin = r.fin /\ Emptied(r).open = r.open
<1>1. r \in SliceDisk /\ 0 \in 0..BufSize /\ r.got \in Nat
    BY DEF FileOK, SliceDisk
<1>2. /\ Emptied(r) \in SliceDisk
      /\ Emptied(r).len = 0 /\ Emptied(r).got = r.got /\ Emptied(r).left = r.left
      /\ Emptied(r).hashed = r.hashed /\ Emptied(r).seq = r.seq
      /\ Emptied(r).fin = r.fin /\ Emptied(r).open = r.open
    BY <1>1 DEF Emptied, SliceDisk
<1>3. FileOK(m, d, Emptied(r))
    BY <1>1, <1>2 DEF FileOK
<1>4. QED
    BY <1>2, <1>3

LEMMA FreshPlace ==
    ASSUME NEW m \in 1..Len(Plan), NEW d \in Disks
    PROVE  FileOK(m, d, Fresh) /\ Fresh \in SliceDisk
<1>1. Fresh \in SliceDisk
    BY DEF Fresh, SliceDisk
<1>2. 0 \in 0..Len(Plan[m][d])
    BY Lengths
<1>3. Start(m, d, 0) = 0
    BY <1>2, Starts
<1>4. QED
    BY <1>1, <1>2, <1>3 DEF FileOK, Fresh

LEMMA PlaceInit == Init => PlaceInv
<1> SUFFICES ASSUME Init PROVE PlaceInv
    OBVIOUS
<1>1. n = 1 /\ 1 \in 1..Len(Plan)
    BY PlanAssumption DEF Init
<1>2. Fresh \in SliceDisk
    BY DEF Fresh, SliceDisk
<1>3. ASSUME NEW d \in Disks
      PROVE  FileOK(n, d, disk[d]) /\ ReadOK(disk[d], want[d], res[d])
    <2>1. disk[d] = Fresh /\ want[d] = 0
        BY PBasics DEF Init, Idle
    <2>2. QED
        BY <1>1, <2>1, FreshPlace DEF ReadOK
<1>4. FileInv
    BY <1>3 DEF FileInv
<1>5. WriteInv
    BY PBasics DEF Init, WriteInv, Idle
<1>6. TypeOK
    <2>1. \A d \in Disks : disk[d].seq \in 0..Len(Sizes(d)) /\ disk[d].got \in 0..Total(n, d)
        BY <1>1, <1>4, PlaceTyped
    <2>2. saved \in [1..Len(Plan) -> [parity : Seq(SUBSET Byte), hashes : SUBSET (Disks \X Nat \X Nat)]]
        BY DEF Init, NotSaved
    <2>3. /\ disk \in [Disks -> SliceDisk] /\ want \in [1..P -> 0..BufSize]
          /\ res \in [1..P -> {InProgress, -1} \cup (0..BufSize)]
        BY <1>2, PBasics DEF Init, Idle
    <2>4. /\ buf \in [Disks -> [Slots -> Byte \cup {Zero}]]
          /\ pbuf \in [Slots -> SUBSET Byte] /\ out \in Seq(SUBSET Byte)
        BY DEF Init, Cleared
    <2>5. at \in 0..(P + 1) /\ plen \in 0..BufSize
        BY PBasics DEF Init, P
    <2>6. QED
        BY <1>1, <2>1, <2>2, <2>3, <2>4, <2>5 DEF Init, TypeOK
<1>7. QED
    BY <1>4, <1>5, <1>6 DEF PlaceInv

LEMMA Longest ==
    ASSUME disk \in [Disks -> SliceDisk]
    PROVE  /\ LongestBuffer \in 0..BufSize
           /\ \A d \in Disks : disk[d].len <= LongestBuffer
           /\ \E d \in Disks : disk[d].len = LongestBuffer
<1> DEFINE L == [d \in Disks |-> disk[d].len]
<1>1. \A d \in Disks : disk[d].len \in 0..BufSize
    BY DEF SliceDisk
<1>2. \A d \in 1..NDisks : L[d] \in Nat
    BY <1>1 DEF Disks
<1> HIDE DEF L
<1>3. \E d \in 1..NDisks : \A e \in 1..NDisks : L[e] <= L[d]
    BY <1>2, LargestOf
<1>4. PICK d \in Disks : \A e \in Disks : disk[e].len <= disk[d].len
    BY <1>3 DEF L, Disks
<1>5. \E k \in 0..BufSize : /\ \E e \in Disks : disk[e].len = k
                            /\ \A e \in Disks : disk[e].len <= k
    BY <1>1, <1>4
<1>6. QED
    BY <1>5 DEF LongestBuffer

LEMMA PlaceStep == PlaceInv /\ [Next]_vars => PlaceInv'
<1> SUFFICES ASSUME PlaceInv, [Next]_vars PROVE PlaceInv'
    OBVIOUS
<1> USE PBasics
<1> DEFINE Placed == \A d \in Disks : /\ disk[d].seq \in 0..Len(Sizes(d))
                                      /\ disk[d].got \in 0..Total(n, d)
<1>1. TypeOK /\ FileInv /\ WriteInv /\ n \in 1..Len(Plan)
    BY DEF PlaceInv, TypeOK
<1>2. ASSUME UNCHANGED <<n, disk, want, res>> PROVE FileInv' /\ Placed'
    <2>1. FileInv'
        BY <1>1, <1>2, SamePlace
    <2>2. Placed'
        BY <1>1, <1>2, <2>1, PlaceTypedNext
    <2>3. QED
        BY <2>1, <2>2
<1>3. CASE createSliceFile
    <2>1. FileInv' /\ Placed'
        BY <1>2, <1>3 DEF createSliceFile, diskVars, aioVars
    <2>2. WriteInv'
        BY <1>1, <1>3 DEF createSliceFile, WriteInv, aioVars, bufVars
    <2>3. TypeOK'
        <3>1. /\ skipped' = skipped \/ skipped' = skipped \cup {n}
              /\ pc' \in {"pass", "next"} /\ at' = 1
              /\ genCanceled' = genCanceled \/ genCanceled' = TRUE
            BY <1>3 DEF createSliceFile
        <3>2. genCanceled \in BOOLEAN /\ skipped \in SUBSET (1..Len(Plan))
            BY <1>1 DEF TypeOK
        <3>3. genCanceled' \in BOOLEAN /\ skipped' \in SUBSET (1..Len(Plan))
            BY <1>1, <3>1, <3>2
        <3>4. at' \in 0..(P + 1)
            BY <3>1
        <3>5. QED
            BY <1>1, <1>3, <2>1, <3>1, <3>3, <3>4
                DEF createSliceFile, TypeOK, diskVars, bufVars, aioVars, endVars
    <2>4. QED
        BY <2>1, <2>2, <2>3 DEF PlaceInv
<1>4. CASE skipDisk
    <2>1. FileInv' /\ Placed'
        BY <1>2, <1>4 DEF skipDisk, diskVars, aioVars
    <2>2. WriteInv'
        BY <1>1, <1>4 DEF skipDisk, WriteInv, aioVars, bufVars
    <2>3. TypeOK'
        <3>1. at' \in 0..(P + 1)
            BY <1>4 DEF skipDisk, P
        <3>2. QED
            BY <1>1, <1>4, <2>1, <3>1
                DEF skipDisk, TypeOK, diskVars, bufVars, aioVars, endVars
    <2>4. QED
        BY <2>1, <2>2, <2>3 DEF PlaceInv
<1>5. CASE rejectWrite
    <2>1. FileInv' /\ Placed'
        BY <1>2, <1>5 DEF rejectWrite, diskVars, aioVars
    <2>2. WriteInv'
        BY <1>1, <1>5 DEF rejectWrite, WriteInv, aioVars, bufVars
    <2>3. TypeOK'
        BY <1>1, <1>5, <2>1 DEF rejectWrite, TypeOK, diskVars, bufVars, aioVars, endVars
    <2>4. QED
        BY <2>1, <2>2, <2>3 DEF PlaceInv
<1>6. CASE endPass
    <2>1. FileInv' /\ Placed'
        BY <1>2, <1>6 DEF endPass, diskVars, aioVars
    <2>2. WriteInv'
        BY <1>1, <1>6 DEF endPass, WriteInv, aioVars, bufVars, AfterPass
    <2>3. TypeOK'
        <3>1. pc' \in {"suspend", "parity"}
            BY <1>1, <1>6 DEF endPass, TypeOK, AfterPass
        <3>2. QED
            BY <1>1, <1>6, <2>1, <3>1 DEF endPass, TypeOK, diskVars, bufVars, aioVars, endVars
    <2>4. QED
        BY <2>1, <2>2, <2>3 DEF PlaceInv
<1>7. CASE suspend
    <2>1. FileInv' /\ Placed'
        BY <1>2, <1>7 DEF suspend, diskVars, aioVars
    <2>2. WriteInv'
        BY <1>1, <1>7 DEF suspend, WriteInv, aioVars, bufVars
    <2>3. TypeOK'
        <3>1. at' \in 0..(P + 1) /\ genCanceled' \in BOOLEAN
            BY <1>1, <1>7 DEF suspend, TypeOK
        <3>2. QED
            BY <1>1, <1>7, <2>1, <3>1 DEF suspend, TypeOK, diskVars, bufVars, aioVars, endVars
    <2>4. QED
        BY <2>1, <2>2, <2>3 DEF PlaceInv
<1>8. CASE orphanDone
    <2>1. FileInv' /\ Placed'
        BY <1>2, <1>8 DEF orphanDone, diskVars, aioVars
    <2>2. WriteInv'
        BY <1>1, <1>8 DEF orphanDone, WriteInv, aioVars, bufVars
    <2>3. TypeOK'
        BY <1>1, <1>8, <2>1 DEF orphanDone, TypeOK, diskVars, bufVars, aioVars, endVars
    <2>4. QED
        BY <2>1, <2>2, <2>3 DEF PlaceInv
<1>9. CASE intHandler
    <2>1. FileInv' /\ Placed'
        BY <1>2, <1>9 DEF intHandler, diskVars, aioVars
    <2>2. WriteInv'
        BY <1>1, <1>9 DEF intHandler, WriteInv, aioVars, bufVars
    <2>3. TypeOK'
        BY <1>1, <1>9, <2>1 DEF intHandler, TypeOK, diskVars, bufVars, aioVars, endVars
    <2>4. QED
        BY <2>1, <2>2, <2>3 DEF PlaceInv
<1>10. CASE startWrite
    <2>1. /\ n' = n /\ disk' = disk /\ at' = P + 1 /\ plen \in 0..BufSize
          /\ want' = [want EXCEPT ![P] = plen] /\ res' = [res EXCEPT ![P] = InProgress]
          /\ plen' = plen /\ plen > 0 /\ pc' = pc /\ pc = "pass"
        BY <1>1, <1>10 DEF startWrite, diskVars, bufVars, TypeOK
    <2>2. /\ \A d \in Disks : want'[d] = want[d] /\ res'[d] = res[d]
          /\ want'[P] = plen /\ res'[P] = InProgress
          /\ want' \in [1..P -> 0..BufSize]
          /\ res' \in [1..P -> {InProgress, -1} \cup (0..BufSize)]
        BY <1>1, <2>1 DEF TypeOK
    <2>3. FileInv'
        BY <1>1, <2>1, <2>2, SamePlace
    <2>4. Placed'
        BY <1>1, <2>1, <2>3, PlaceTypedNext
    <2>5. WriteInv'
        BY <2>1, <2>2 DEF WriteInv
    <2>6. TypeOK'
        BY <1>1, <1>10, <2>1, <2>2, <2>4
            DEF startWrite, TypeOK, diskVars, bufVars, endVars
    <2>7. QED
        BY <2>3, <2>5, <2>6 DEF PlaceInv
<1>11. CASE finishWrite
    <2>1. /\ n' = n /\ disk' = disk /\ at' = P + 1 /\ res' = res
          /\ want' = [want EXCEPT ![P] = 0] /\ plen' = 0 /\ pc' = pc /\ pc = "pass"
          /\ pbuf' = [k \in Slots |-> IF k <= plen THEN {} ELSE pbuf[k]]
        BY <1>11 DEF finishWrite, diskVars
    <2>2. /\ \A d \in Disks : want'[d] = want[d]
          /\ want'[P] = 0 /\ want' \in [1..P -> 0..BufSize]
          /\ pbuf' \in [Slots -> SUBSET Byte]
          /\ at' \in 0..(P + 1) /\ plen' \in 0..BufSize
        BY <1>1, <2>1 DEF TypeOK
    <2>3. FileInv'
        BY <1>1, <2>1, <2>2, SamePlace
    <2>4. Placed'
        BY <1>1, <2>1, <2>3, PlaceTypedNext
    <2>5. WriteInv'
        BY <2>1, <2>2 DEF WriteInv
    <2>6. TypeOK'
        BY <1>1, <1>11, <2>1, <2>2, <2>4 DEF finishWrite, TypeOK, diskVars, endVars
    <2>7. QED
        BY <2>3, <2>5, <2>6 DEF PlaceInv
<1>12. CASE rejectRead
    <2>1. /\ n' = n /\ disk' = disk /\ at' = 0 /\ res' = res /\ at \in Disks
          /\ want' = [want EXCEPT ![at] = 0] /\ plen' = plen /\ pc' = pc /\ pc = "pass"
        BY <1>12 DEF rejectRead, diskVars, bufVars
    <2>2. /\ \A d \in Disks : want'[d] \in {want[d], 0}
          /\ want'[P] = want[P] /\ want' \in [1..P -> 0..BufSize]
          /\ at' \in 0..(P + 1)
        BY <1>1, <2>1 DEF TypeOK
    <2>3. FileInv'
        BY <1>1, <2>1, <2>2, SamePlace
    <2>4. Placed'
        BY <1>1, <2>1, <2>3, PlaceTypedNext
    <2>5. WriteInv'
        BY <1>1, <2>1, <2>2 DEF WriteInv
    <2>6. TypeOK'
        BY <1>1, <1>12, <2>1, <2>2, <2>4
            DEF rejectRead, TypeOK, diskVars, bufVars, endVars
    <2>7. QED
        BY <2>3, <2>5, <2>6 DEF PlaceInv
<1>13. CASE \E K \in SUBSET (1..P) : cancelAIO(K)
    <2>1. PICK K \in SUBSET (1..P) : cancelAIO(K)
        BY <1>13
    <2>2. /\ n' = n /\ disk' = disk /\ res' = res /\ plen' = plen
          /\ want' = [i \in 1..P |-> IF i \in K THEN want[i] ELSE 0]
          /\ pc' = AfterPass(want')
        BY <2>1 DEF cancelAIO, diskVars, bufVars
    <2>3. /\ \A i \in 1..P : want'[i] \in {want[i], 0}
          /\ want' \in [1..P -> 0..BufSize]
        BY <1>1, <2>2 DEF TypeOK
    <2>4. FileInv'
        BY <1>1, <2>2, <2>3, SamePlace
    <2>5. Placed'
        BY <1>1, <2>2, <2>4, PlaceTypedNext
    <2>6. WriteInv'
        BY <1>1, <2>2, <2>3 DEF WriteInv, AfterPass
    <2>7. orphan' \in BOOLEAN
        BY <2>1 DEF cancelAIO
    <2>8. pc' \in {"parity", "suspend"}
        BY <2>2 DEF AfterPass
    <2>9. TypeOK'
        BY <1>1, <2>1, <2>2, <2>3, <2>5, <2>7, <2>8
            DEF cancelAIO, TypeOK, diskVars, bufVars, endVars
    <2>10. QED
        BY <2>4, <2>6, <2>9 DEF PlaceInv
<1>14. ASSUME NEW ok \in BOOLEAN, startRead(ok) PROVE PlaceInv'
    <2>1. /\ at \in Disks /\ startAIO(at, disk[at], ok) /\ n' = n /\ plen' = plen
          /\ pc' = pc /\ pc = "pass" /\ at' \in {at + 1, 0}
        BY <1>14 DEF startRead, bufVars
    <2>2. FileOK(n, at, disk[at])
        BY <1>1, <2>1 DEF FileInv
    <2>3. /\ disk' \in [Disks -> SliceDisk] /\ want' \in [1..P -> 0..BufSize]
          /\ res' \in [1..P -> {InProgress, -1} \cup (0..BufSize)]
          /\ want'[P] = want[P] /\ res'[P] = res[P] /\ FileInv' /\ genCanceled' = ~ok
          /\ hashes' \subseteq Disks \X Nat \X Nat
        BY <1>1, <2>1, <2>2, StartAIOStep
    <2>4. Placed'
        BY <1>1, <2>1, <2>3, PlaceTypedNext
    <2>5. WriteInv'
        BY <1>1, <2>1, <2>3 DEF WriteInv
    <2>6. genCanceled' \in BOOLEAN
        BY <2>3
    <2>7. at' \in 0..(P + 1)
        BY <1>1, <2>1 DEF TypeOK
    <2>8. TypeOK'
        BY <1>1, <1>14, <2>1, <2>3, <2>4, <2>6, <2>7
            DEF startRead, TypeOK, bufVars, endVars
    <2>9. QED
        BY <2>3, <2>5, <2>8 DEF PlaceInv
<1>15. ASSUME NEW ok \in BOOLEAN, consumeRead(ok) PROVE PlaceInv'
    <2> DEFINE r == Counted(disk[at], res[at])
    <2>1. /\ at \in Disks /\ want[at] > 0 /\ res[at] > 0 /\ n' = n /\ plen' = plen
          /\ pc' = pc /\ pc = "pass" /\ at' = at + 1
        BY <1>15 DEF consumeRead, Done, bufVars
    <2>2. FileOK(n, at, disk[at]) /\ ReadOK(disk[at], want[at], res[at])
        BY <1>1, <2>1 DEF FileInv
    <2>3. want[at] \in 0..BufSize /\ res[at] \in {InProgress, -1} \cup (0..BufSize)
        BY <1>1, <2>1 DEF TypeOK
    <2>4. FileOK(n, at, r)
        BY <1>1, <2>1, <2>2, <2>3, CountedPlace
    <2> HIDE DEF r
    <2>5. /\ disk' \in [Disks -> SliceDisk] /\ want' \in [1..P -> 0..BufSize]
          /\ res' \in [1..P -> {InProgress, -1} \cup (0..BufSize)]
          /\ want'[P] = want[P] /\ res'[P] = res[P] /\ FileInv'
          /\ hashes' \subseteq Disks \X Nat \X Nat /\ genCanceled' \in BOOLEAN
        <3>1. CASE genCanceled
            <4>1. /\ disk' = [disk EXCEPT ![at] = r] /\ want' = [want EXCEPT ![at] = 0]
                  /\ UNCHANGED <<res, hashes, genCanceled>>
                BY <1>15, <3>1 DEF consumeRead, r, Counted
            <4>2. res' = [res EXCEPT ![at] = res[at]]
                BY <1>1, <4>1 DEF TypeOK
            <4>3. ReadOK(r, 0, res[at]) /\ 0 \in 0..BufSize
                BY DEF ReadOK
            <4>4. QED
                BY <1>1, <2>1, <2>3, <2>4, <4>1, <4>2, <4>3, MoveDisk DEF TypeOK
        <3>2. CASE ~genCanceled
            <4>1. startAIO(at, r, ok)
                BY <1>15, <3>2 DEF consumeRead, r, Counted
            <4>2. /\ disk' \in [Disks -> SliceDisk] /\ want' \in [1..P -> 0..BufSize]
                  /\ res' \in [1..P -> {InProgress, -1} \cup (0..BufSize)]
                  /\ want'[P] = want[P] /\ res'[P] = res[P] /\ FileInv'
                  /\ hashes' \subseteq Disks \X Nat \X Nat /\ genCanceled' = ~ok
                BY <1>1, <2>1, <2>4, <4>1, StartAIOStep
            <4>3. genCanceled' \in BOOLEAN
                BY <4>2
            <4>4. QED
                BY <4>2, <4>3
        <3>3. QED
            BY <3>1, <3>2
    <2>6. Placed'
        BY <1>1, <2>1, <2>5, PlaceTypedNext
    <2>7. WriteInv'
        BY <1>1, <2>1, <2>5 DEF WriteInv
    <2>8. at' \in 0..(P + 1)
        BY <1>1, <2>1 DEF TypeOK
    <2>9. TypeOK'
        BY <1>1, <1>15, <2>1, <2>5, <2>6, <2>8 DEF consumeRead, TypeOK, bufVars, endVars
    <2>10. QED
        BY <2>5, <2>7, <2>9 DEF PlaceInv
<1>16. CASE computeParity
    <2>1. /\ n' = n /\ plen \in 0..BufSize /\ want' = want /\ res' = res /\ pc = "parity"
          /\ pc' \in {"exit", "round"}
        BY <1>1, <1>16 DEF computeParity, TypeOK, aioVars
    <2>2. /\ LongestBuffer \in 0..BufSize /\ disk \in [Disks -> SliceDisk]
          /\ buf \in [Disks -> [Slots -> Byte \cup {Zero}]] /\ pbuf \in [Slots -> SUBSET Byte]
        BY <1>1, Longest DEF TypeOK
    <2> DEFINE L == LongestBuffer
               emptied == [d \in Disks |-> Emptied(disk[d])]
               filled2 == [k \in Slots |-> IF k <= L THEN {buf[d][k] : d \in Disks} \ {Zero}
                                           ELSE pbuf[k]]
               cleared == [d \in Disks |-> [k \in Slots |-> IF k <= L THEN Zero
                                                           ELSE buf[d][k]]]
    <2>3. /\ genCanceled' \in BOOLEAN
          /\ \/ UNCHANGED <<disk, buf, pbuf, plen>>
             \/ disk' = emptied /\ buf' = cleared /\ pbuf' = filled2 /\ plen' = L
        <3>1. genCanceled \in BOOLEAN
            BY <1>1 DEF TypeOK
        <3>2. QED
            BY <1>16, <3>1 DEF computeParity, bufVars, Emptied
    <2>4. emptied \in [Disks -> SliceDisk] /\ cleared \in [Disks -> [Slots -> Byte \cup {Zero}]]
        <3>1. \A d \in Disks : Emptied(disk[d]) \in SliceDisk
            BY <1>1, EmptiedPlace DEF FileInv
        <3>2. QED
            BY <2>2, <3>1
    <2>5. filled2 \in [Slots -> SUBSET Byte]
        <3>1. \A k \in Slots : {buf[d][k] : d \in Disks} \ {Zero} \subseteq Byte
            BY <2>2
        <3>2. QED
            BY <2>2, <3>1
    <2>6. FileInv'
        <3>1. CASE UNCHANGED <<disk, buf, pbuf, plen>>
            BY <1>1, <2>1, <3>1, SamePlace
        <3>2. CASE disk' = emptied
            <4>1. ASSUME NEW d \in Disks
                  PROVE  FileOK(n, d, disk'[d]) /\ ReadOK(disk'[d], want'[d], res'[d])
                <5>1. FileOK(n, d, disk[d]) /\ disk'[d] = Emptied(disk[d])
                    BY <1>1, <3>2 DEF FileInv
                <5>2. FileOK(n, d, disk'[d])
                    BY <1>1, <5>1, EmptiedPlace
                <5>3. want'[d] = 0
                    BY <1>1, <2>1 DEF WriteInv, Idle
                <5>4. QED
                    BY <5>2, <5>3 DEF ReadOK
            <4>2. QED
                BY <2>1, <4>1 DEF FileInv
        <3>3. QED
            BY <2>3, <3>1, <3>2
    <2>7. Placed'
        BY <1>1, <2>1, <2>6, PlaceTypedNext
    <2>8. WriteInv'
        BY <1>1, <2>1 DEF WriteInv, Idle
    <2> HIDE DEF emptied, cleared, filled2
    <2>9. /\ disk' \in [Disks -> SliceDisk] /\ buf' \in [Disks -> [Slots -> Byte \cup {Zero}]]
          /\ pbuf' \in [Slots -> SUBSET Byte] /\ plen' \in 0..BufSize
        BY <2>1, <2>2, <2>3, <2>4, <2>5
    <2>10. TypeOK'
        BY <1>1, <1>16, <2>1, <2>3, <2>7, <2>9 DEF computeParity, TypeOK, aioVars, endVars
    <2>11. QED
        BY <2>6, <2>8, <2>10 DEF PlaceInv
<1>17. ASSUME NEW changed \in BOOLEAN, exitSliceFile(changed) PROVE PlaceInv'
    <2>1. /\ UNCHANGED <<n, at, diskVars, bufVars, aioVars, out, genCanceled, operationCanceled>>
          /\ pc' = "next" /\ pc = "exit"
          /\ \/ UNCHANGED skipped
                /\ saved' = [saved EXCEPT ![n] = [parity |-> out, hashes |-> hashes]]
             \/ skipped' = skipped \cup {n} /\ UNCHANGED saved
        BY <1>17 DEF exitSliceFile
    <2>2. FileInv' /\ Placed'
        BY <1>2, <2>1 DEF diskVars, aioVars
    <2>3. WriteInv'
        BY <1>1, <2>1 DEF WriteInv, aioVars, bufVars
    <2>4. skipped' \in SUBSET (1..Len(Plan))
        <3>1. skipped \in SUBSET (1..Len(Plan))
            BY <1>1 DEF TypeOK
        <3>2. QED
            BY <1>1, <2>1, <3>1
    <2>5. saved' \in [1..Len(Plan) -> [parity : Seq(SUBSET Byte), hashes : SUBSET (Disks \X Nat \X Nat)]]
        <3>1. [parity |-> out, hashes |-> hashes]
              \in [parity : Seq(SUBSET Byte), hashes : SUBSET (Disks \X Nat \X Nat)]
            BY <1>1 DEF TypeOK
        <3>2. QED
            BY <1>1, <2>1, <3>1 DEF TypeOK
    <2>6. TypeOK'
        BY <1>1, <2>1, <2>2, <2>4, <2>5 DEF TypeOK, diskVars, bufVars, aioVars
    <2>7. QED
        BY <2>2, <2>3, <2>6 DEF PlaceInv
<1>18. CASE slices2disk
    <2>1. CASE n = Len(Plan) \/ operationCanceled
        <3>1. /\ UNCHANGED <<n, at, diskVars, bufVars, aioVars, out, genCanceled,
                             operationCanceled, endVars>>
              /\ pc' = "done" /\ pc = "next"
            BY <1>18, <2>1 DEF slices2disk, diskVars, bufVars, aioVars
        <3>2. FileInv' /\ Placed'
            BY <1>2, <3>1 DEF diskVars, aioVars
        <3>3. WriteInv'
            BY <1>1, <3>1 DEF WriteInv, aioVars, bufVars
        <3>4. TypeOK'
            BY <1>1, <3>1, <3>2 DEF TypeOK, diskVars, bufVars, aioVars, endVars
        <3>5. QED
            BY <3>2, <3>3, <3>4 DEF PlaceInv
    <2>2. CASE ~(n = Len(Plan) \/ operationCanceled)
        <3>1. /\ pc' = "round" /\ n' = n + 1 /\ disk' = [d \in Disks |-> Fresh] /\ hashes' = {}
              /\ plen' = 0 /\ want' = Idle /\ out' = <<>> /\ genCanceled' = FALSE
              /\ UNCHANGED <<at, buf, pbuf, res, orphan, operationCanceled, endVars>>
            BY <1>18, <2>2 DEF slices2disk
        <3>2. n' \in 1..Len(Plan) /\ plen' \in 0..BufSize
            BY <1>1, <2>2, <3>1, PlanAssumption
        <3>3. disk' \in [Disks -> SliceDisk] /\ want' \in [1..P -> 0..BufSize]
            BY <1>1, <3>1, FreshPlace DEF Idle
        <3>4. ASSUME NEW d \in Disks
              PROVE  FileOK(n', d, disk'[d]) /\ ReadOK(disk'[d], want'[d], res'[d])
            <4>1. disk'[d] = Fresh /\ want'[d] = 0
                BY <3>1 DEF Idle
            <4>2. QED
                BY <3>2, <4>1, FreshPlace DEF ReadOK
        <3>5. FileInv'
            BY <3>4 DEF FileInv
        <3>6. Placed'
            BY <3>2, <3>5, PlaceTypedNext
        <3>7. WriteInv'
            BY <3>1 DEF WriteInv, Idle
        <3>8. out' \in Seq(SUBSET Byte) /\ hashes' \subseteq Disks \X Nat \X Nat
            BY <3>1
        <3>9. pc' \in {"round", "pass", "suspend", "parity", "exit", "next", "done"}
              /\ genCanceled' \in BOOLEAN
            BY <3>1
        <3>10. TypeOK'
            BY <1>1, <3>1, <3>2, <3>3, <3>6, <3>8, <3>9 DEF TypeOK, endVars
        <3>11. QED
            BY <3>5, <3>7, <3>10 DEF PlaceInv
    <2>3. QED
        BY <2>1, <2>2
<1>19. ASSUME NEW d \in Disks, NEW k \in Slots, readDone(d, k) PROVE PlaceInv'
    <2>1. /\ k \in 1..want[d] /\ buf' = [buf EXCEPT ![d] = filled(d, k)]
          /\ res' = [res EXCEPT ![d] = k]
          /\ UNCHANGED <<pc, n, at, diskVars, pbuf, plen, want, orphan, out, genCanceled,
                         operationCanceled, endVars>>
        BY <1>19 DEF readDone
    <2>2. /\ want[d] \in 0..BufSize /\ res' \in [1..P -> {InProgress, -1} \cup (0..BufSize)]
          /\ res'[d] = k /\ \A i \in (1..P) \ {d} : res'[i] = res[i]
        BY <1>1, <2>1 DEF TypeOK, Slots
    <2>3. FileInv'
        BY <1>1, <2>1, <2>2, SamePlace DEF diskVars
    <2>4. Placed'
        BY <1>1, <2>1, <2>3, PlaceTypedNext
    <2>5. WriteInv'
        BY <1>1, <2>1, <2>2 DEF WriteInv
    <2>6. buf' \in [Disks -> [Slots -> Byte \cup {Zero}]]
        <3>1. ASSUME NEW j \in Slots PROVE filled(d, k)[j] \in Byte \cup {Zero}
            <4>1. CASE j \in (disk[d].len + 1)..(disk[d].len + k)
                <5>1. FileOK(n, d, disk[d]) /\ ReadOK(disk[d], want[d], res[d])
                    BY <1>1 DEF FileInv
                <5>2. disk[d].got + disk[d].left <= Total(n, d) /\ Total(n, d) \in Nat
                    BY <1>1, <5>1, FileBounds
                <5>3. /\ disk[d].got \in Nat /\ disk[d].left \in Nat /\ disk[d].len \in Nat
                      /\ k \in 1..disk[d].left
                    <6>1. disk[d] \in SliceDisk
                        BY <5>1 DEF FileOK
                    <6>2. /\ disk[d].got \in Nat /\ disk[d].left \in Nat
                          /\ disk[d].len \in 0..BufSize
                        BY <6>1, Fields
                    <6>3. QED
                        BY <2>1, <2>2, <5>1, <6>2 DEF ReadOK
                <5>4. disk[d].got + j - disk[d].len \in 1..Total(n, d)
                    BY <4>1, <5>2, <5>3
                <5>5. <<n, d, disk[d].got + j - disk[d].len>> \in Byte
                    BY <1>1, <5>2, <5>4 DEF Byte
                <5>6. QED
                    BY <4>1, <5>5 DEF filled
            <4>2. CASE j \notin (disk[d].len + 1)..(disk[d].len + k)
                BY <1>1, <4>2 DEF filled, TypeOK
            <4>3. QED
                BY <4>1, <4>2
        <3>2. filled(d, k) \in [Slots -> Byte \cup {Zero}]
            BY <3>1 DEF filled
        <3>3. QED
            BY <1>1, <2>1, <3>2 DEF TypeOK
    <2>7. TypeOK'
        BY <1>1, <2>1, <2>2, <2>4, <2>6 DEF TypeOK, diskVars, endVars
    <2>8. QED
        BY <2>3, <2>5, <2>7 DEF PlaceInv
<1>20. CASE writeDone
    <2>1. /\ want[P] > 0 /\ res' = [res EXCEPT ![P] = plen]
          /\ out' = out \o [k \in 1..plen |-> pbuf[k]]
          /\ UNCHANGED <<pc, n, at, diskVars, bufVars, want, orphan, genCanceled,
                         operationCanceled, endVars>>
        BY <1>20 DEF writeDone, Busy
    <2>2. /\ plen \in 0..BufSize /\ res'[P] = plen
          /\ res' \in [1..P -> {InProgress, -1} \cup (0..BufSize)]
          /\ \A d \in Disks : res'[d] = res[d]
        BY <1>1, <2>1 DEF TypeOK
    <2>3. FileInv'
        BY <1>1, <2>1, <2>2, SamePlace DEF diskVars
    <2>4. Placed'
        BY <1>1, <2>1, <2>3, PlaceTypedNext
    <2>5. WriteInv'
        BY <1>1, <2>1, <2>2 DEF WriteInv, bufVars
    <2>6. out' \in Seq(SUBSET Byte)
        <3>1. \A k \in 1..plen : pbuf[k] \in SUBSET Byte
            BY <1>1, <2>2 DEF TypeOK, Slots
        <3>2. [k \in 1..plen |-> pbuf[k]] \in Seq(SUBSET Byte)
            BY <2>2, <3>1
        <3>3. QED
            BY <1>1, <2>1, <3>2 DEF TypeOK
    <2>7. TypeOK'
        BY <1>1, <2>1, <2>2, <2>4, <2>6 DEF TypeOK, diskVars, bufVars, endVars
    <2>8. QED
        BY <2>3, <2>5, <2>7 DEF PlaceInv
<1>21. ASSUME NEW i \in 1..P, NEW k \in {-1, 0}, requestFails(i, k) PROVE PlaceInv'
    <2>1. /\ res' = [res EXCEPT ![i] = k]
          /\ UNCHANGED <<pc, n, at, diskVars, bufVars, want, orphan, out, genCanceled,
                         operationCanceled, endVars>>
        BY <1>21 DEF requestFails
    <2>2. /\ res' \in [1..P -> {InProgress, -1} \cup (0..BufSize)]
          /\ \A j \in 1..P : res'[j] \in {res[j], -1, 0}
        BY <1>1, <2>1 DEF TypeOK
    <2>3. FileInv'
        BY <1>1, <2>1, <2>2, SamePlace DEF diskVars, TypeOK
    <2>4. Placed'
        BY <1>1, <2>1, <2>3, PlaceTypedNext
    <2>5. WriteInv'
        BY <1>1, <2>1, <2>2 DEF WriteInv, bufVars
    <2>6. TypeOK'
        BY <1>1, <2>1, <2>2, <2>4 DEF TypeOK, diskVars, bufVars, endVars
    <2>7. QED
        BY <2>3, <2>5, <2>6 DEF PlaceInv
<1>22. CASE UNCHANGED vars
    <2>1. FileInv' /\ Placed'
        BY <1>2, <1>22 DEF vars
    <2>2. WriteInv'
        BY <1>1, <1>22 DEF WriteInv, vars
    <2>3. TypeOK'
        BY <1>1, <1>22, <2>1 DEF TypeOK, vars
    <2>4. QED
        BY <2>1, <2>2, <2>3 DEF PlaceInv
<1>23. QED
    BY <1>3, <1>4, <1>5, <1>6, <1>7, <1>8, <1>9, <1>10, <1>11, <1>12, <1>13, <1>14, <1>15,
       <1>16, <1>17, <1>18, <1>19, <1>20, <1>21, <1>22
       DEF Next, Kernel, Thread, Faults

\* Every variable keeps its type: no read goes beyond the file it reads or the buffer it
\* fills, whatever the kernel answers.
THEOREM TypeCorrect == Spec => []TypeOK
<1>1. Init => PlaceInv
    BY PlaceInit
<1>2. PlaceInv /\ [Next]_vars => PlaceInv'
    BY PlaceStep
<1>3. PlaceInv => TypeOK
    BY DEF PlaceInv
<1>4. QED
    BY <1>1, <1>2, <1>3, PTL DEF Spec

----------------------------------------------------------------------------
(* What the hashes were computed over.                                     *)

\* The bytes hashed are those of the current file that were read.
HashOK(m, d, r) ==
    IF r.seq = 0 THEN r.hashed = 0
    ELSE ~r.fin => r.hashed + r.left = Plan[m][d][r.seq]

\* A stored hash is of all bytes of a file.
Whole(m, h) == /\ h[2] \in 1..Len(Plan[m][h[1]]) /\ h[3] = Plan[m][h[1]][h[2]] /\ h[3] > 0

HashInv ==
    /\ \A d \in Disks : HashOK(n, d, disk[d])
    /\ \A h \in hashes : Whole(n, h)
    /\ HashOfEveryFile

\* startAIO stores the hash of the file that ends, and starts the next one.
LEMMA StartAIOHash ==
    ASSUME TypeOK, NEW d \in Disks, NEW r, NEW ok \in BOOLEAN, FileOK(n, d, r), HashOK(n, d, r),
           startAIO(d, r, ok), n' = n,
           \A e \in Disks : HashOK(n, e, disk[e]), \A h \in hashes : Whole(n, h)
    PROVE  /\ \A e \in Disks : HashOK(n, e, disk'[e])
           /\ \A h \in hashes' : Whole(n, h)
<1> DEFINE q == IF NeedsFile(r) THEN openNextFile(d, r, ok) ELSE r
<1>1. /\ n \in 1..Len(Plan) /\ disk \in [Disks -> SliceDisk] /\ r \in SliceDisk
      /\ r.seq \in 0..Len(Plan[n][d]) /\ r.hashed \in Nat /\ r.left \in Nat
      /\ Len(Plan[n][d]) \in Nat
    BY Lengths DEF TypeOK, FileOK, SliceDisk
<1>2. HashOK(n, d, q)
    <2>1. CASE ~NeedsFile(r)
        BY <2>1
    <2>2. CASE NeedsFile(r) /\ HasFile(d, r)
        <3>1. q.seq = r.seq + 1 /\ q.left = Plan[n][d][r.seq + 1] /\ q.hashed = 0
            BY <1>1, <2>2, NextFile
        <3>2. r.seq + 1 \in 1..Len(Plan[n][d]) /\ r.seq + 1 # 0
            BY <1>1, <2>2 DEF HasFile, Sizes
        <3>3. q.left \in Nat
            BY <1>1, <3>1, <3>2, Lengths
        <3>4. QED
            BY <3>1, <3>2, <3>3 DEF HashOK
    <2>3. CASE NeedsFile(r) /\ ~HasFile(d, r)
        <3>1. q = [r EXCEPT !.open = FALSE, !.fin = TRUE]
            BY <2>3 DEF openNextFile
        <3>2. q.seq = r.seq /\ q.fin = TRUE /\ q.hashed = r.hashed
            BY <1>1, <3>1 DEF SliceDisk
        <3>3. QED
            BY <3>2 DEF HashOK
    <2>4. QED
        BY <2>1, <2>2, <2>3
<1>3. \A h \in storeHash(d, r) : NeedsFile(r) => Whole(n, h)
    <2> SUFFICES ASSUME NeedsFile(r), NEW h \in storeHash(d, r) PROVE Whole(n, h)
        OBVIOUS
    <2>1. h = <<d, r.seq, r.hashed>> /\ r.hashed > 0
        BY DEF storeHash
    <2>2. ~r.fin /\ r.left = 0 /\ r.seq # 0
        BY <2>1 DEF NeedsFile, HashOK
    <2>3. r.hashed = Plan[n][d][r.seq]
        BY <1>1, <2>2 DEF HashOK
    <2>4. QED
        BY <1>1, <2>1, <2>2, <2>3 DEF Whole
<1>4. disk' = [disk EXCEPT ![d] = q]
    BY DEF startAIO
<1>5. hashes' = hashes \/ (NeedsFile(r) /\ hashes' = hashes \cup storeHash(d, r))
    BY DEF startAIO
<1> HIDE DEF q
<1>6. \A e \in Disks : HashOK(n, e, disk'[e])
    BY <1>1, <1>2, <1>4
<1>7. QED
    BY <1>3, <1>5, <1>6

\* The bytes a read brought are hashed.
LEMMA CountedHash ==
    ASSUME NEW m \in 1..Len(Plan), NEW d \in Disks, NEW r, FileOK(m, d, r), HashOK(m, d, r),
           NEW w \in 0..BufSize, NEW k \in {InProgress, -1} \cup (0..BufSize),
           ReadOK(r, w, k), w > 0, k > 0
    PROVE  HashOK(m, d, Counted(r, k))
<1>1. /\ Counted(r, k).left = r.left - k /\ Counted(r, k).hashed = r.hashed + k
      /\ Counted(r, k).seq = r.seq /\ Counted(r, k).fin = r.fin
    BY CountedPlace
<1>2. r.left \in Nat /\ r.got \in Nat /\ r.hashed \in Nat /\ r.got + r.left = Start(m, d, r.seq)
    BY Fields DEF FileOK
<1>3. r.seq # 0
    <2> SUFFICES ASSUME r.seq = 0 PROVE FALSE
        OBVIOUS
    <2>1. 0 \in 0..Len(Plan[m][d])
        BY Lengths
    <2>2. Start(m, d, 0) = 0
        BY <2>1, Starts
    <2>3. r.left > 0
        BY <1>2 DEF ReadOK
    <2>4. QED
        BY <1>2, <2>2, <2>3
<1>4. k \in Nat
    BY DEF InProgress
<1>5. (r.hashed + k) + (r.left - k) = r.hashed + r.left
    BY <1>2, <1>4
<1>6. QED
    BY <1>1, <1>3, <1>5 DEF HashOK

LEMMA HashInit == Init => HashInv
<1> SUFFICES ASSUME Init PROVE HashInv
    OBVIOUS
<1>1. ASSUME NEW d \in Disks PROVE HashOK(n, d, disk[d])
    BY DEF Init, HashOK, Fresh
<1>2. Saved = {}
    BY DEF Init, Saved
<1>3. QED
    BY <1>1, <1>2 DEF Init, HashInv, HashOfEveryFile

\* What is saved already stays as it is.
LEMMA SavedHashesStay ==
    ASSUME HashOfEveryFile, saved' = saved PROVE HashOfEveryFile'
BY DEF HashOfEveryFile, Saved, Hashed

LEMMA HashStep == PlaceInv /\ HashInv /\ [Next]_vars => HashInv'
<1> SUFFICES ASSUME PlaceInv, HashInv, [Next]_vars PROVE HashInv'
    OBVIOUS
<1>1. TypeOK /\ FileInv /\ n \in 1..Len(Plan) /\ disk \in [Disks -> SliceDisk]
    BY DEF PlaceInv, TypeOK
<1>2. ASSUME UNCHANGED <<n, disk, hashes, saved>> PROVE HashInv'
    <2>1. HashOfEveryFile'
        BY <1>2, SavedHashesStay DEF HashInv
    <2>2. QED
        BY <1>2, <2>1 DEF HashInv, HashOK, Whole
<1>3. ASSUME NEW ok \in BOOLEAN, startRead(ok) PROVE HashInv'
    <2>1. at \in Disks /\ startAIO(at, disk[at], ok) /\ n' = n /\ saved' = saved
        BY <1>3 DEF startRead, endVars
    <2>2. FileOK(n, at, disk[at]) /\ HashOK(n, at, disk[at])
        BY <1>1, <2>1 DEF FileInv, HashInv
    <2>3. (\A e \in Disks : HashOK(n, e, disk'[e])) /\ \A h \in hashes' : Whole(n, h)
        BY <1>1, <2>1, <2>2, StartAIOHash DEF HashInv
    <2>4. HashOfEveryFile'
        BY <2>1, SavedHashesStay DEF HashInv
    <2>5. QED
        BY <2>1, <2>3, <2>4 DEF HashInv
<1>4. ASSUME NEW ok \in BOOLEAN, consumeRead(ok) PROVE HashInv'
    <2> DEFINE r == Counted(disk[at], res[at])
    <2>1. /\ at \in Disks /\ want[at] > 0 /\ res[at] > 0 /\ n' = n /\ saved' = saved
        BY <1>4 DEF consumeRead, Done, endVars
    <2>2. FileOK(n, at, disk[at]) /\ ReadOK(disk[at], want[at], res[at])
        BY <1>1, <2>1 DEF FileInv
    <2>3. want[at] \in 0..BufSize /\ res[at] \in {InProgress, -1} \cup (0..BufSize)
        BY <1>1, <2>1, PBasics DEF TypeOK
    <2>4. /\ FileOK(n, at, r) /\ r.left = disk[at].left - res[at]
          /\ r.hashed = disk[at].hashed + res[at] /\ r.seq = disk[at].seq
          /\ r.fin = disk[at].fin
        BY <1>1, <2>1, <2>2, <2>3, CountedPlace
    <2> HIDE DEF r
    <2>5. HashOK(n, at, r)
        <3>1. HashOK(n, at, disk[at])
            BY <2>1 DEF HashInv
        <3>2. QED
            BY <1>1, <2>1, <2>2, <2>3, <3>1, CountedHash DEF r
    <2>6. (\A e \in Disks : HashOK(n, e, disk'[e])) /\ \A h \in hashes' : Whole(n, h)
        <3>1. CASE genCanceled
            <4>1. disk' = [disk EXCEPT ![at] = r] /\ hashes' = hashes
                BY <1>4, <3>1 DEF consumeRead, r, Counted
            <4>2. QED
                BY <1>1, <2>5, <4>1 DEF HashInv
        <3>2. CASE ~genCanceled
            <4>1. startAIO(at, r, ok)
                BY <1>4, <3>2 DEF consumeRead, r, Counted
            <4>2. QED
                BY <1>1, <2>1, <2>4, <2>5, <4>1, StartAIOHash DEF HashInv
        <3>3. QED
            BY <3>1, <3>2
    <2>7. HashOfEveryFile'
        BY <2>1, SavedHashesStay DEF HashInv
    <2>8. QED
        BY <2>1, <2>6, <2>7 DEF HashInv
<1>5. CASE computeParity
    <2>1. /\ n' = n /\ hashes' = hashes /\ saved' = saved
          /\ disk' = disk \/ disk' = [d \in Disks |-> Emptied(disk[d])]
        BY <1>5 DEF computeParity, endVars, Emptied
    <2>2. ASSUME NEW d \in Disks PROVE HashOK(n, d, disk'[d])
        <3>1. FileOK(n, d, disk[d]) /\ HashOK(n, d, disk[d])
            BY <1>1 DEF FileInv, HashInv
        <3>2. HashOK(n, d, Emptied(disk[d]))
            BY <1>1, <3>1, EmptiedPlace DEF HashOK
        <3>3. QED
            BY <2>1, <3>1, <3>2
    <2>3. HashOfEveryFile'
        BY <2>1, SavedHashesStay DEF HashInv
    <2>4. QED
        BY <2>1, <2>2, <2>3 DEF HashInv
<1>6. ASSUME NEW changed \in BOOLEAN, exitSliceFile(changed) PROVE HashInv'
    <2>1. UNCHANGED <<n, disk, hashes>>
        BY <1>6 DEF exitSliceFile, diskVars
    <2>2. CASE saved' = saved
        BY <1>2, <2>1, <2>2
    <2>3. CASE saved' # saved
        <3>1. /\ saved' = [saved EXCEPT ![n] = [parity |-> out, hashes |-> hashes]]
              /\ \A f \in Hashed(n) : \E h \in hashes : h[1] = f[1] /\ h[2] = f[2]
            BY <1>6, <2>3 DEF exitSliceFile
        <3>2. hashes \subseteq Disks \X Nat \X Nat /\ saved \in [1..Len(Plan) -> {saved[m] : m \in 1..Len(Plan)}]
            BY <1>1 DEF TypeOK
        <3>3. hashes = {<<f[1], f[2], Plan[n][f[1]][f[2]]>> : f \in Hashed(n)}
            <4>1. ASSUME NEW h \in hashes
                  PROVE  \E f \in Hashed(n) : h = <<f[1], f[2], Plan[n][f[1]][f[2]]>>
                <5>1. Whole(n, h) /\ h = <<h[1], h[2], h[3]>> /\ h[1] \in Disks
                    BY <3>2 DEF HashInv
                <5>2. h[2] \in DOMAIN Plan[n][h[1]] /\ Plan[n][h[1]][h[2]] > 0
                    BY <1>1, <5>1, Lengths DEF Whole
                <5>3. <<h[1], h[2]>> \in Hashed(n)
                    BY <5>1, <5>2 DEF Hashed
                <5>4. QED
                    BY <5>1, <5>3 DEF Whole
            <4>2. ASSUME NEW f \in Hashed(n) PROVE <<f[1], f[2], Plan[n][f[1]][f[2]]>> \in hashes
                <5>1. PICK h \in hashes : h[1] = f[1] /\ h[2] = f[2]
                    BY <3>1
                <5>2. Whole(n, h) /\ h = <<h[1], h[2], h[3]>>
                    BY <3>2 DEF HashInv
                <5>3. QED
                    BY <5>1, <5>2 DEF Whole
            <4>3. QED
                BY <4>1, <4>2
        <3>4. ASSUME NEW m \in Saved'
              PROVE  saved'[m].hashes = {<<f[1], f[2], Plan[m][f[1]][f[2]]>> : f \in Hashed(m)}
            <4>1. CASE m = n
                BY <1>1, <3>1, <3>2, <3>3, <4>1
            <4>2. CASE m # n
                <5>1. saved'[m] = saved[m] /\ m \in Saved
                    BY <3>1, <3>2, <4>2 DEF Saved
                <5>2. QED
                    BY <5>1 DEF HashInv, HashOfEveryFile
            <4>3. QED
                BY <4>1, <4>2
        <3>5. HashOfEveryFile'
            BY <3>4 DEF HashOfEveryFile, Hashed
        <3>6. QED
            BY <2>1, <3>5 DEF HashInv, HashOK, Whole
    <2>4. QED
        BY <2>2, <2>3
<1>7. CASE slices2disk
    <2>1. CASE n = Len(Plan) \/ operationCanceled
        BY <1>2, <1>7, <2>1 DEF slices2disk, endVars
    <2>2. CASE ~(n = Len(Plan) \/ operationCanceled)
        <3>1. disk' = [d \in Disks |-> Fresh] /\ hashes' = {} /\ saved' = saved
            BY <1>7, <2>2 DEF slices2disk, endVars
        <3>2. \A d \in Disks : HashOK(n', d, disk'[d])
            BY <3>1 DEF HashOK, Fresh
        <3>3. HashOfEveryFile'
            BY <3>1, SavedHashesStay DEF HashInv
        <3>4. QED
            BY <3>1, <3>2, <3>3 DEF HashInv
    <2>3. QED
        BY <2>1, <2>2
<1>8. CASE createSliceFile \/ skipDisk \/ rejectRead \/ startWrite \/ finishWrite \/ rejectWrite
           \/ endPass \/ suspend \/ writeDone \/ orphanDone \/ intHandler
    BY <1>2, <1>8 DEF createSliceFile, skipDisk, rejectRead, startWrite, finishWrite, rejectWrite,
                      endPass, suspend, writeDone, orphanDone, intHandler, diskVars, endVars
<1>9. CASE \/ \E d \in Disks : \E k \in Slots : readDone(d, k)
           \/ \E K \in SUBSET (1..P) : cancelAIO(K)
           \/ \E i \in 1..P, k \in {-1, 0} : requestFails(i, k)
    BY <1>2, <1>9 DEF readDone, cancelAIO, requestFails, diskVars, endVars
<1>10. CASE UNCHANGED vars
    BY <1>2, <1>10 DEF vars
<1>11. QED
    BY <1>3, <1>4, <1>5, <1>6, <1>7, <1>8, <1>9, <1>10 DEF Next, Kernel, Thread, Faults

\* The hash a saved slice records for a file was computed over all of its bytes and no
\* others, once (startBlockHash asyncio.cpp:187, storeHash backup.cpp:225).
THEOREM HashOfEveryFileHolds == Spec => []HashOfEveryFile
<1>1. Init => PlaceInv /\ HashInv
    BY PlaceInit, HashInit
<1>2. PlaceInv /\ HashInv /\ [Next]_vars => (PlaceInv /\ HashInv)'
    BY PlaceStep, HashStep
<1>3. HashInv => HashOfEveryFile
    BY DEF HashInv
<1>4. QED
    BY <1>1, <1>2, <1>3, PTL DEF Spec

----------------------------------------------------------------------------
(* The disks stay in step.                                                 *)

Lesser(a, b) == IF a < b THEN a ELSE b

\* Bytes of the parity that the rounds so far stand for: those in the work file, and those
\* in the buffer that were not written yet
Written  == want[P] > 0 /\ res[P] = plen
Combined == Len(out) + IF Written THEN 0 ELSE plen

\* In a pass every disk the loop has dealt with has a request or needs none.
TurnInv ==
    pc = "pass" /\ ~genCanceled =>
        /\ at # 0
        /\ \A d \in Disks : d < at => want[d] > 0 \/ FullAt(n, d, disk[d])
        /\ at = P + 1 => want[P] > 0 \/ plen = 0

\* The buffer of a disk starts c bytes into its files, or at their end.
LevelOK(m, d, r, c) == r.got - r.len = Lesser(c, Total(m, d))

\* All disks have taken part in the same rounds; when the parity is computed every buffer
\* has all it can have and the parity of the round before is written.
LevelInv ==
    ~genCanceled =>
        /\ \A d \in Disks : LevelOK(n, d, disk[d], Combined)
        /\ pc = "parity" => plen = 0 /\ \A d \in Disks : FullAt(n, d, disk[d])

LEMMA TurnStep == PlaceInv /\ TurnInv /\ [Next]_vars => TurnInv'
<1> SUFFICES ASSUME PlaceInv, TurnInv, [Next]_vars, pc' = "pass", ~genCanceled'
             PROVE  /\ at' # 0
                    /\ \A d \in Disks : d < at' => want'[d] > 0 \/ FullAt(n', d, disk'[d])
                    /\ at' = P + 1 => want'[P] > 0 \/ plen' = 0
    BY DEF TurnInv, FullAt, Total
<1> USE PBasics
<1>1. /\ TypeOK /\ FileInv /\ WriteInv /\ n \in 1..Len(Plan) /\ at \in 0..(P + 1)
      /\ want \in [1..P -> 0..BufSize] /\ plen \in 0..BufSize /\ P = NDisks + 1
      /\ \A d \in Disks : d \in Nat /\ d < P
    <2>1. P = NDisks + 1 /\ \A d \in Disks : d \in Nat /\ d < P
        BY DEF P, Disks
    <2>2. QED
        BY <2>1 DEF PlaceInv, TypeOK
<1>2. CASE createSliceFile \/ suspend
    <2>1. at' = 1 /\ \A d \in Disks : ~(d < 1)
        BY <1>2 DEF createSliceFile, suspend, Disks
    <2>2. at' # P + 1
        BY <1>1, <2>1
    <2>3. QED
        BY <2>1, <2>2
<1>3. CASE skipDisk
    <2>1. /\ UNCHANGED <<n, disk, want, plen, genCanceled>> /\ pc = "pass" /\ at' = at + 1
          /\ at \in 1..P /\ ~genCanceled
          /\ \/ Busy(at) \/ (at \in Disks /\ disk[at].fin) \/ (at = P /\ plen = 0)
        BY <1>3 DEF skipDisk, diskVars, bufVars, aioVars
    <2>2. ASSUME at \in Disks PROVE want[at] > 0 \/ FullAt(n, at, disk[at])
        <3>1. CASE Busy(at)
            BY <3>1 DEF Busy
        <3>2. CASE disk[at].fin
            <4>1. FileOK(n, at, disk[at])
                BY <1>1, <2>2 DEF FileInv
            <4>2. QED
                BY <1>1, <2>2, <3>2, <4>1, FileBounds DEF FullAt
        <3>3. QED
            BY <1>1, <2>1, <2>2, <3>1, <3>2
    <2>3. at = P => want[P] > 0 \/ plen = 0
        BY <1>1, <2>1 DEF Busy
    <2>4. ASSUME NEW d \in Disks, d < at' PROVE want[d] > 0 \/ FullAt(n, d, disk[d])
        <3>1. d < at \/ d = at
            BY <1>1, <2>1, <2>4
        <3>2. QED
            BY <2>1, <2>2, <3>1 DEF TurnInv
    <2>5. at' # 0 /\ (at' = P + 1 => at = P)
        BY <1>1, <2>1
    <2>6. QED
        BY <2>1, <2>3, <2>4, <2>5
<1>4. ASSUME NEW ok \in BOOLEAN, startRead(ok) \/ consumeRead(ok),
             NEW r, FileOK(n, at, r), startAIO(at, r, ok), at \in Disks, pc = "pass",
             ~genCanceled, n' = n, plen' = plen, at' = at + 1 \/ ~ok
      PROVE  /\ at' # 0
             /\ \A d \in Disks : d < at' => want'[d] > 0 \/ FullAt(n', d, disk'[d])
             /\ at' = P + 1 => want'[P] > 0 \/ plen' = 0
    <2>1. /\ \A e \in Disks \ {at} : disk'[e] = disk[e] /\ want'[e] = want[e]
          /\ genCanceled' = ~ok /\ (ok /\ want'[at] = 0 => FullAt(n, at, disk'[at]))
          /\ want' \in [1..P -> 0..BufSize]
        BY <1>1, <1>4, StartAIOStep
    <2>2. ok /\ at' = at + 1
        BY <1>4, <2>1
    <2>3. ASSUME NEW d \in Disks, d < at' PROVE want'[d] > 0 \/ FullAt(n, d, disk'[d])
        <3>1. CASE d = at
            <4>1. want'[d] \in Nat
                BY <2>1
            <4>2. QED
                BY <2>1, <2>2, <3>1, <4>1
        <3>2. CASE d # at
            <4>1. d < at
                BY <1>1, <1>4, <2>2, <2>3, <3>2
            <4>2. QED
                BY <1>4, <2>1, <3>2, <4>1 DEF TurnInv
        <3>3. QED
            BY <3>1, <3>2
    <2>4. at' # 0 /\ at' # P + 1
        BY <1>1, <1>4, <2>2
    <2>5. QED
        BY <1>4, <2>3, <2>4
<1>5. ASSUME NEW ok \in BOOLEAN, startRead(ok)
      PROVE  /\ at' # 0
             /\ \A d \in Disks : d < at' => want'[d] > 0 \/ FullAt(n', d, disk'[d])
             /\ at' = P + 1 => want'[P] > 0 \/ plen' = 0
    <2>1. /\ startAIO(at, disk[at], ok) /\ at \in Disks /\ pc = "pass" /\ ~genCanceled
          /\ n' = n /\ plen' = plen /\ (at' = at + 1 \/ ~ok)
        BY <1>5 DEF startRead, bufVars
    <2>2. FileOK(n, at, disk[at])
        BY <1>1, <2>1 DEF FileInv
    <2>3. QED
        BY <1>4, <1>5, <2>1, <2>2
<1>6. ASSUME NEW ok \in BOOLEAN, consumeRead(ok)
      PROVE  /\ at' # 0
             /\ \A d \in Disks : d < at' => want'[d] > 0 \/ FullAt(n', d, disk'[d])
             /\ at' = P + 1 => want'[P] > 0 \/ plen' = 0
    <2>1. /\ at \in Disks /\ pc = "pass" /\ n' = n /\ plen' = plen /\ at' = at + 1
          /\ want[at] > 0 /\ res[at] > 0 /\ ~genCanceled
        BY <1>6 DEF consumeRead, bufVars, Done
    <2>2. startAIO(at, Counted(disk[at], res[at]), ok)
        BY <1>6, <2>1 DEF consumeRead, Counted
    <2>3. FileOK(n, at, disk[at]) /\ ReadOK(disk[at], want[at], res[at])
        BY <1>1, <2>1 DEF FileInv
    <2>4. want[at] \in 0..BufSize /\ res[at] \in {InProgress, -1} \cup (0..BufSize)
        BY <1>1, <2>1 DEF TypeOK
    <2>5. FileOK(n, at, Counted(disk[at], res[at]))
        BY <1>1, <2>1, <2>3, <2>4, CountedPlace
    <2>6. QED
        BY <1>4, <1>6, <2>1, <2>2, <2>5
<1>7. CASE startWrite \/ finishWrite
    <2>1. /\ n' = n /\ disk' = disk /\ at = P /\ at' = at + 1 /\ pc = "pass" /\ ~genCanceled
          /\ \A d \in Disks : want'[d] = want[d]
          /\ want'[P] > 0 \/ plen' = 0
        BY <1>1, <1>7 DEF startWrite, finishWrite, diskVars, bufVars
    <2>2. \A d \in Disks : want[d] > 0 \/ FullAt(n, d, disk[d])
        BY <1>1, <2>1 DEF TurnInv
    <2>3. QED
        BY <1>1, <2>1, <2>2
<1>8. CASE rejectRead \/ rejectWrite \/ endPass \/ computeParity \/ slices2disk
           \/ \E K \in SUBSET (1..P) : cancelAIO(K)
    BY <1>8 DEF rejectRead, rejectWrite, endPass, computeParity, slices2disk, cancelAIO, AfterPass
<1>9. CASE \E changed \in BOOLEAN : exitSliceFile(changed)
    BY <1>9 DEF exitSliceFile
<1>10. ASSUME UNCHANGED <<pc, n, at, disk, plen, want, genCanceled>>
       PROVE  /\ at' # 0
              /\ \A d \in Disks : d < at' => want'[d] > 0 \/ FullAt(n', d, disk'[d])
              /\ at' = P + 1 => want'[P] > 0 \/ plen' = 0
    BY <1>10 DEF TurnInv
<1>11. CASE \/ \E d \in Disks : \E k \in Slots : readDone(d, k)
            \/ \E i \in 1..P, k \in {-1, 0} : requestFails(i, k)
            \/ writeDone \/ orphanDone \/ intHandler \/ UNCHANGED vars
    BY <1>10, <1>11 DEF readDone, requestFails, writeDone, orphanDone, intHandler, vars,
                        diskVars, bufVars, aioVars
<1>12. QED
    BY <1>2, <1>3, <1>5, <1>6, <1>7, <1>8, <1>9, <1>11 DEF Next, Kernel, Thread, Faults

\* One disk, when the parity of a round was computed: it gave the round all it could.
LEMMA NextLevel ==
    ASSUME NEW c \in Nat, NEW t \in Nat, NEW len \in 0..BufSize, NEW got \in 0..t,
           NEW par \in len..BufSize, got - len = Lesser(c, t), len = BufSize \/ got = t
    PROVE  got = Lesser(c + par, t)
<1>1. CASE c < t
    BY <1>1 DEF Lesser
<1>2. CASE ~(c < t)
    BY <1>2 DEF Lesser
<1>3. QED
    BY <1>1, <1>2

LEMMA Appended ==
    ASSUME NEW S, NEW s \in Seq(S), NEW k \in Nat, NEW f \in [1..k -> S]
    PROVE  /\ s \o f \in Seq(S) /\ Len(s \o f) = Len(s) + k
           /\ \A i \in 1..Len(s) : (s \o f)[i] = s[i]
           /\ \A i \in 1..k : (s \o f)[Len(s) + i] = f[i]
<1>1. f \in Seq(S) /\ Len(f) = k
    OBVIOUS
<1>2. QED
    BY <1>1

LEMMA LevelStep == PlaceInv /\ TurnInv /\ LevelInv /\ [Next]_vars => LevelInv'
<1> DEFINE Level  == /\ \A d \in Disks : LevelOK(n', d, disk'[d], Combined')
                     /\ pc' = "parity" =>
                            plen' = 0 /\ \A d \in Disks : FullAt(n', d, disk'[d])
<1> SUFFICES ASSUME PlaceInv, TurnInv, LevelInv, [Next]_vars, ~genCanceled' PROVE Level
    BY DEF LevelInv, LevelOK, FullAt, Total, Combined, Written
<1> USE PBasics
<1>1. /\ TypeOK /\ FileInv /\ WriteInv /\ n \in 1..Len(Plan)
      /\ want \in [1..P -> 0..BufSize] /\ plen \in 0..BufSize /\ Len(out) \in Nat
      /\ res \in [1..P -> {InProgress, -1} \cup (0..BufSize)]
    <2>1. out \in Seq(SUBSET Byte)
        BY DEF PlaceInv, TypeOK
    <2>2. Len(out) \in Nat
        BY <2>1
    <2>3. QED
        BY <2>2 DEF PlaceInv, TypeOK
<1>2. ASSUME ~genCanceled, n' = n, Combined' = Combined, pc' # "parity",
             \A d \in Disks : disk'[d].got = disk[d].got /\ disk'[d].len = disk[d].len
      PROVE  Level
    BY <1>2 DEF LevelInv, LevelOK
<1>3. ASSUME UNCHANGED <<out, plen>>, want'[P] = want[P], res'[P] = res[P]
      PROVE  Combined' = Combined
    BY <1>3 DEF Combined, Written
<1>4. CASE createSliceFile \/ skipDisk \/ suspend
    <2>1. /\ UNCHANGED <<n, disk, out, plen, want, res>> /\ ~genCanceled /\ pc' # "parity"
        BY <1>4 DEF createSliceFile, skipDisk, suspend, diskVars, bufVars, aioVars
    <2>2. QED
        BY <1>2, <1>3, <2>1
<1>5. ASSUME NEW ok \in BOOLEAN, startRead(ok) PROVE Level
    <2>1. /\ startAIO(at, disk[at], ok) /\ at \in Disks /\ pc' = "pass" /\ ~genCanceled
          /\ UNCHANGED <<n, out, plen>>
        BY <1>5 DEF startRead, bufVars
    <2>2. FileOK(n, at, disk[at])
        BY <1>1, <2>1 DEF FileInv
    <2>3. /\ want'[P] = want[P] /\ res'[P] = res[P]
          /\ disk'[at].got = disk[at].got /\ disk'[at].len = disk[at].len
          /\ \A d \in Disks \ {at} : disk'[d] = disk[d]
        BY <1>1, <2>1, <2>2, StartAIOStep
    <2>4. \A d \in Disks : disk'[d].got = disk[d].got /\ disk'[d].len = disk[d].len
        BY <2>3
    <2>5. QED
        BY <1>2, <1>3, <2>1, <2>3, <2>4
<1>6. ASSUME NEW ok \in BOOLEAN, consumeRead(ok) PROVE Level
    <2> DEFINE r == Counted(disk[at], res[at])
    <2>1. /\ at \in Disks /\ pc' = "pass" /\ UNCHANGED <<n, out, plen>>
          /\ want[at] > 0 /\ res[at] > 0 /\ ~genCanceled
        BY <1>6 DEF consumeRead, bufVars, Done
    <2>2. startAIO(at, r, ok)
        BY <1>6, <2>1 DEF consumeRead, Counted
    <2>3. FileOK(n, at, disk[at]) /\ ReadOK(disk[at], want[at], res[at])
        BY <1>1, <2>1 DEF FileInv
    <2>4. want[at] \in 0..BufSize /\ res[at] \in {InProgress, -1} \cup (0..BufSize)
        BY <1>1, <2>1
    <2>5. /\ FileOK(n, at, r)
          /\ r.got = disk[at].got + res[at] /\ r.len = disk[at].len + res[at]
        BY <1>1, <2>1, <2>3, <2>4, CountedPlace
    <2> HIDE DEF r
    <2>6. /\ want'[P] = want[P] /\ res'[P] = res[P]
          /\ disk'[at].got = r.got /\ disk'[at].len = r.len
          /\ \A e \in Disks \ {at} : disk'[e] = disk[e]
        BY <1>1, <2>1, <2>2, <2>5, StartAIOStep
    <2>7. Combined' = Combined
        BY <1>3, <2>1, <2>6
    <2>8. ASSUME NEW d \in Disks PROVE LevelOK(n, d, disk'[d], Combined)
        <3>1. LevelOK(n, d, disk[d], Combined)
            BY <2>1 DEF LevelInv
        <3>2. CASE d = at
            <4>1. disk[d].got \in Nat /\ disk[d].len \in Nat /\ res[at] \in Nat
                BY <2>1, <2>3, <2>4, <3>2 DEF FileOK, SliceDisk, InProgress
            <4>2. disk'[d].got - disk'[d].len = disk[d].got - disk[d].len
                BY <2>5, <2>6, <3>2, <4>1
            <4>3. QED
                BY <3>1, <4>2 DEF LevelOK
        <3>3. CASE d # at
            BY <2>6, <3>1, <3>3
        <3>4. QED
            BY <3>2, <3>3
    <2>9. QED
        BY <2>1, <2>7, <2>8
<1>7. CASE rejectRead \/ rejectWrite
    BY <1>7 DEF rejectRead, rejectWrite
<1>8. CASE startWrite
    <2>1. /\ UNCHANGED <<n, disk, out, plen>> /\ pc' = "pass" /\ ~genCanceled
          /\ want[P] = 0 /\ res'[P] = InProgress
        BY <1>1, <1>8 DEF startWrite, diskVars, bufVars
    <2>2. Combined' = Combined
        BY <1>1, <2>1 DEF Combined, Written, InProgress
    <2>3. QED
        BY <1>2, <2>1, <2>2
<1>9. CASE finishWrite
    <2>1. /\ UNCHANGED <<n, disk, out>> /\ pc' = "pass" /\ ~genCanceled
          /\ want[P] > 0 /\ res[P] = plen /\ plen' = 0
        BY <1>9 DEF finishWrite, Done, diskVars
    <2>2. Combined' = Combined
        BY <1>1, <2>1 DEF Combined, Written
    <2>3. QED
        BY <1>2, <2>1, <2>2
<1>10. CASE endPass
    <2>1. /\ UNCHANGED <<n, disk, out, plen, want, res>> /\ pc = "pass" /\ ~genCanceled
          /\ at = P + 1 /\ pc' = AfterPass(want)
        BY <1>10 DEF endPass, diskVars, bufVars, aioVars
    <2>2. Combined' = Combined
        BY <1>3, <2>1
    <2>3. \A d \in Disks : LevelOK(n, d, disk[d], Combined)
        BY <2>1 DEF LevelInv
    <2>4. ASSUME pc' = "parity" PROVE plen = 0 /\ \A d \in Disks : FullAt(n, d, disk[d])
        <3>1. want = Idle
            BY <2>1, <2>4 DEF AfterPass
        <3>2. \A i \in 1..P : want[i] = 0
            BY <3>1 DEF Idle
        <3>3. \A d \in Disks : d < P + 1
            BY DEF P, Disks
        <3>4. QED
            BY <2>1, <3>2, <3>3 DEF TurnInv
    <2>5. QED
        BY <2>1, <2>2, <2>3, <2>4
<1>11. CASE \E K \in SUBSET (1..P) : cancelAIO(K)
    BY <1>11 DEF cancelAIO
<1>12. CASE computeParity
    <2>1. /\ n' = n /\ pc = "parity" /\ pc' # "parity" /\ ~genCanceled
          /\ UNCHANGED <<out, want, res>>
          /\ \/ UNCHANGED <<disk, plen>>
             \/ /\ plen' = LongestBuffer /\ disk' = [d \in Disks |-> Emptied(disk[d])]
        <3>1. ~genCanceled \/ UNCHANGED genCanceled
            BY <1>12 DEF computeParity
        <3>2. QED
            BY <1>12 DEF computeParity, aioVars, bufVars, Emptied
    <2>2. CASE UNCHANGED <<disk, plen>>
        BY <1>2, <1>3, <2>1, <2>2
    <2>3. CASE plen' = LongestBuffer /\ disk' = [d \in Disks |-> Emptied(disk[d])]
        <3>1. /\ plen = 0 /\ want[P] = 0 /\ Combined = Len(out)
              /\ Combined' = Len(out) + LongestBuffer
            BY <1>1, <2>1, <2>3 DEF LevelInv, WriteInv, Idle, Combined, Written
        <3>2. LongestBuffer \in 0..BufSize /\ \A d \in Disks : disk[d].len <= LongestBuffer
            BY <1>1, Longest DEF TypeOK
        <3>3. ASSUME NEW d \in Disks PROVE LevelOK(n, d, disk'[d], Combined')
            <4>1. /\ FileOK(n, d, disk[d]) /\ FullAt(n, d, disk[d])
                  /\ LevelOK(n, d, disk[d], Combined)
                BY <1>1, <2>1 DEF FileInv, LevelInv
            <4>2. disk'[d].len = 0 /\ disk'[d].got = disk[d].got
                BY <1>1, <2>3, <4>1, EmptiedPlace
            <4>3. /\ Total(n, d) \in Nat /\ disk[d].len \in 0..BufSize
                  /\ disk[d].got \in 0..Total(n, d)
                <5>1. disk[d].got \in Nat /\ disk[d].left \in Nat /\ disk[d].len \in 0..BufSize
                    BY <4>1 DEF FileOK, SliceDisk
                <5>2. disk[d].got + disk[d].left <= Total(n, d) /\ Total(n, d) \in Nat
                    BY <1>1, <4>1, FileBounds
                <5>3. QED
                    BY <5>1, <5>2
            <4>4. LongestBuffer \in disk[d].len..BufSize
                BY <3>2, <4>3
            <4>5. disk[d].got - disk[d].len = Lesser(Len(out), Total(n, d))
                BY <3>1, <4>1 DEF LevelOK
            <4>6. disk[d].len = BufSize \/ disk[d].got = Total(n, d)
                BY <4>1 DEF FullAt
            <4>7. disk[d].got = Lesser(Len(out) + LongestBuffer, Total(n, d))
                BY <1>1, <4>3, <4>4, <4>5, <4>6, NextLevel
            <4>8. QED
                BY <3>1, <4>2, <4>3, <4>7 DEF LevelOK
        <3>4. QED
            BY <2>1, <3>3
    <2>4. QED
        BY <2>1, <2>2, <2>3
<1>13. CASE \E changed \in BOOLEAN : exitSliceFile(changed)
    <2>1. /\ UNCHANGED <<n, disk, out, plen, want, res>> /\ ~genCanceled /\ pc' # "parity"
        BY <1>13 DEF exitSliceFile, diskVars, bufVars, aioVars
    <2>2. QED
        BY <1>2, <1>3, <2>1
<1>14. CASE slices2disk
    <2>1. CASE n = Len(Plan) \/ operationCanceled
        BY <1>2, <1>3, <1>14, <2>1 DEF slices2disk
    <2>2. CASE ~(n = Len(Plan) \/ operationCanceled)
        <3>1. /\ disk' = [d \in Disks |-> Fresh] /\ n' \in 1..Len(Plan) /\ pc' # "parity"
              /\ Combined' = 0
            <4>1. /\ disk' = [d \in Disks |-> Fresh] /\ n' = n + 1 /\ pc' = "round"
                  /\ out' = <<>> /\ plen' = 0
                BY <1>14, <2>2 DEF slices2disk
            <4>2. Combined' = 0
                BY <4>1 DEF Combined, Written
            <4>3. QED
                BY <1>1, <2>2, <4>1, <4>2, PlanAssumption
        <3>2. ASSUME NEW d \in Disks PROVE LevelOK(n', d, disk'[d], 0)
            <4>1. disk'[d].got = 0 /\ disk'[d].len = 0
                BY <3>1 DEF Fresh
            <4>2. Total(n', d) \in Nat
                BY <3>1, FreshPlace, FileBounds
            <4>3. QED
                BY <4>1, <4>2 DEF LevelOK, Lesser
        <3>3. QED
            BY <3>1, <3>2
    <2>3. QED
        BY <2>1, <2>2
<1>15. ASSUME ~genCanceled, UNCHANGED <<pc, n, disk, plen>>, Combined' = Combined PROVE Level
    BY <1>15 DEF LevelInv
<1>16. CASE \E d \in Disks : \E k \in Slots : readDone(d, k)
    <2>1. /\ UNCHANGED <<pc, n, disk, plen, want, out, genCanceled>> /\ res'[P] = res[P]
        BY <1>1, <1>16 DEF readDone, diskVars
    <2>2. QED
        BY <1>3, <1>15, <2>1
<1>17. CASE writeDone
    <2>1. /\ UNCHANGED <<pc, n, disk, plen, want, genCanceled>> /\ res'[P] = plen
          /\ want[P] > 0 /\ res[P] = InProgress /\ out' = out \o [k \in 1..plen |-> pbuf[k]]
        BY <1>1, <1>17 DEF writeDone, Busy, diskVars, bufVars
    <2>2. Len(out') = Len(out) + plen
        <3>1. [k \in 1..plen |-> pbuf[k]] \in [1..plen -> SUBSET Byte]
            BY <1>1 DEF TypeOK, Slots
        <3>2. out \in Seq(SUBSET Byte)
            BY <1>1 DEF TypeOK
        <3>3. QED
            BY <1>1, <2>1, <3>1, <3>2, Appended
    <2>3. Combined' = Combined
        BY <1>1, <2>1, <2>2 DEF Combined, Written, InProgress
    <2>4. QED
        BY <1>15, <2>1, <2>3
<1>18. CASE \E i \in 1..P, k \in {-1, 0} : requestFails(i, k)
    <2>1. PICK i \in 1..P, k \in {-1, 0} : requestFails(i, k)
        BY <1>18
    <2>2. /\ UNCHANGED <<pc, n, disk, plen, want, out, genCanceled>>
          /\ want[i] > 0 /\ res[i] = InProgress /\ res' = [res EXCEPT ![i] = k]
        BY <2>1 DEF requestFails, Busy, diskVars, bufVars
    <2>3. Combined' = Combined
        <3>1. CASE i = P
            <4>1. plen > 0
                BY <1>1, <2>2, <3>1 DEF WriteInv
            <4>2. res'[P] # plen /\ res[P] # plen
                BY <1>1, <2>2, <3>1, <4>1 DEF InProgress
            <4>3. QED
                BY <2>2, <4>2 DEF Combined, Written
        <3>2. CASE i # P
            BY <1>1, <1>3, <2>2, <3>2
        <3>3. QED
            BY <3>1, <3>2
    <2>4. QED
        BY <1>15, <2>2, <2>3
<1>19. CASE orphanDone \/ intHandler \/ UNCHANGED vars
    <2>1. UNCHANGED <<pc, n, disk, plen, want, res, out, genCanceled>>
        BY <1>19 DEF orphanDone, intHandler, vars, diskVars, bufVars, aioVars
    <2>2. QED
        BY <1>3, <1>15, <2>1
<1>20. QED
    BY <1>4, <1>5, <1>6, <1>7, <1>8, <1>9, <1>10, <1>11, <1>12, <1>13, <1>14, <1>16, <1>17,
       <1>18, <1>19 DEF Next, Kernel, Thread, Faults

----------------------------------------------------------------------------
(* What the buffers hold.                                                  *)

Received(d) == IF want[d] > 0 /\ res[d] > 0 THEN res[d] ELSE 0

\* No buffer holds a byte of a later slice.
OldBytes == \A d \in Disks : \A j \in Slots : buf[d][j] = Zero \/ buf[d][j][1] <= n

\* A buffer begins with the bytes of this slice the disk has got since the last round, and
\* has none of this slice behind them.
BufOK(m, d, b, r, k) ==
    \A j \in Slots : IF j <= r.len + k THEN b[j] = <<m, d, r.got - r.len + j>>
                     ELSE b[j] = Zero \/ b[j][1] < m

BufInv ==
    /\ OldBytes
    /\ ~genCanceled => \A d \in Disks : BufOK(n, d, buf[d], disk[d], Received(d))

LEMMA BufStep == PlaceInv /\ BufInv /\ [Next]_vars => BufInv'
<1> DEFINE Old   == \A d \in Disks : \A j \in Slots : buf'[d][j] = Zero \/ buf'[d][j][1] <= n'
           Bytes == \A d \in Disks : BufOK(n', d, buf'[d], disk'[d], Received(d)')
<1> SUFFICES ASSUME PlaceInv, BufInv, [Next]_vars
             PROVE  Old /\ (~genCanceled' => Bytes)
    BY DEF BufInv, OldBytes, BufOK
<1> USE PBasics
<1>1. /\ TypeOK /\ FileInv /\ WriteInv /\ n \in 1..Len(Plan)
      /\ want \in [1..P -> 0..BufSize] /\ plen \in 0..BufSize
      /\ res \in [1..P -> {InProgress, -1} \cup (0..BufSize)]
      /\ buf \in [Disks -> [Slots -> Byte \cup {Zero}]]
    BY DEF PlaceInv, TypeOK
<1>2. ASSUME UNCHANGED <<n, buf>> PROVE Old
    BY <1>2 DEF BufInv, OldBytes
<1>3. ASSUME UNCHANGED <<n, buf, disk>>, genCanceled' \/ ~genCanceled,
             genCanceled' \/ \A d \in Disks : want'[d] = want[d] /\ res'[d] = res[d]
      PROVE  Old /\ (~genCanceled' => Bytes)
    BY <1>2, <1>3 DEF BufInv, Received
<1>4. CASE createSliceFile \/ skipDisk \/ suspend \/ endPass \/ rejectWrite \/ orphanDone
           \/ intHandler \/ UNCHANGED vars \/ \E c \in BOOLEAN : exitSliceFile(c)
    <2>1. UNCHANGED <<n, buf, disk, want, res>>
        BY <1>4 DEF createSliceFile, skipDisk, suspend, endPass, rejectWrite, orphanDone,
                    intHandler, vars, exitSliceFile, diskVars, bufVars, aioVars
    <2>2. genCanceled' \/ ~genCanceled
        BY <1>4 DEF createSliceFile, skipDisk, suspend, endPass, rejectWrite, orphanDone,
                    intHandler, vars, exitSliceFile
    <2>3. QED
        BY <1>3, <2>1, <2>2
<1>5. CASE rejectRead \/ \E K \in SUBSET (1..P) : cancelAIO(K)
    <2>1. UNCHANGED <<n, buf, disk>> /\ genCanceled'
        BY <1>5 DEF rejectRead, cancelAIO, diskVars, bufVars
    <2>2. QED
        BY <1>3, <2>1
<1>6. CASE startWrite \/ finishWrite \/ writeDone
    <2>1. /\ UNCHANGED <<n, buf, disk>> /\ (genCanceled' \/ ~genCanceled)
          /\ \A d \in Disks : want'[d] = want[d] /\ res'[d] = res[d]
        BY <1>1, <1>6 DEF startWrite, finishWrite, writeDone, diskVars, bufVars
    <2>2. QED
        BY <1>3, <2>1
<1>7. ASSUME NEW ok \in BOOLEAN, startRead(ok) PROVE Old /\ (~genCanceled' => Bytes)
    <2>1. /\ startAIO(at, disk[at], ok) /\ at \in Disks /\ want[at] = 0 /\ ~genCanceled
          /\ UNCHANGED <<n, buf>>
        BY <1>7 DEF startRead, bufVars
    <2>2. FileOK(n, at, disk[at])
        BY <1>1, <2>1 DEF FileInv
    <2>3. /\ disk'[at].got = disk[at].got /\ disk'[at].len = disk[at].len
          /\ res'[at] = InProgress
          /\ \A d \in Disks \ {at} : /\ disk'[d] = disk[d] /\ want'[d] = want[d]
                                     /\ res'[d] = res[d]
        BY <1>1, <2>1, <2>2, StartAIOStep
    <2>4. ASSUME NEW d \in Disks PROVE BufOK(n, d, buf[d], disk'[d], Received(d)')
        <3>1. BufOK(n, d, buf[d], disk[d], Received(d))
            BY <2>1 DEF BufInv
        <3>2. Received(d)' = Received(d)
            BY <2>1, <2>3 DEF Received, InProgress
        <3>3. disk'[d].got = disk[d].got /\ disk'[d].len = disk[d].len
            BY <2>3
        <3>4. QED
            BY <3>1, <3>2, <3>3 DEF BufOK
    <2>5. QED
        BY <1>2, <2>1, <2>4
<1>8. ASSUME NEW ok \in BOOLEAN, consumeRead(ok) PROVE Old /\ (~genCanceled' => Bytes)
    <2> DEFINE r == Counted(disk[at], res[at])
    <2>1. /\ at \in Disks /\ want[at] > 0 /\ res[at] > 0 /\ UNCHANGED <<n, buf>>
        BY <1>8 DEF consumeRead, bufVars, Done
    <2>2. CASE genCanceled
        <3>1. genCanceled'
            BY <1>8, <2>2 DEF consumeRead
        <3>2. QED
            BY <1>2, <2>1, <3>1
    <2>3. CASE ~genCanceled
        <3>1. startAIO(at, r, ok)
            BY <1>8, <2>3 DEF consumeRead, Counted
        <3>2. FileOK(n, at, disk[at]) /\ ReadOK(disk[at], want[at], res[at])
            BY <1>1, <2>1 DEF FileInv
        <3>3. want[at] \in 0..BufSize /\ res[at] \in {InProgress, -1} \cup (0..BufSize)
            BY <1>1, <2>1
        <3>4. /\ FileOK(n, at, r)
              /\ r.got = disk[at].got + res[at] /\ r.len = disk[at].len + res[at]
            BY <1>1, <2>1, <3>2, <3>3, CountedPlace
        <3> HIDE DEF r
        <3>5. /\ disk'[at].len = r.len /\ disk'[at].got = r.got /\ res'[at] = InProgress
              /\ \A d \in Disks \ {at} : /\ disk'[d] = disk[d] /\ want'[d] = want[d]
                                         /\ res'[d] = res[d]
            <4>1. n' = n
                BY <2>1
            <4>2. QED
                BY <1>1, <2>1, <3>1, <3>4, <4>1, StartAIOStep
        <3>6. disk[at].got \in Nat /\ disk[at].len \in Nat /\ res[at] \in Nat
            BY <2>1, <3>2, <3>3 DEF FileOK, SliceDisk, InProgress
        <3>7. ASSUME NEW d \in Disks PROVE BufOK(n, d, buf[d], disk'[d], Received(d)')
            <4>1. BufOK(n, d, buf[d], disk[d], Received(d))
                BY <2>3 DEF BufInv
            <4>2. CASE d = at
                <5>1. Received(d)' = 0 /\ Received(d) = res[at]
                    BY <2>1, <3>5, <4>2 DEF Received, InProgress
                <5>2. /\ disk'[d].len + 0 = disk[d].len + res[at]
                      /\ disk'[d].got - disk'[d].len = disk[d].got - disk[d].len
                    BY <3>4, <3>5, <3>6, <4>2
                <5>3. QED
                    BY <4>1, <5>1, <5>2 DEF BufOK
            <4>3. CASE d # at
                BY <3>5, <4>1, <4>3 DEF Received
            <4>4. QED
                BY <4>2, <4>3
        <3>8. QED
            BY <1>2, <2>1, <3>7
    <2>4. QED
        BY <2>2, <2>3
<1>9. CASE computeParity
    <2> DEFINE L == LongestBuffer
               cleared == [d \in Disks |-> [k \in Slots |-> IF k <= L THEN Zero ELSE buf[d][k]]]
    <2>1. /\ n' = n /\ want' = want /\ res' = res /\ (genCanceled' \/ ~genCanceled)
          /\ \/ UNCHANGED <<buf, disk>>
             \/ buf' = cleared /\ disk' = [d \in Disks |-> Emptied(disk[d])]
        BY <1>9 DEF computeParity, aioVars, bufVars, Emptied
    <2>2. CASE UNCHANGED <<buf, disk>>
        BY <1>3, <2>1, <2>2
    <2>3. CASE buf' = cleared /\ disk' = [d \in Disks |-> Emptied(disk[d])]
        <3>1. \A d \in Disks : \A j \in Slots : buf'[d][j] = IF j <= L THEN Zero ELSE buf[d][j]
            BY <2>3
        <3>2. Old
            BY <2>1, <3>1 DEF BufInv, OldBytes
        <3>3. ASSUME ~genCanceled, NEW d \in Disks
              PROVE  BufOK(n, d, buf'[d], disk'[d], Received(d)')
            <4>1. FileOK(n, d, disk[d]) /\ BufOK(n, d, buf[d], disk[d], Received(d))
                BY <1>1, <3>3 DEF FileInv, BufInv
            <4>2. want[d] = 0
                BY <1>1, <1>9 DEF computeParity, WriteInv, Idle
            <4>3. Received(d) = 0 /\ Received(d)' = 0
                BY <2>1, <4>2 DEF Received
            <4>4. disk'[d].len = 0
                BY <1>1, <2>3, <4>1, EmptiedPlace
            <4>5. disk[d].len \in Nat /\ disk[d].len <= L /\ L \in Nat
                <5>1. disk \in [Disks -> SliceDisk]
                    BY <1>1 DEF TypeOK
                <5>2. disk[d].len \in 0..BufSize
                    BY <5>1, Fields
                <5>3. L \in 0..BufSize /\ disk[d].len <= L
                    BY <5>1, Longest
                <5>4. QED
                    BY <5>2, <5>3
            <4>6. \A j \in Slots : buf'[d][j] = Zero \/ buf'[d][j][1] < n
                <5> TAKE j \in Slots
                <5>1. CASE j <= L
                    BY <3>1, <5>1
                <5>2. CASE ~(j <= L)
                    <6>1. ~(j <= disk[d].len + 0)
                        BY <4>5, <5>2 DEF Slots
                    <6>2. QED
                        BY <3>1, <4>1, <4>3, <5>2, <6>1 DEF BufOK
                <5>3. QED
                    BY <5>1, <5>2
            <4>7. \A j \in Slots : ~(j <= 0 + 0)
                BY DEF Slots
            <4>8. QED
                BY <4>3, <4>4, <4>6, <4>7 DEF BufOK
        <3>4. QED
            BY <2>1, <3>2, <3>3
    <2>4. QED
        BY <2>1, <2>2, <2>3
<1>10. CASE slices2disk
    <2>1. CASE n = Len(Plan) \/ operationCanceled
        BY <1>3, <1>10, <2>1 DEF slices2disk
    <2>2. CASE ~(n = Len(Plan) \/ operationCanceled)
        <3>1. n' = n + 1 /\ disk' = [d \in Disks |-> Fresh] /\ want' = Idle /\ buf' = buf
            BY <1>10, <2>2 DEF slices2disk
        <3>2. \A d \in Disks : \A j \in Slots : buf[d][j] = Zero \/ buf[d][j][1] < n'
            <4> TAKE d \in Disks
            <4> TAKE j \in Slots
            <4> SUFFICES ASSUME buf[d][j] # Zero PROVE buf[d][j][1] < n'
                OBVIOUS
            <4>1. buf[d][j] \in Byte
                BY <1>1
            <4>2. buf[d][j][1] \in Nat
                BY <4>1 DEF Byte
            <4>3. buf[d][j][1] <= n
                BY DEF BufInv, OldBytes
            <4>4. QED
                BY <1>1, <3>1, <4>2, <4>3
        <3>3. Old
            <4>1. \A d \in Disks, j \in Slots : buf[d][j] # Zero => buf[d][j][1] \in Nat
                BY <1>1 DEF Byte
            <4>2. n' \in Nat
                BY <1>1, <3>1
            <4>3. QED
                BY <3>1, <3>2, <4>1, <4>2
        <3>4. ASSUME NEW d \in Disks PROVE BufOK(n', d, buf'[d], disk'[d], Received(d)')
            <4>1. disk'[d].len = 0 /\ Received(d)' = 0
                BY <3>1 DEF Fresh, Received, Idle
            <4>2. \A j \in Slots : ~(j <= 0 + 0)
                BY DEF Slots
            <4>3. QED
                BY <3>1, <3>2, <4>1, <4>2 DEF BufOK
        <3>5. QED
            BY <3>3, <3>4
    <2>3. QED
        BY <2>1, <2>2
<1>11. ASSUME NEW d \in Disks, NEW k \in Slots, readDone(d, k)
       PROVE  Old /\ (~genCanceled' => Bytes)
    <2>1. /\ k \in 1..want[d] /\ want[d] > 0 /\ res[d] = InProgress
          /\ buf' = [buf EXCEPT ![d] = filled(d, k)] /\ res' = [res EXCEPT ![d] = k]
          /\ UNCHANGED <<n, disk, want, genCanceled>>
        BY <1>11 DEF readDone, Busy, diskVars
    <2>2. /\ buf'[d] = filled(d, k) /\ res'[d] = k
          /\ \A e \in Disks \ {d} : buf'[e] = buf[e] /\ res'[e] = res[e]
        BY <1>1, <2>1
    <2>3. FileOK(n, d, disk[d]) /\ ReadOK(disk[d], want[d], res[d])
        BY <1>1 DEF FileInv
    <2>4. disk[d].got \in Nat /\ disk[d].len \in Nat /\ k \in Nat /\ k > 0
        BY <2>3 DEF FileOK, SliceDisk, Slots
    <2>5. ASSUME NEW j \in Slots
          PROVE  buf'[d][j] = IF j \in (disk[d].len + 1)..(disk[d].len + k)
                              THEN <<n, d, disk[d].got + j - disk[d].len>> ELSE buf[d][j]
        BY <2>2 DEF filled
    <2>6. Old
        <3>1. ASSUME NEW e \in Disks, NEW j \in Slots
              PROVE  buf'[e][j] = Zero \/ buf'[e][j][1] <= n
            <4>1. buf[e][j] = Zero \/ buf[e][j][1] <= n
                BY DEF BufInv, OldBytes
            <4>2. CASE e = d /\ j \in (disk[d].len + 1)..(disk[d].len + k)
                <5>1. buf'[e][j] = <<n, d, disk[d].got + j - disk[d].len>>
                    BY <2>5, <4>2
                <5>2. QED
                    BY <1>1, <5>1
            <4>3. CASE ~(e = d /\ j \in (disk[d].len + 1)..(disk[d].len + k))
                BY <2>2, <2>5, <4>1, <4>3
            <4>4. QED
                BY <4>2, <4>3
        <3>2. QED
            BY <2>1, <3>1
    <2>7. ASSUME ~genCanceled, NEW e \in Disks
          PROVE  BufOK(n, e, buf'[e], disk[e], Received(e)')
        <3>1. BufOK(n, e, buf[e], disk[e], Received(e))
            BY <2>7 DEF BufInv
        <3>2. CASE e = d
            <4>1. Received(d) = 0 /\ Received(d)' = k
                BY <2>1, <2>2, <2>4 DEF Received, InProgress
            <4>2. ASSUME NEW j \in Slots
                  PROVE  IF j <= disk[d].len + k
                         THEN buf'[d][j] = <<n, d, disk[d].got - disk[d].len + j>>
                         ELSE buf'[d][j] = Zero \/ buf'[d][j][1] < n
                <5>1. j \in Nat /\ j > 0
                    BY DEF Slots
                <5>2. CASE j <= disk[d].len
                    <6>1. /\ j <= disk[d].len + 0 /\ j <= disk[d].len + k
                          /\ j \notin (disk[d].len + 1)..(disk[d].len + k)
                        BY <2>4, <5>1, <5>2
                    <6>2. QED
                        BY <2>5, <3>1, <3>2, <4>1, <6>1 DEF BufOK
                <5>3. CASE j > disk[d].len /\ j <= disk[d].len + k
                    <6>1. j \in (disk[d].len + 1)..(disk[d].len + k)
                        BY <2>4, <5>1, <5>3
                    <6>2. disk[d].got + j - disk[d].len = disk[d].got - disk[d].len + j
                        BY <2>4, <5>1
                    <6>3. QED
                        BY <2>5, <5>3, <6>1, <6>2
                <5>4. CASE j > disk[d].len + k
                    <6>1. /\ ~(j <= disk[d].len + 0) /\ ~(j <= disk[d].len + k)
                          /\ j \notin (disk[d].len + 1)..(disk[d].len + k)
                        BY <2>4, <5>1, <5>4
                    <6>2. QED
                        BY <2>5, <3>1, <3>2, <4>1, <6>1 DEF BufOK
                <5>5. QED
                    BY <2>4, <5>1, <5>2, <5>3, <5>4
            <4>3. QED
                BY <3>2, <4>1, <4>2 DEF BufOK
        <3>3. CASE e # d
            BY <2>1, <2>2, <3>1, <3>3 DEF Received
        <3>4. QED
            BY <3>2, <3>3
    <2>8. QED
        BY <2>1, <2>6, <2>7
<1>12. ASSUME NEW i \in 1..P, NEW k \in {-1, 0}, requestFails(i, k)
       PROVE  Old /\ (~genCanceled' => Bytes)
    <2>1. /\ UNCHANGED <<n, disk, buf, want, genCanceled>> /\ res[i] = InProgress
          /\ res' = [res EXCEPT ![i] = k]
        BY <1>12 DEF requestFails, Busy, diskVars, bufVars
    <2>2. \A d \in Disks : Received(d)' = Received(d)
        BY <1>1, <2>1 DEF Received, InProgress
    <2>3. QED
        BY <1>2, <2>1, <2>2 DEF BufInv
<1>13. QED
    BY <1>4, <1>5, <1>6, <1>7, <1>8, <1>9, <1>10, <1>11, <1>12 DEF Next, Kernel, Thread, Faults

----------------------------------------------------------------------------
(* What the parity combines.                                               *)

OwnOf(m, S) == {b \in S : b[1] = m}

\* Parity that was computed and not written, and parity in the work file: of this slice
\* each byte combines all it should, and nothing else.
CombinedInv ==
    ~genCanceled =>
        /\ ~Written => \A k \in 1..plen : OwnOf(n, pbuf[k]) = Own(n, Len(out) + k)
        /\ \A k \in 1..Len(out) : OwnOf(n, out[k]) = Own(n, k)

\* The parity computed from buffers that are in step
LEMMA ParityOfRound ==
    ASSUME n \in 1..Len(Plan), NEW c \in Nat, NEW k \in Slots,
           \A d \in Disks : /\ disk[d].len \in 0..BufSize /\ disk[d].got \in 0..Total(n, d)
                            /\ Total(n, d) \in Nat
                            /\ disk[d].got - disk[d].len = Lesser(c, Total(n, d))
                            /\ disk[d].len = BufSize \/ disk[d].got = Total(n, d)
                            /\ BufOK(n, d, buf[d], disk[d], 0)
    PROVE  OwnOf(n, {buf[d][k] : d \in Disks} \ {Zero}) = Own(n, c + k)
<1>1. k \in 1..BufSize /\ k \in Nat /\ n \in Nat
    BY DEF Slots
<1>2. ASSUME NEW d \in Disks
      PROVE  /\ c + k <= Total(n, d) => buf[d][k] = <<n, d, c + k>>
             /\ ~(c + k <= Total(n, d)) => buf[d][k] = Zero \/ buf[d][k][1] < n
    <2>1. /\ k <= disk[d].len <=> c + k <= Total(n, d)
          /\ k <= disk[d].len => disk[d].got - disk[d].len + k = c + k
        <3> DEFINE t == Total(n, d)
                   len == disk[d].len
                   got == disk[d].got
        <3>1. /\ len \in 0..BufSize /\ got \in 0..t /\ t \in Nat /\ got - len = Lesser(c, t)
              /\ len = BufSize \/ got = t
            OBVIOUS
        <3> HIDE DEF t, len, got
        <3>2. (k <= len <=> c + k <= t) /\ (k <= len => got - len + k = c + k)
            BY <1>1, <3>1 DEF Lesser
        <3>3. QED
            BY <3>2 DEF t, len, got
    <2>2. IF k <= disk[d].len + 0 THEN buf[d][k] = <<n, d, disk[d].got - disk[d].len + k>>
          ELSE buf[d][k] = Zero \/ buf[d][k][1] < n
        BY DEF BufOK
    <2>3. disk[d].len + 0 = disk[d].len
        OBVIOUS
    <2>4. QED
        BY <2>1, <2>2, <2>3
<1>3. ASSUME NEW x \in OwnOf(n, {buf[d][k] : d \in Disks} \ {Zero}) PROVE x \in Own(n, c + k)
    <2>1. PICK d \in Disks : x = buf[d][k] /\ x # Zero /\ x[1] = n
        BY DEF OwnOf
    <2>2. ~(x[1] < n)
        BY <1>1, <2>1
    <2>3. c + k <= Total(n, d) /\ x = <<n, d, c + k>>
        BY <1>2, <2>1, <2>2
    <2>4. QED
        BY <2>3 DEF Own
<1>4. ASSUME NEW x \in Own(n, c + k) PROVE x \in OwnOf(n, {buf[d][k] : d \in Disks} \ {Zero})
    <2>1. PICK d \in Disks : c + k <= Total(n, d) /\ x = <<n, d, c + k>>
        BY DEF Own
    <2>2. x = buf[d][k] /\ x[1] = n
        BY <1>2, <2>1
    <2>3. x # Zero
        <3>1. x \in Nat \X Nat \X Nat
            BY <1>1, <2>1 DEF Disks
        <3>2. QED
            BY <3>1, ZeroAssumption
    <2>4. QED
        BY <2>2, <2>3 DEF OwnOf
<1>5. QED
    BY <1>3, <1>4

LEMMA CombinedStep ==
    PlaceInv /\ LevelInv /\ BufInv /\ CombinedInv /\ [Next]_vars => CombinedInv'
<1> DEFINE Good == /\ ~Written' => \A k \in 1..plen' : OwnOf(n', pbuf'[k]) = Own(n', Len(out') + k)
                   /\ \A k \in 1..Len(out') : OwnOf(n', out'[k]) = Own(n', k)
<1> SUFFICES ASSUME PlaceInv, LevelInv, BufInv, CombinedInv, [Next]_vars, ~genCanceled'
             PROVE  Good
    BY DEF CombinedInv, OwnOf, Own, Total
<1> USE PBasics
<1>1. /\ TypeOK /\ FileInv /\ WriteInv /\ n \in 1..Len(Plan)
      /\ want \in [1..P -> 0..BufSize] /\ plen \in 0..BufSize
      /\ res \in [1..P -> {InProgress, -1} \cup (0..BufSize)]
      /\ out \in Seq(SUBSET Byte) /\ pbuf \in [Slots -> SUBSET Byte]
    BY DEF PlaceInv, TypeOK
<1>2. ASSUME ~genCanceled, UNCHANGED <<n, out, pbuf, plen>>, ~Written' => ~Written PROVE Good
    BY <1>2 DEF CombinedInv
<1>3. ASSUME want'[P] = want[P], res'[P] = res[P], plen' = plen PROVE Written' <=> Written
    BY <1>3 DEF Written
<1>4. CASE createSliceFile \/ skipDisk \/ suspend \/ endPass \/ orphanDone \/ intHandler
           \/ UNCHANGED vars \/ \E c \in BOOLEAN : exitSliceFile(c)
    <2>1. UNCHANGED <<n, out, pbuf, plen, want, res>>
        BY <1>4 DEF createSliceFile, skipDisk, suspend, endPass, orphanDone,
                    intHandler, vars, exitSliceFile, bufVars, aioVars
    <2>2. ~genCanceled
        BY <1>4 DEF createSliceFile, skipDisk, suspend, endPass, orphanDone,
                    intHandler, vars, exitSliceFile
    <2>3. QED
        BY <1>2, <1>3, <2>1, <2>2
<1>5. CASE rejectRead \/ rejectWrite
    BY <1>5 DEF rejectRead, rejectWrite
<1>6. CASE \E K \in SUBSET (1..P) : cancelAIO(K)
    BY <1>6 DEF cancelAIO
<1>7. ASSUME NEW ok \in BOOLEAN, startRead(ok) \/ consumeRead(ok) PROVE Good
    <2>1. /\ UNCHANGED <<n, out, pbuf, plen>> /\ ~genCanceled /\ at \in Disks
          /\ \E r : startAIO(at, r, ok)
        BY <1>7 DEF startRead, consumeRead, bufVars
    <2>2. want'[P] = want[P] /\ res'[P] = res[P]
        BY <1>1, <2>1 DEF startAIO
    <2>3. QED
        BY <1>2, <1>3, <2>1, <2>2
<1>8. CASE startWrite
    <2>1. UNCHANGED <<n, out, pbuf, plen>> /\ ~genCanceled /\ want[P] = 0
        BY <1>8 DEF startWrite, bufVars
    <2>2. ~Written
        BY <2>1 DEF Written
    <2>3. QED
        BY <1>2, <2>1, <2>2
<1>9. CASE finishWrite
    <2>1. UNCHANGED <<n, out>> /\ ~genCanceled /\ plen' = 0
        BY <1>9 DEF finishWrite
    <2>2. QED
        BY <2>1 DEF CombinedInv
<1>10. CASE computeParity
    <2> DEFINE L == LongestBuffer
    <2>1. /\ n' = n /\ out' = out /\ want' = want /\ res' = res /\ ~genCanceled /\ pc = "parity"
          /\ \/ UNCHANGED <<pbuf, plen>>
             \/ /\ plen' = L
                /\ pbuf' = [k \in Slots |-> IF k <= L THEN {buf[d][k] : d \in Disks} \ {Zero}
                                            ELSE pbuf[k]]
        <3>1. ~genCanceled \/ UNCHANGED genCanceled
            BY <1>10 DEF computeParity
        <3>2. QED
            BY <1>10, <3>1 DEF computeParity, aioVars, bufVars
    <2>2. CASE UNCHANGED <<pbuf, plen>>
        BY <1>2, <1>3, <2>1, <2>2
    <2>3. CASE /\ plen' = L
               /\ pbuf' = [k \in Slots |-> IF k <= L THEN {buf[d][k] : d \in Disks} \ {Zero}
                                           ELSE pbuf[k]]
        <3>1. L \in 0..BufSize
            BY <1>1, Longest DEF TypeOK
        <3> HIDE DEF L
        <3>2. Combined = Len(out) /\ Len(out) \in Nat
            BY <1>1, <2>1 DEF LevelInv, Combined
        <3>3. ASSUME NEW d \in Disks
              PROVE  /\ disk[d].len \in 0..BufSize /\ disk[d].got \in 0..Total(n, d)
                     /\ Total(n, d) \in Nat
                     /\ disk[d].got - disk[d].len = Lesser(Len(out), Total(n, d))
                     /\ disk[d].len = BufSize \/ disk[d].got = Total(n, d)
                     /\ BufOK(n, d, buf[d], disk[d], 0)
            <4>1. /\ FileOK(n, d, disk[d]) /\ FullAt(n, d, disk[d])
                  /\ LevelOK(n, d, disk[d], Combined) /\ BufOK(n, d, buf[d], disk[d], Received(d))
                BY <1>1, <2>1 DEF FileInv, LevelInv, BufInv
            <4>2. want[d] = 0
                BY <1>1, <2>1 DEF WriteInv, Idle
            <4>3. Received(d) = 0
                BY <4>2 DEF Received
            <4>4. disk[d].got \in Nat /\ disk[d].left \in Nat /\ disk[d].len \in 0..BufSize
                BY <4>1 DEF FileOK, SliceDisk
            <4>5. disk[d].got + disk[d].left <= Total(n, d) /\ Total(n, d) \in Nat
                BY <1>1, <4>1, FileBounds
            <4>6. disk[d].got \in 0..Total(n, d)
                BY <4>4, <4>5
            <4>7. QED
                BY <3>2, <4>1, <4>3, <4>4, <4>5, <4>6 DEF FullAt, LevelOK
        <3>4. ASSUME NEW k \in 1..L PROVE OwnOf(n, pbuf'[k]) = Own(n, Len(out) + k)
            <4>1. k \in Slots /\ k <= L
                BY <3>1 DEF Slots
            <4>2. pbuf'[k] = {buf[d][k] : d \in Disks} \ {Zero}
                BY <2>3, <4>1
            <4>3. OwnOf(n, {buf[d][k] : d \in Disks} \ {Zero}) = Own(n, Len(out) + k)
                BY <1>1, <3>2, <3>3, <4>1, ParityOfRound
            <4>4. QED
                BY <4>2, <4>3
        <3>5. QED
            BY <2>1, <2>3, <3>4 DEF CombinedInv
    <2>4. QED
        BY <2>1, <2>2, <2>3
<1>11. CASE slices2disk
    <2>1. CASE n = Len(Plan) \/ operationCanceled
        BY <1>2, <1>3, <1>11, <2>1 DEF slices2disk
    <2>2. CASE ~(n = Len(Plan) \/ operationCanceled)
        <3>1. plen' = 0 /\ Len(out') = 0
            BY <1>11, <2>2 DEF slices2disk
        <3>2. QED
            BY <3>1
    <2>3. QED
        BY <2>1, <2>2
<1>12. CASE \E d \in Disks : \E k \in Slots : readDone(d, k)
    <2>1. UNCHANGED <<n, pbuf, plen, want, out, genCanceled>> /\ res'[P] = res[P]
        BY <1>1, <1>12 DEF readDone
    <2>2. QED
        BY <1>2, <1>3, <2>1
<1>13. CASE writeDone
    <2> DEFINE written == [k \in 1..plen |-> pbuf[k]]
    <2>1. /\ UNCHANGED <<n, plen, want>> /\ ~genCanceled /\ res'[P] = plen
          /\ want[P] > 0 /\ res[P] = InProgress /\ out' = out \o written
        BY <1>1, <1>13 DEF writeDone, Busy, bufVars
    <2>2. Written' /\ ~Written
        BY <1>1, <2>1 DEF Written, InProgress
    <2>3. written \in [1..plen -> SUBSET Byte] /\ plen \in Nat
        BY <1>1 DEF Slots
    <2>4. /\ Len(out') = Len(out) + plen /\ Len(out) \in Nat
          /\ \A i \in 1..Len(out) : out'[i] = out[i]
          /\ \A i \in 1..plen : out'[Len(out) + i] = written[i]
        BY <1>1, <2>1, <2>3, Appended
    <2>5. ASSUME NEW k \in 1..Len(out') PROVE OwnOf(n, out'[k]) = Own(n, k)
        <3>1. CASE k <= Len(out)
            <4>1. k \in 1..Len(out)
                BY <2>4, <3>1
            <4>2. QED
                BY <2>1, <2>4, <4>1 DEF CombinedInv
        <3>2. CASE ~(k <= Len(out))
            <4>1. PICK i \in 1..plen : k = Len(out) + i
                <5>1. k - Len(out) \in 1..plen /\ k = Len(out) + (k - Len(out))
                    BY <2>3, <2>4, <3>2
                <5>2. QED
                    BY <5>1
            <4>2. out'[k] = pbuf[i]
                BY <2>4, <4>1
            <4>3. QED
                BY <2>1, <2>2, <4>1, <4>2 DEF CombinedInv
        <3>3. QED
            BY <3>1, <3>2
    <2>6. QED
        BY <2>1, <2>2, <2>5
<1>14. CASE \E i \in 1..P, k \in {-1, 0} : requestFails(i, k)
    <2>1. PICK i \in 1..P, k \in {-1, 0} : requestFails(i, k)
        BY <1>14
    <2>2. /\ UNCHANGED <<n, plen, pbuf, want, out, genCanceled>>
          /\ res[i] = InProgress /\ res' = [res EXCEPT ![i] = k]
        BY <2>1 DEF requestFails, Busy, bufVars
    <2>3. ~Written' => ~Written
        BY <1>1, <2>2 DEF Written, InProgress
    <2>4. QED
        BY <1>2, <2>2, <2>3
<1>15. QED
    BY <1>4, <1>5, <1>6, <1>7, <1>8, <1>9, <1>10, <1>11, <1>12, <1>13, <1>14
       DEF Next, Kernel, Thread, Faults

LEMMA CompleteStep ==
    PlaceInv /\ CombinedInv /\ ParityComplete /\ [Next]_vars => ParityComplete'
<1> SUFFICES ASSUME PlaceInv, CombinedInv, ParityComplete, [Next]_vars PROVE ParityComplete'
    OBVIOUS
<1>1. ASSUME saved' = saved PROVE ParityComplete'
    BY <1>1 DEF ParityComplete, Saved
<1>2. ASSUME NEW changed \in BOOLEAN, exitSliceFile(changed) PROVE ParityComplete'
    <2>1. CASE saved' = saved
        BY <1>1, <2>1
    <2>2. CASE saved' # saved
        <3>1. /\ saved' = [saved EXCEPT ![n] = [parity |-> out, hashes |-> hashes]]
              /\ ~genCanceled /\ Len(out) = SliceSize(n)
            BY <1>2, <2>2 DEF exitSliceFile
        <3>2. DOMAIN saved = 1..Len(Plan) /\ n \in 1..Len(Plan)
            BY DEF PlaceInv, TypeOK
        <3>3. ASSUME NEW m \in Saved'
              PROVE  /\ Len(saved'[m].parity) = SliceSize(m)
                     /\ \A k \in 1..SliceSize(m) :
                            {b \in saved'[m].parity[k] : b[1] = m} = Own(m, k)
            <4>1. CASE m = n
                <5>1. saved'[m].parity = out
                    BY <3>1, <3>2, <4>1
                <5>2. \A k \in 1..Len(out) : OwnOf(n, out[k]) = Own(n, k)
                    BY <3>1 DEF CombinedInv
                <5>3. QED
                    BY <3>1, <4>1, <5>1, <5>2 DEF OwnOf
            <4>2. CASE m # n
                <5>1. saved'[m] = saved[m] /\ m \in Saved
                    BY <3>1, <3>2, <4>2 DEF Saved
                <5>2. QED
                    BY <5>1 DEF ParityComplete
            <4>3. QED
                BY <4>1, <4>2
        <3>4. QED
            BY <3>3 DEF ParityComplete
    <2>3. QED
        BY <2>1, <2>2
<1>3. CASE ~\E changed \in BOOLEAN : exitSliceFile(changed)
    <2>1. saved' = saved
        BY <1>3 DEF Next, Kernel, Thread, Faults, vars, endVars, createSliceFile, skipDisk,
                    startRead, consumeRead, rejectRead, startWrite, finishWrite, rejectWrite,
                    endPass, suspend, computeParity, slices2disk, cancelAIO, requestFails,
                    intHandler, readDone, writeDone, orphanDone
    <2>2. QED
        BY <1>1, <2>1
<1>4. QED
    BY <1>2, <1>3

\* All disks in step
StepInv == TurnInv /\ LevelInv /\ BufInv /\ CombinedInv /\ ParityComplete

LEMMA StepInit == Init => StepInv
<1> SUFFICES ASSUME Init PROVE StepInv
    OBVIOUS
<1>1. n = 1 /\ 1 \in 1..Len(Plan) /\ plen = 0 /\ out = <<>> /\ pc = "round"
    BY PlanAssumption DEF Init
<1>2. TurnInv
    BY <1>1 DEF TurnInv
<1>3. LevelInv
    <2>1. Combined = 0
        BY <1>1 DEF Combined
    <2>2. ASSUME NEW d \in Disks PROVE LevelOK(n, d, disk[d], 0)
        <3>1. disk[d].got = 0 /\ disk[d].len = 0
            BY DEF Init, Fresh
        <3>2. Total(n, d) \in Nat
            BY <1>1, FreshPlace, FileBounds
        <3>3. QED
            BY <3>1, <3>2 DEF LevelOK, Lesser
    <2>3. QED
        BY <1>1, <2>1, <2>2 DEF LevelInv
<1>4. BufInv
    <2>1. \A d \in Disks : \A j \in Slots : buf[d][j] = Zero
        BY DEF Init, Cleared
    <2>2. ASSUME NEW d \in Disks PROVE BufOK(n, d, buf[d], disk[d], Received(d))
        <3>1. disk[d].len = 0 /\ Received(d) = 0
            BY PBasics DEF Init, Fresh, Received, Idle
        <3>2. \A j \in Slots : ~(j <= 0 + 0)
            BY DEF Slots
        <3>3. QED
            BY <2>1, <3>1, <3>2 DEF BufOK
    <2>3. QED
        BY <2>1, <2>2 DEF BufInv, OldBytes
<1>5. CombinedInv
    BY <1>1 DEF CombinedInv
<1>6. Saved = {}
    BY DEF Init, Saved
<1>7. QED
    BY <1>2, <1>3, <1>4, <1>5, <1>6 DEF StepInv, ParityComplete

\* However short the reads are and in whatever order the requests of a round complete,
\* byte k of a saved slice's parity combines byte k of every disk that has one, and no
\* other byte of the slice (asyncio.cpp:315, backup.cpp:966).
THEOREM ParityCompleteHolds == Spec => []ParityComplete
<1>1. Init => PlaceInv /\ StepInv
    BY PlaceInit, StepInit
<1>2. PlaceInv /\ StepInv /\ [Next]_vars => (PlaceInv /\ StepInv)'
    BY PlaceStep, TurnStep, LevelStep, BufStep, CombinedStep, CompleteStep DEF StepInv
<1>3. StepInv => ParityComplete
    BY DEF StepInv
<1>4. QED
    BY <1>1, <1>2, <1>3, PTL DEF Spec

----------------------------------------------------------------------------
(* A slice with which nothing went wrong.                                  *)

\* What no fault leaves to be found
NothingFailed ==
    /\ ~genCanceled /\ ~operationCanceled /\ skipped = {}
    /\ \A d \in Disks : want[d] > 0 => res[d] = InProgress \/ res[d] > 0
    /\ want[P] > 0 => res[P] \in {InProgress, plen}

\* The files a disk has passed have their hashes, and the one it is in is open.
PassedOK(m, d, r, H) ==
    /\ \A i \in 1..Len(Plan[m][d]) : Plan[m][d][i] > 0 /\ (i < r.seq \/ r.fin) =>
                                          \E h \in H : h[1] = d /\ h[2] = i
    /\ ~r.fin /\ r.seq # 0 => r.open

\* A file without bytes left to read is an empty one; startAIO passes every other.
StartedOK(r) == ~r.fin /\ r.left = 0 => r.hashed = 0

PassedInv == \A d \in Disks : PassedOK(n, d, disk[d], hashes) /\ StartedOK(disk[d])

\* The rounds stay within the slice, and the last one comes at its end.
EndInv ==
    /\ Combined <= SliceSize(n)
    /\ pc = "exit" => Len(out) = SliceSize(n) /\ \A d \in Disks : disk[d].got = Total(n, d)

CleanInv == NothingFailed /\ PassedInv /\ EndInv

\* Behind the end of a disk's data there are only empty files.
LEMMA EndReached ==
    ASSUME NEW m \in 1..Len(Plan), NEW d \in Disks, NEW k \in 0..Len(Plan[m][d]),
           Start(m, d, k) = Total(m, d), NEW i \in 1..Len(Plan[m][d]), k < i
    PROVE  Plan[m][d][i] = 0
<1>1. /\ Len(Plan[m][d]) \in Nat /\ i - 1 \in 0..Len(Plan[m][d]) /\ i - 1 < Len(Plan[m][d])
      /\ i \in 0..Len(Plan[m][d]) /\ k <= i - 1 /\ (i - 1) + 1 = i /\ k \in Nat
    BY Lengths
<1>2. \A j \in 1..(i - 1) : Plan[m][d][j] \in Nat
    BY <1>1, Lengths
<1>3. 1..k \in SUBSET (1..(i - 1)) /\ IsFiniteSet(1..(i - 1))
    BY <1>1, FS_Interval
<1>4. Start(m, d, k) <= Start(m, d, i - 1)
    BY <1>2, <1>3, SumSubset DEF Start
<1>5. Start(m, d, i) = Start(m, d, i - 1) + Plan[m][d][i]
    BY <1>1, Starts
<1>6. Start(m, d, i) <= Total(m, d) /\ Start(m, d, i - 1) \in Nat /\ Total(m, d) \in Nat
    BY <1>1, Starts
<1>7. Plan[m][d][i] \in Nat
    BY Lengths
<1>8. QED
    BY <1>4, <1>5, <1>6, <1>7

\* Where every disk has been read to its end every file with data has a hash.
LEMMA EveryFileHashed ==
    ASSUME PlaceInv, HashInv, PassedInv, \A d \in Disks : disk[d].got = Total(n, d),
           NEW f \in Hashed(n)
    PROVE  \E h \in hashes : h[1] = f[1] /\ h[2] = f[2]
<1>1. n \in 1..Len(Plan)
    BY DEF PlaceInv, TypeOK
<1>2. PICK d \in Disks : f \in {d} \X {i \in DOMAIN Plan[n][d] : Plan[n][d][i] > 0}
    BY DEF Hashed
<1>3. PICK i \in 1..Len(Plan[n][d]) : f = <<d, i>> /\ Plan[n][d][i] > 0
    BY <1>1, <1>2, Lengths
<1>4. /\ FileOK(n, d, disk[d]) /\ HashOK(n, d, disk[d]) /\ disk[d].got = Total(n, d)
      /\ PassedOK(n, d, disk[d], hashes) /\ StartedOK(disk[d])
    BY DEF PlaceInv, FileInv, HashInv, PassedInv
<1>5. /\ disk[d].seq \in 0..Len(Plan[n][d]) /\ disk[d].left \in Nat /\ disk[d].hashed \in Nat
      /\ disk[d].got + disk[d].left = Start(n, d, disk[d].seq)
    BY <1>4 DEF FileOK, SliceDisk
<1>6. disk[d].fin \/ i < disk[d].seq
    <2> SUFFICES ASSUME ~disk[d].fin, ~(i < disk[d].seq) PROVE FALSE
        OBVIOUS
    <2>1. /\ Start(n, d, disk[d].seq) <= Total(n, d) /\ Start(n, d, disk[d].seq) \in Nat
          /\ Total(n, d) \in Nat
        BY <1>1, <1>5, Starts
    <2>2. disk[d].left = 0 /\ Start(n, d, disk[d].seq) = Total(n, d)
        BY <1>4, <1>5, <2>1
    <2>3. Plan[n][d][i] \in Nat /\ Len(Plan[n][d]) \in Nat
        BY <1>1, Lengths
    <2>4. CASE i = disk[d].seq
        <3>1. disk[d].hashed + disk[d].left = Plan[n][d][i]
            BY <1>4, <2>4 DEF HashOK
        <3>2. disk[d].hashed = 0
            BY <1>4, <2>2 DEF StartedOK
        <3>3. QED
            BY <1>3, <2>2, <2>3, <3>1, <3>2
    <2>5. CASE i # disk[d].seq
        <3>1. disk[d].seq < i
            BY <1>5, <2>3, <2>5
        <3>2. Plan[n][d][i] = 0
            BY <1>1, <1>5, <2>2, <3>1, EndReached
        <3>3. QED
            BY <1>3, <3>2
    <2>6. QED
        BY <2>4, <2>5
<1>7. QED
    BY <1>3, <1>4, <1>6 DEF PassedOK

\* The last round: no disk had anything to give.
LEMMA LastRound ==
    ASSUME PlaceInv, LevelInv, ~genCanceled, pc = "parity", Combined <= SliceSize(n),
           LongestBuffer = 0
    PROVE  Len(out) = SliceSize(n) /\ \A d \in Disks : disk[d].got = Total(n, d)
<1>1. /\ n \in 1..Len(Plan) /\ disk \in [Disks -> SliceDisk] /\ plen = 0 /\ Len(out) \in Nat
      /\ Combined = Len(out)
    <2>1. out \in Seq(SUBSET Byte) /\ n \in 1..Len(Plan) /\ disk \in [Disks -> SliceDisk]
        BY DEF PlaceInv, TypeOK
    <2>2. Len(out) \in Nat /\ plen = 0
        BY <2>1 DEF LevelInv
    <2>3. QED
        BY <2>1, <2>2 DEF Combined
<1>2. ASSUME NEW d \in Disks PROVE disk[d].got = Total(n, d) /\ Total(n, d) <= Len(out)
    <2>1. /\ FullAt(n, d, disk[d]) /\ LevelOK(n, d, disk[d], Len(out)) /\ FileOK(n, d, disk[d])
        BY <1>1 DEF LevelInv, PlaceInv, FileInv
    <2>2. disk[d].len <= 0 /\ disk[d].len \in 0..BufSize /\ disk[d].got \in Nat
        BY <1>1, Longest DEF SliceDisk
    <2>3. disk[d].len = 0
        BY <2>2
    <2>4. disk[d].got = Total(n, d)
        BY <2>1, <2>3 DEF FullAt
    <2>5. Total(n, d) \in Nat
        BY <2>2, <2>4
    <2>6. Total(n, d) = Lesser(Len(out), Total(n, d))
        BY <2>1, <2>3, <2>4, <2>5 DEF LevelOK
    <2>7. QED
        BY <1>1, <2>4, <2>5, <2>6 DEF Lesser
<1>3. SliceSize(n) \in Nat /\ \E d \in Disks : Total(n, d) = SliceSize(n)
    BY <1>1, SizeOfSlice
<1>4. SliceSize(n) <= Len(out)
    BY <1>2, <1>3
<1>5. QED
    BY <1>1, <1>2, <1>3, <1>4

\* Any other round: the disk with the longest buffer has come no farther than the slice.
LEMMA RoundInSlice ==
    ASSUME PlaceInv, LevelInv, ~genCanceled, pc = "parity", LongestBuffer # 0
    PROVE  Len(out) + LongestBuffer <= SliceSize(n)
<1>1. /\ n \in 1..Len(Plan) /\ disk \in [Disks -> SliceDisk] /\ Len(out) \in Nat
      /\ Combined = Len(out)
    <2>1. out \in Seq(SUBSET Byte) /\ n \in 1..Len(Plan) /\ disk \in [Disks -> SliceDisk]
        BY DEF PlaceInv, TypeOK
    <2>2. Len(out) \in Nat /\ plen = 0
        BY <2>1 DEF LevelInv
    <2>3. QED
        BY <2>1, <2>2 DEF Combined
<1>2. PICK d \in Disks : disk[d].len = LongestBuffer
    BY <1>1, Longest
<1>3. FileOK(n, d, disk[d]) /\ disk[d].got - disk[d].len = Lesser(Len(out), Total(n, d))
    BY <1>1 DEF LevelInv, LevelOK, PlaceInv, FileInv
<1>4. /\ disk[d].got + disk[d].left <= Total(n, d) /\ Total(n, d) \in Nat
      /\ disk[d].got \in Nat /\ disk[d].left \in Nat /\ disk[d].len \in 0..BufSize
    BY <1>1, <1>3, FileBounds DEF FileOK, SliceDisk
<1>5. SliceSize(n) \in Nat /\ Total(n, d) <= SliceSize(n)
    BY <1>1, SizeOfSlice
<1> DEFINE t == Total(n, d)
           s == SliceSize(n)
           len == disk[d].len
           got == disk[d].got
           left == disk[d].left
           c == Len(out)
<1>6. /\ got - len = Lesser(c, t) /\ got + left <= t /\ t \in Nat /\ got \in Nat /\ left \in Nat
      /\ len \in 0..BufSize /\ len # 0 /\ s \in Nat /\ t <= s /\ c \in Nat
    BY <1>1, <1>2, <1>3, <1>4, <1>5
<1> HIDE DEF t, s, len, got, left, c
<1>7. c + len <= s
    BY <1>6 DEF Lesser
<1>8. QED
    BY <1>2, <1>7 DEF s, len, c

LEMMA NothingFailedStep ==
    PlaceInv /\ HashInv /\ LevelInv /\ CleanInv /\ (Kernel \/ Thread) => NothingFailed'
<1> SUFFICES ASSUME PlaceInv, HashInv, LevelInv, CleanInv, Kernel \/ Thread
             PROVE  NothingFailed'
    OBVIOUS
<1> USE PBasics
<1>1. /\ TypeOK /\ FileInv /\ WriteInv /\ NothingFailed /\ PassedInv /\ EndInv
      /\ want \in [1..P -> 0..BufSize] /\ plen \in 0..BufSize
      /\ res \in [1..P -> {InProgress, -1} \cup (0..BufSize)]
    BY DEF PlaceInv, TypeOK, CleanInv
<1>2. ASSUME UNCHANGED <<want, res, plen, operationCanceled, skipped>>, ~genCanceled'
      PROVE  NothingFailed'
    BY <1>1, <1>2 DEF NothingFailed
<1>3. CASE createSliceFile \/ skipDisk \/ endPass \/ suspend \/ orphanDone
    <2>1. ~genCanceled /\ ~operationCanceled
        BY <1>1 DEF NothingFailed
    <2>2. UNCHANGED <<want, res, plen, operationCanceled>>
        BY <1>3 DEF createSliceFile, skipDisk, endPass, suspend, orphanDone, aioVars, bufVars
    <2>3. skipped' = skipped
        BY <1>3, <2>1 DEF createSliceFile, skipDisk, endPass, suspend, orphanDone, endVars
    <2>4. ~genCanceled'
        <3>1. CASE suspend
            BY <2>1, <3>1 DEF suspend
        <3>2. CASE createSliceFile \/ skipDisk \/ endPass \/ orphanDone
            BY <2>1, <3>2 DEF createSliceFile, skipDisk, endPass, orphanDone
        <3>3. QED
            BY <1>3, <3>1, <3>2
    <2>5. QED
        BY <1>2, <2>2, <2>3, <2>4
<1>4. ASSUME NEW r, at \in Disks, FileOK(n, at, r), startAIO(at, r, TRUE), n' = n,
             UNCHANGED <<plen, operationCanceled, skipped>>
      PROVE  NothingFailed'
    <2>1. /\ want'[P] = want[P] /\ res'[P] = res[P] /\ res'[at] = InProgress
          /\ \A e \in Disks \ {at} : want'[e] = want[e] /\ res'[e] = res[e]
          /\ genCanceled' = ~TRUE
        BY <1>1, <1>4, StartAIOStep
    <2>2. QED
        BY <1>1, <1>4, <2>1 DEF NothingFailed
<1>5. CASE startRead(TRUE)
    <2>1. /\ startAIO(at, disk[at], TRUE) /\ at \in Disks /\ n' = n
          /\ UNCHANGED <<plen, operationCanceled, skipped>>
        BY <1>5 DEF startRead, bufVars, endVars
    <2>2. FileOK(n, at, disk[at])
        BY <1>1, <2>1 DEF FileInv
    <2>3. QED
        BY <1>4, <2>1, <2>2
<1>6. CASE consumeRead(TRUE)
    <2>1. /\ at \in Disks /\ n' = n /\ UNCHANGED <<plen, operationCanceled, skipped>>
          /\ want[at] > 0 /\ res[at] > 0
        BY <1>6 DEF consumeRead, bufVars, endVars, Done
    <2>2. startAIO(at, Counted(disk[at], res[at]), TRUE)
        BY <1>1, <1>6 DEF consumeRead, Counted, NothingFailed
    <2>3. FileOK(n, at, disk[at]) /\ ReadOK(disk[at], want[at], res[at]) /\ n \in 1..Len(Plan)
        BY <1>1, <2>1 DEF FileInv, TypeOK
    <2>4. FileOK(n, at, Counted(disk[at], res[at]))
        BY <1>1, <2>1, <2>3, CountedPlace
    <2>5. QED
        BY <1>4, <2>1, <2>2, <2>4
<1>7. CASE rejectRead
    <2>1. at \in Disks /\ want[at] > 0 /\ res[at] # InProgress /\ res[at] <= 0
        BY <1>7 DEF rejectRead, Done
    <2>2. res[at] > 0 /\ res[at] \in {InProgress, -1} \cup (0..BufSize)
        BY <1>1, <2>1 DEF NothingFailed
    <2>3. QED
        BY <2>1, <2>2 DEF InProgress
<1>8. CASE startWrite
    <2>1. /\ want'[P] = plen /\ res'[P] = InProgress
          /\ \A d \in Disks : want'[d] = want[d] /\ res'[d] = res[d]
          /\ UNCHANGED <<plen, genCanceled, operationCanceled, skipped>>
        BY <1>1, <1>8 DEF startWrite, bufVars, endVars
    <2>2. QED
        BY <1>1, <2>1 DEF NothingFailed
<1>9. CASE finishWrite
    <2>1. /\ want'[P] = 0 /\ \A d \in Disks : want'[d] = want[d] /\ res'[d] = res[d]
          /\ UNCHANGED <<genCanceled, operationCanceled, skipped>>
        BY <1>1, <1>9 DEF finishWrite, endVars
    <2>2. QED
        BY <1>1, <2>1 DEF NothingFailed
<1>10. CASE rejectWrite
    BY <1>1, <1>10 DEF rejectWrite, Done, NothingFailed
<1>11. CASE \E K \in SUBSET (1..P) : cancelAIO(K)
    BY <1>1, <1>11 DEF cancelAIO, NothingFailed
<1>12. CASE computeParity
    <2>1. pc = "parity" /\ ~genCanceled /\ ~operationCanceled
        BY <1>1, <1>12 DEF computeParity, NothingFailed
    <2>2. UNCHANGED <<want, res, operationCanceled, skipped>>
        BY <1>12 DEF computeParity, aioVars, endVars
    <2>3. \A i \in 1..P : want[i] = 0
        BY <1>1, <2>1 DEF WriteInv, Idle
    <2>4. LongestBuffer = 0 => Len(out) = SliceSize(n)
        BY <1>1, <2>1, LastRound DEF EndInv
    <2>5. ~genCanceled'
        BY <1>12, <2>1, <2>4 DEF computeParity
    <2>6. QED
        BY <1>1, <2>2, <2>3, <2>5 DEF NothingFailed
<1>13. CASE exitSliceFile(FALSE)
    <2>1. pc = "exit" /\ ~genCanceled /\ ~operationCanceled
        BY <1>1, <1>13 DEF exitSliceFile, NothingFailed
    <2>2. Len(out) = SliceSize(n) /\ \A d \in Disks : disk[d].got = Total(n, d)
        BY <1>1, <2>1 DEF EndInv
    <2>3. \A f \in Hashed(n) : \E h \in hashes : h[1] = f[1] /\ h[2] = f[2]
        BY <1>1, <2>2, EveryFileHashed
    <2>4. UNCHANGED <<want, res, plen, genCanceled, operationCanceled, skipped>>
        BY <1>13, <2>1, <2>2, <2>3 DEF exitSliceFile, aioVars, bufVars
    <2>5. QED
        BY <1>2, <2>1, <2>4
<1>14. CASE slices2disk
    <2>1. /\ UNCHANGED <<res, operationCanceled, skipped>> /\ ~genCanceled'
          /\ want' = Idle \/ UNCHANGED <<want, plen>>
        BY <1>1, <1>14 DEF slices2disk, endVars, NothingFailed
    <2>2. CASE want' = Idle
        <3>1. \A i \in 1..P : want'[i] = 0
            BY <2>2 DEF Idle
        <3>2. QED
            BY <1>1, <2>1, <3>1 DEF NothingFailed
    <2>3. CASE UNCHANGED <<want, plen>>
        BY <1>2, <2>1, <2>3
    <2>4. QED
        BY <2>1, <2>2, <2>3
<1>15. ASSUME NEW d \in Disks, NEW k \in Slots, readDone(d, k) PROVE NothingFailed'
    <2>1. /\ UNCHANGED <<want, plen, genCanceled, operationCanceled, skipped>>
          /\ res'[d] = k /\ \A i \in 1..P : i # d => res'[i] = res[i]
        BY <1>1, <1>15 DEF readDone, endVars
    <2>2. k > 0 /\ P # d
        BY DEF Slots
    <2>3. QED
        BY <1>1, <2>1, <2>2 DEF NothingFailed
<1>16. CASE writeDone
    <2>1. /\ UNCHANGED <<want, plen, genCanceled, operationCanceled, skipped>>
          /\ res'[P] = plen /\ \A d \in Disks : res'[d] = res[d]
        BY <1>1, <1>16 DEF writeDone, bufVars, endVars
    <2>2. QED
        BY <1>1, <2>1 DEF NothingFailed
<1>17. QED
    BY <1>3, <1>5, <1>6, <1>7, <1>8, <1>9, <1>10, <1>11, <1>12, <1>13, <1>14, <1>15, <1>16
       DEF Kernel, Thread

\* startAIO takes the hash of the file it leaves.
LEMMA StartAIOPassed ==
    ASSUME n \in 1..Len(Plan), NEW d \in Disks, NEW r, FileOK(n, d, r), HashOK(n, d, r),
           PassedOK(n, d, r, hashes), NEW q,
           q = IF NeedsFile(r) THEN openNextFile(d, r, TRUE) ELSE r, NEW H,
           H = IF NeedsFile(r) THEN hashes \cup storeHash(d, r) ELSE hashes
    PROVE  PassedOK(n, d, q, H) /\ StartedOK(q)
<1>1. /\ r \in SliceDisk /\ r.seq \in 0..Len(Plan[n][d]) /\ r.hashed \in Nat
      /\ Len(Plan[n][d]) \in Nat
    BY Lengths, Fields DEF FileOK
<1>2. CASE ~NeedsFile(r)
    BY <1>2 DEF NeedsFile, StartedOK
<1>3. ASSUME NeedsFile(r), NEW i \in 1..Len(Plan[n][d]), Plan[n][d][i] > 0, i <= r.seq
      PROVE  \E h \in H : h[1] = d /\ h[2] = i
    <2>1. CASE i < r.seq
        BY <1>3, <2>1 DEF PassedOK
    <2>2. CASE i = r.seq
        <3>1. ~r.fin /\ r.left = 0 /\ r.seq # 0
            BY <1>1, <1>3, <2>2 DEF NeedsFile
        <3>2. r.open /\ r.hashed + 0 = Plan[n][d][i]
            BY <2>2, <3>1 DEF PassedOK, HashOK
        <3>3. r.hashed > 0
            BY <1>1, <1>3, <3>2
        <3>4. <<d, r.seq, r.hashed>> \in H
            BY <1>3, <3>2, <3>3 DEF storeHash
        <3>5. QED
            BY <2>2, <3>4
    <2>3. QED
        BY <1>1, <1>3, <2>1, <2>2
<1>4. CASE NeedsFile(r) /\ HasFile(d, r)
    <2>1. q.seq = r.seq + 1 /\ q.hashed = 0 /\ q.open = TRUE /\ q.fin = r.fin /\ ~r.fin
        BY <1>1, <1>4, NextFile DEF NeedsFile
    <2>2. ASSUME NEW i \in 1..Len(Plan[n][d]), i < r.seq + 1 PROVE i <= r.seq
        <3>1. i \in Nat /\ r.seq \in Nat
            BY <1>1
        <3>2. QED
            BY <2>2, <3>1
    <2>3. ASSUME NEW i \in 1..Len(Plan[n][d]), Plan[n][d][i] > 0, i < q.seq \/ q.fin
          PROVE  \E h \in H : h[1] = d /\ h[2] = i
        <3>1. i < r.seq + 1
            BY <2>1, <2>3
        <3>2. QED
            BY <1>3, <1>4, <2>2, <2>3, <3>1
    <2>4. PassedOK(n, d, q, H)
        BY <2>1, <2>3 DEF PassedOK
    <2>5. StartedOK(q)
        BY <2>1 DEF StartedOK
    <2>6. QED
        BY <2>4, <2>5
<1>5. CASE NeedsFile(r) /\ ~HasFile(d, r)
    <2>1. q.fin = TRUE
        BY <1>1, <1>5 DEF openNextFile, SliceDisk
    <2>2. \A i \in 1..Len(Plan[n][d]) : i <= r.seq
        BY <1>1, <1>5 DEF HasFile, Sizes
    <2>3. ASSUME NEW i \in 1..Len(Plan[n][d]), Plan[n][d][i] > 0
          PROVE  \E h \in H : h[1] = d /\ h[2] = i
        BY <1>3, <1>5, <2>2, <2>3
    <2>4. QED
        BY <2>1, <2>3 DEF PassedOK, StartedOK
<1>6. QED
    BY <1>2, <1>4, <1>5

LEMMA PassedStep ==
    PlaceInv /\ HashInv /\ CleanInv /\ (Kernel \/ Thread) => PassedInv'
<1> SUFFICES ASSUME PlaceInv, HashInv, CleanInv, Kernel \/ Thread PROVE PassedInv'
    OBVIOUS
<1> USE PBasics
<1>1. /\ FileInv /\ NothingFailed /\ PassedInv /\ n \in 1..Len(Plan)
      /\ disk \in [Disks -> SliceDisk] /\ want \in [1..P -> 0..BufSize]
      /\ res \in [1..P -> {InProgress, -1} \cup (0..BufSize)]
    BY DEF PlaceInv, TypeOK, CleanInv
<1>2. ASSUME UNCHANGED <<n, disk, hashes>> PROVE PassedInv'
    BY <1>1, <1>2 DEF PassedInv, PassedOK, StartedOK
<1>3. ASSUME NEW r, at \in Disks, FileOK(n, at, r), HashOK(n, at, r),
             PassedOK(n, at, r, hashes), startAIO(at, r, TRUE), n' = n
      PROVE  PassedInv'
    <2> DEFINE q == IF NeedsFile(r) THEN openNextFile(at, r, TRUE) ELSE r
               H == IF NeedsFile(r) THEN hashes \cup storeHash(at, r) ELSE hashes
    <2>1. PassedOK(n, at, q, H) /\ StartedOK(q)
        BY <1>1, <1>3, StartAIOPassed
    <2>2. disk' = [disk EXCEPT ![at] = q] /\ hashes' = H /\ hashes \subseteq H
        BY <1>3 DEF startAIO
    <2> HIDE DEF q, H
    <2>3. ASSUME NEW d \in Disks PROVE PassedOK(n, d, disk'[d], hashes') /\ StartedOK(disk'[d])
        <3>1. CASE d = at
            BY <1>1, <2>1, <2>2, <3>1
        <3>2. CASE d # at
            <4>1. disk'[d] = disk[d] /\ PassedOK(n, d, disk[d], hashes) /\ StartedOK(disk[d])
                BY <1>1, <2>2, <3>2 DEF PassedInv
            <4>2. QED
                BY <2>2, <4>1 DEF PassedOK
        <3>3. QED
            BY <3>1, <3>2
    <2>4. QED
        BY <1>3, <2>3 DEF PassedInv
<1>4. CASE startRead(TRUE)
    <2>1. startAIO(at, disk[at], TRUE) /\ at \in Disks /\ n' = n
        BY <1>4 DEF startRead
    <2>2. FileOK(n, at, disk[at]) /\ HashOK(n, at, disk[at]) /\ PassedOK(n, at, disk[at], hashes)
        BY <1>1, <2>1 DEF FileInv, HashInv, PassedInv
    <2>3. QED
        BY <1>3, <2>1, <2>2
<1>5. CASE consumeRead(TRUE)
    <2> DEFINE r == Counted(disk[at], res[at])
    <2>1. at \in Disks /\ n' = n /\ want[at] > 0 /\ res[at] > 0
        BY <1>5 DEF consumeRead, Done
    <2>2. startAIO(at, r, TRUE)
        BY <1>1, <1>5 DEF consumeRead, Counted, NothingFailed
    <2>3. /\ FileOK(n, at, disk[at]) /\ ReadOK(disk[at], want[at], res[at])
          /\ HashOK(n, at, disk[at]) /\ PassedOK(n, at, disk[at], hashes)
        BY <1>1, <2>1 DEF FileInv, HashInv, PassedInv
    <2>4. /\ FileOK(n, at, r) /\ r.left = disk[at].left - res[at]
          /\ r.hashed = disk[at].hashed + res[at] /\ r.seq = disk[at].seq
          /\ r.fin = disk[at].fin /\ r.open = disk[at].open
        BY <1>1, <2>1, <2>3, CountedPlace
    <2>5. HashOK(n, at, r) /\ PassedOK(n, at, r, hashes)
        <3>1. HashOK(n, at, r)
            BY <1>1, <2>1, <2>3, CountedHash
        <3>2. PassedOK(n, at, r, hashes)
            BY <2>3, <2>4 DEF PassedOK
        <3>3. QED
            BY <3>1, <3>2
    <2>6. QED
        BY <1>3, <2>1, <2>2, <2>4, <2>5
<1>6. CASE computeParity
    <2>1. /\ n' = n /\ hashes' = hashes
          /\ disk' = disk \/ disk' = [d \in Disks |-> Emptied(disk[d])]
        BY <1>6 DEF computeParity, Emptied
    <2>2. ASSUME NEW d \in Disks PROVE PassedOK(n, d, disk'[d], hashes) /\ StartedOK(disk'[d])
        <3>1. FileOK(n, d, disk[d]) /\ PassedOK(n, d, disk[d], hashes) /\ StartedOK(disk[d])
            BY <1>1 DEF FileInv, PassedInv
        <3>2. PassedOK(n, d, Emptied(disk[d]), hashes) /\ StartedOK(Emptied(disk[d]))
            BY <1>1, <3>1, EmptiedPlace DEF PassedOK, StartedOK
        <3>3. QED
            BY <2>1, <3>1, <3>2
    <2>3. QED
        BY <2>1, <2>2 DEF PassedInv
<1>7. CASE slices2disk
    <2>1. CASE n = Len(Plan) \/ operationCanceled
        BY <1>2, <1>7, <2>1 DEF slices2disk
    <2>2. CASE ~(n = Len(Plan) \/ operationCanceled)
        <3>1. disk' = [d \in Disks |-> Fresh] /\ n' = n + 1 /\ n' \in 1..Len(Plan)
            BY <1>1, <1>7, <2>2, PlanAssumption DEF slices2disk
        <3>2. ASSUME NEW d \in Disks PROVE PassedOK(n', d, Fresh, hashes') /\ StartedOK(Fresh)
            <4>1. \A i \in 1..Len(Plan[n'][d]) : ~(i < Fresh.seq \/ Fresh.fin)
                BY <3>1, Lengths DEF Fresh
            <4>2. QED
                BY <4>1 DEF PassedOK, StartedOK, Fresh
        <3>3. QED
            BY <3>1, <3>2 DEF PassedInv
    <2>3. QED
        BY <2>1, <2>2
<1>8. CASE createSliceFile \/ skipDisk \/ rejectRead \/ startWrite \/ finishWrite \/ rejectWrite
           \/ endPass \/ suspend \/ exitSliceFile(FALSE) \/ writeDone \/ orphanDone
    BY <1>2, <1>8 DEF createSliceFile, skipDisk, rejectRead, startWrite, finishWrite, rejectWrite,
                      endPass, suspend, exitSliceFile, writeDone, orphanDone, diskVars
<1>9. CASE \/ \E d \in Disks : \E k \in Slots : readDone(d, k)
           \/ \E K \in SUBSET (1..P) : cancelAIO(K)
    BY <1>2, <1>9 DEF readDone, cancelAIO, diskVars
<1>10. QED
    BY <1>4, <1>5, <1>6, <1>7, <1>8, <1>9 DEF Kernel, Thread

LEMMA EndStep == PlaceInv /\ LevelInv /\ CleanInv /\ (Kernel \/ Thread) => EndInv'
<1> SUFFICES ASSUME PlaceInv, LevelInv, CleanInv, Kernel \/ Thread PROVE EndInv'
    OBVIOUS
<1> USE PBasics
<1>1. /\ TypeOK /\ FileInv /\ WriteInv /\ NothingFailed /\ EndInv /\ n \in 1..Len(Plan)
      /\ want \in [1..P -> 0..BufSize] /\ plen \in 0..BufSize
      /\ res \in [1..P -> {InProgress, -1} \cup (0..BufSize)]
      /\ out \in Seq(SUBSET Byte) /\ Len(out) \in Nat
    <2>1. out \in Seq(SUBSET Byte)
        BY DEF PlaceInv, TypeOK
    <2>2. Len(out) \in Nat
        BY <2>1
    <2>3. QED
        BY <2>1, <2>2 DEF PlaceInv, TypeOK, CleanInv
<1>2. ASSUME n' = n, Combined' = Combined, pc' # "exit" PROVE EndInv'
    BY <1>1, <1>2 DEF EndInv, SliceSize, Total
<1>3. ASSUME UNCHANGED <<out, plen>>, want'[P] = want[P], res'[P] = res[P]
      PROVE  Combined' = Combined
    BY <1>3 DEF Combined, Written
<1>4. CASE createSliceFile \/ skipDisk \/ endPass \/ suspend \/ exitSliceFile(FALSE)
    <2>1. UNCHANGED <<n, out, plen, want, res>>
        BY <1>4 DEF createSliceFile, skipDisk, endPass, suspend, exitSliceFile, bufVars, aioVars
    <2>2. pc' # "exit"
        BY <1>4 DEF createSliceFile, skipDisk, endPass, suspend, exitSliceFile, AfterPass
    <2>3. QED
        BY <1>2, <1>3, <2>1, <2>2
<1>5. ASSUME NEW r, at \in Disks, FileOK(n, at, r), startAIO(at, r, TRUE), n' = n,
             UNCHANGED <<out, plen>>, pc' # "exit"
      PROVE  EndInv'
    <2>1. want'[P] = want[P] /\ res'[P] = res[P]
        BY <1>1, <1>5, StartAIOStep
    <2>2. QED
        BY <1>2, <1>3, <1>5, <2>1
<1>6. CASE startRead(TRUE)
    <2>1. /\ startAIO(at, disk[at], TRUE) /\ at \in Disks /\ n' = n /\ pc' # "exit"
          /\ UNCHANGED <<out, plen>>
        BY <1>6 DEF startRead, bufVars
    <2>2. FileOK(n, at, disk[at])
        BY <1>1, <2>1 DEF FileInv
    <2>3. QED
        BY <1>5, <2>1, <2>2
<1>7. CASE consumeRead(TRUE)
    <2>1. /\ at \in Disks /\ n' = n /\ UNCHANGED <<out, plen>> /\ pc' # "exit"
          /\ want[at] > 0 /\ res[at] > 0
        BY <1>7 DEF consumeRead, bufVars, Done
    <2>2. startAIO(at, Counted(disk[at], res[at]), TRUE)
        BY <1>1, <1>7 DEF consumeRead, Counted, NothingFailed
    <2>3. FileOK(n, at, disk[at]) /\ ReadOK(disk[at], want[at], res[at])
        BY <1>1, <2>1 DEF FileInv
    <2>4. FileOK(n, at, Counted(disk[at], res[at]))
        BY <1>1, <2>1, <2>3, CountedPlace
    <2>5. QED
        BY <1>5, <2>1, <2>2, <2>4
<1>8. CASE rejectRead
    <2>1. at \in Disks /\ want[at] > 0 /\ res[at] # InProgress /\ res[at] <= 0
        BY <1>8 DEF rejectRead, Done
    <2>2. res[at] > 0 /\ res[at] \in {InProgress, -1} \cup (0..BufSize)
        BY <1>1, <2>1 DEF NothingFailed
    <2>3. QED
        BY <2>1, <2>2 DEF InProgress
<1>9. CASE startWrite
    <2>1. UNCHANGED <<n, out, plen>> /\ want[P] = 0 /\ res'[P] = InProgress /\ pc' # "exit"
        BY <1>1, <1>9 DEF startWrite, bufVars
    <2>2. Combined' = Combined
        BY <1>1, <2>1 DEF Combined, Written, InProgress
    <2>3. QED
        BY <1>2, <2>1, <2>2
<1>10. CASE finishWrite
    <2>1. /\ UNCHANGED <<n, out>> /\ want[P] > 0 /\ res[P] = plen /\ plen' = 0 /\ pc' # "exit"
        BY <1>10 DEF finishWrite, Done
    <2>2. Combined' = Combined
        BY <1>1, <2>1 DEF Combined, Written
    <2>3. QED
        BY <1>2, <2>1, <2>2
<1>11. CASE rejectWrite \/ \E K \in SUBSET (1..P) : cancelAIO(K)
    BY <1>1, <1>11 DEF rejectWrite, cancelAIO, Done, NothingFailed
<1>12. CASE computeParity
    <2>1. /\ pc = "parity" /\ ~genCanceled /\ ~operationCanceled
          /\ UNCHANGED <<n, out, want, res>>
        BY <1>1, <1>12 DEF computeParity, NothingFailed, aioVars
    <2>2. plen = 0 /\ want[P] = 0 /\ Combined = Len(out) /\ Combined <= SliceSize(n)
        BY <1>1, <2>1 DEF LevelInv, WriteInv, Idle, Combined, Written, EndInv
    <2>3. CASE LongestBuffer = 0
        <3>1. pc' = "exit" /\ UNCHANGED <<disk, plen>>
            BY <1>12, <2>1, <2>3 DEF computeParity, bufVars
        <3>2. Len(out) = SliceSize(n) /\ \A d \in Disks : disk[d].got = Total(n, d)
            BY <2>1, <2>2, <2>3, LastRound
        <3>3. Combined' = Combined
            BY <1>3, <2>1, <3>1
        <3>4. QED
            BY <2>1, <2>2, <3>1, <3>2, <3>3 DEF EndInv, SliceSize, Total
    <2>4. CASE LongestBuffer # 0
        <3>1. pc' = "round" /\ plen' = LongestBuffer
            BY <1>12, <2>1, <2>4 DEF computeParity
        <3>2. Len(out) + LongestBuffer <= SliceSize(n)
            BY <2>1, <2>4, RoundInSlice
        <3>3. Combined' = Len(out) + LongestBuffer
            BY <1>1, <2>1, <2>2, <3>1 DEF Combined, Written
        <3>4. QED
            BY <2>1, <3>1, <3>2, <3>3 DEF EndInv, SliceSize, Total
    <2>5. QED
        BY <2>3, <2>4
<1>13. CASE slices2disk
    <2>1. CASE n = Len(Plan) \/ operationCanceled
        <3>1. UNCHANGED <<n, out, plen, want, res>> /\ pc' # "exit"
            BY <1>13, <2>1 DEF slices2disk
        <3>2. QED
            BY <1>2, <1>3, <3>1
    <2>2. CASE ~(n = Len(Plan) \/ operationCanceled)
        <3>1. /\ n' = n + 1 /\ n' \in 1..Len(Plan) /\ pc' # "exit" /\ out' = <<>> /\ plen' = 0
            BY <1>1, <1>13, <2>2, PlanAssumption DEF slices2disk
        <3>2. Combined' = 0
            BY <3>1 DEF Combined, Written
        <3>3. SliceSize(n') \in Nat
            BY <3>1, SizeOfSlice
        <3>4. 0 <= SliceSize(n')
            BY <3>3
        <3>5. QED
            BY <3>1, <3>2, <3>4 DEF EndInv, SliceSize, Total
    <2>3. QED
        BY <2>1, <2>2
<1>14. ASSUME UNCHANGED <<n, pc, disk>>, Combined' = Combined,
              pc = "exit" => UNCHANGED out
       PROVE  EndInv'
    BY <1>1, <1>14 DEF EndInv, SliceSize, Total
<1>15. ASSUME NEW d \in Disks, NEW k \in Slots, readDone(d, k) PROVE EndInv'
    <2>1. UNCHANGED <<n, pc, disk, out, plen, want>> /\ res'[P] = res[P]
        BY <1>1, <1>15 DEF readDone, diskVars
    <2>2. QED
        BY <1>3, <1>14, <2>1
<1>16. CASE writeDone
    <2>1. /\ UNCHANGED <<n, pc, disk, plen, want>> /\ res'[P] = plen
          /\ want[P] > 0 /\ res[P] = InProgress /\ out' = out \o [k \in 1..plen |-> pbuf[k]]
        BY <1>1, <1>16 DEF writeDone, Busy, diskVars, bufVars
    <2>2. Len(out') = Len(out) + plen
        <3>1. [k \in 1..plen |-> pbuf[k]] \in [1..plen -> SUBSET Byte]
            BY <1>1 DEF TypeOK, Slots
        <3>2. QED
            BY <1>1, <2>1, <3>1, Appended
    <2>3. Combined' = Combined
        BY <1>1, <2>1, <2>2 DEF Combined, Written, InProgress
    <2>4. pc # "exit"
        BY <1>1, <2>1 DEF WriteInv, Idle
    <2>5. QED
        BY <1>14, <2>1, <2>3, <2>4
<1>17. CASE orphanDone
    <2>1. UNCHANGED <<pc, n, disk, plen, want, res, out>>
        BY <1>17 DEF orphanDone, diskVars, bufVars
    <2>2. QED
        BY <1>3, <1>14, <2>1
<1>18. QED
    BY <1>4, <1>6, <1>7, <1>8, <1>9, <1>10, <1>11, <1>12, <1>13, <1>15, <1>16, <1>17
       DEF Kernel, Thread

\* A run without faults
CleanRun == faults \in Nat /\ (faults = 0 => CleanInv)

LEMMA CleanInit == FaultyInit => CleanRun
<1> SUFFICES ASSUME FaultyInit PROVE CleanInv
    BY DEF FaultyInit, CleanRun
<1>1. Init /\ n = 1 /\ 1 \in 1..Len(Plan) /\ pc = "round" /\ out = <<>> /\ plen = 0
    BY PlanAssumption DEF FaultyInit, Init
<1>2. NothingFailed
    BY <1>1, PBasics DEF Init, Idle, NothingFailed
<1>3. PassedInv
    <2>1. ASSUME NEW d \in Disks PROVE PassedOK(n, d, disk[d], hashes) /\ StartedOK(disk[d])
        <3>1. disk[d] = Fresh
            BY <1>1 DEF Init
        <3>2. \A i \in 1..Len(Plan[n][d]) : ~(i < Fresh.seq \/ Fresh.fin)
            BY <1>1, Lengths DEF Fresh
        <3>3. QED
            BY <3>1, <3>2 DEF PassedOK, StartedOK, Fresh
    <2>2. QED
        BY <2>1 DEF PassedInv
<1>4. EndInv
    <2>1. Combined = 0 /\ SliceSize(n) \in Nat
        BY <1>1, SizeOfSlice DEF Combined, Written
    <2>2. 0 <= SliceSize(n)
        BY <2>1
    <2>3. QED
        BY <1>1, <2>1, <2>2 DEF EndInv
<1>5. QED
    BY <1>2, <1>3, <1>4 DEF CleanInv

LEMMA CleanStep ==
    PlaceInv /\ HashInv /\ LevelInv /\ CleanRun /\ [FaultyNext]_faultyVars => CleanRun'
<1> SUFFICES ASSUME PlaceInv, HashInv, LevelInv, CleanRun, [FaultyNext]_faultyVars
             PROVE  CleanRun'
    OBVIOUS
<1>1. CASE (Kernel \/ Thread) /\ UNCHANGED faults
    <2>1. faults = 0 => CleanInv'
        BY <1>1, NothingFailedStep, PassedStep, EndStep DEF CleanRun, CleanInv
    <2>2. QED
        BY <1>1, <2>1 DEF CleanRun
<1>2. CASE faults' = faults + 1
    BY <1>2 DEF CleanRun
<1>3. CASE UNCHANGED faultyVars
    <2>1. CleanInv => CleanInv'
        BY <1>3 DEF faultyVars, vars, CleanInv, NothingFailed, PassedInv, PassedOK, StartedOK,
                    EndInv, Combined, Written, SliceSize, Total
    <2>2. QED
        BY <1>3, <2>1 DEF CleanRun, faultyVars
<1>4. QED
    BY <1>1, <1>2, <1>3 DEF FaultyNext

\* None of the checks on the way (bytes2transfer at the end, size of the file before the
\* tail, a hash for every file) gives up a slice with which nothing went wrong.
THEOREM NoFalseSkipHolds == FaultySpec => []NoFalseSkip
<1>1. FaultyInit => PlaceInv /\ HashInv /\ StepInv /\ CleanRun
    BY PlaceInit, HashInit, StepInit, CleanInit DEF FaultyInit
<1>2. PlaceInv /\ HashInv /\ StepInv /\ CleanRun /\ [FaultyNext]_faultyVars
          => (PlaceInv /\ HashInv /\ StepInv /\ CleanRun)'
    <2>1. [FaultyNext]_faultyVars => [Next]_vars
        BY DEF FaultyNext, faultyVars, Next
    <2>2. QED
        BY <2>1, PlaceStep, HashStep, TurnStep, LevelStep, BufStep, CombinedStep, CompleteStep,
           CleanStep DEF StepInv
<1>3. CleanRun => NoFalseSkip
    BY DEF CleanRun, CleanInv, NothingFailed, NoFalseSkip
<1>4. QED
    BY <1>1, <1>2, <1>3, PTL DEF FaultySpec
=============================================================================

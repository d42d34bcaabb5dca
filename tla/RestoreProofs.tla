--------------------------- MODULE RestoreProofs ---------------------------
(***************************************************************************)
(* Whatever happens to a restoring thread, what it leaves at the           *)
(* destination is exact.  The files of slpos may lie anywhere in the slice *)
(* and the buffers may hold anything: the proof is about the work file,    *)
(* which has just the bytes that were hashed.  Behind it: what is counted  *)
(* is what was restored, no file to restore goes uncounted, and the types. *)
(***************************************************************************)
EXTENDS Restore, SumTheorems

USE DisksAssumption, BufSizeAssumption

----------------------------------------------------------------------------
(* Sequences of anything.                                                  *)

IsSeq(s) == \E S : s \in Seq(S)

LEMMA Mapped ==
    ASSUME NEW k \in Nat, NEW f, f = [j \in 1..k |-> f[j]]
    PROVE  IsSeq(f) /\ Len(f) = k
<1> DEFINE S == {f[j] : j \in 1..k}
<1>1. f \in [1..k -> S]
    OBVIOUS
<1> HIDE DEF S
<1>2. f \in Seq(S) /\ Len(f) = k
    BY <1>1
<1>3. QED
    BY <1>2 DEF IsSeq

LEMMA OneSet ==
    ASSUME NEW s, NEW t, IsSeq(s), IsSeq(t)
    PROVE  \E S : s \in Seq(S) /\ t \in Seq(S)
<1>1. PICK A : s \in Seq(A)
    BY DEF IsSeq
<1>2. PICK B : t \in Seq(B)
    BY DEF IsSeq
<1>3. s \in Seq(A \cup B)
    BY <1>1
<1>4. t \in Seq(A \cup B)
    BY <1>2
<1>5. QED
    BY <1>3, <1>4

LEMMA Joined ==
    ASSUME NEW s, NEW t, IsSeq(s), IsSeq(t)
    PROVE  /\ IsSeq(s \o t) /\ Len(s \o t) = Len(s) + Len(t)
           /\ \A k \in 1..Len(s) : (s \o t)[k] = s[k]
           /\ \A k \in 1..Len(t) : (s \o t)[Len(s) + k] = t[k]
<1>1. PICK S : s \in Seq(S) /\ t \in Seq(S)
    BY OneSet
<1>2. s \o t \in Seq(S)
    BY <1>1
<1>3. Len(s \o t) = Len(s) + Len(t)
    BY <1>1
<1>4. \A k \in 1..Len(s) : (s \o t)[k] = s[k]
    BY <1>1
<1>5. \A k \in 1..Len(t) : (s \o t)[Len(s) + k] = t[k]
    BY <1>1
<1>6. QED
    BY <1>2, <1>3, <1>4, <1>5 DEF IsSeq

LEMMA SeqLen == ASSUME NEW s, IsSeq(s) PROVE Len(s) \in Nat
BY DEF IsSeq

LEMMA SameSeq ==
    ASSUME NEW s, NEW t, IsSeq(s), IsSeq(t), Len(s) = Len(t), \A k \in 1..Len(s) : s[k] = t[k]
    PROVE  s = t
<1>1. PICK S : s \in Seq(S) /\ t \in Seq(S)
    BY OneSet
<1>2. QED
    BY <1>1

LEMMA EmptySeq == IsSeq(<<>>) /\ Len(<<>>) = 0
<1>1. <<>> \in Seq({})
    OBVIOUS
<1>2. QED
    BY <1>1 DEF IsSeq

\* The start of a buffer
LEMMA Cut ==
    ASSUME NEW b, b = [j \in Slots |-> b[j]], NEW k \in 0..BufSize
    PROVE  /\ IsSeq(SubSeq(b, 1, k)) /\ Len(SubSeq(b, 1, k)) = k
           /\ \A j \in 1..k : SubSeq(b, 1, k)[j] = b[j]
<1> DEFINE S == {b[j] : j \in Slots}
<1>1. BufSize \in Nat /\ b \in [1..BufSize -> S]
    BY DEF Slots
<1> HIDE DEF S
<1>2. b \in Seq(S) /\ Len(b) = BufSize
    BY <1>1
<1>3. /\ SubSeq(b, 1, k) \in Seq(S) /\ Len(SubSeq(b, 1, k)) = k
      /\ \A j \in 1..k : SubSeq(b, 1, k)[j] = b[j]
    BY <1>2
<1>4. QED
    BY <1>3 DEF IsSeq

\* A write behind the first off bytes of a file
LEMMA Written ==
    ASSUME NEW f, IsSeq(f), NEW s, IsSeq(s), NEW off \in Nat, off <= Len(f)
    PROVE  /\ IsSeq(pwrite(f, off, s))
           /\ Len(pwrite(f, off, s)) = IF Len(f) > off + Len(s) THEN Len(f) ELSE off + Len(s)
           /\ \A k \in 1..off : pwrite(f, off, s)[k] = f[k]
           /\ \A k \in 1..Len(s) : pwrite(f, off, s)[off + k] = s[k]
<1> DEFINE m == IF Len(f) > off + Len(s) THEN Len(f) ELSE off + Len(s)
           e(k) == IF k > off /\ k <= off + Len(s) THEN s[k - off] ELSE IF k <= Len(f) THEN f[k] ELSE {}
           g == [k \in 1..m |-> e(k)]
<1>1. Len(f) \in Nat /\ Len(s) \in Nat /\ m \in Nat /\ off + Len(s) <= m /\ Len(f) <= m
    BY SeqLen
<1>2. g = pwrite(f, off, s)
    BY DEF pwrite
<1>3. g = [k \in 1..m |-> g[k]]
    OBVIOUS
<1>4. ASSUME NEW k \in 1..off PROVE g[k] = f[k]
    BY <1>1
<1>5. ASSUME NEW k \in 1..Len(s) PROVE g[off + k] = s[k]
    <2>1. off + k \in 1..m /\ off + k > off /\ off + k <= off + Len(s) /\ (off + k) - off = k
        BY <1>1
    <2>2. g[off + k] = s[(off + k) - off]
        BY <2>1
    <2>3. QED
        BY <2>1, <2>2
<1> HIDE DEF m, g
<1>6. IsSeq(g) /\ Len(g) = m
    BY <1>1, <1>3, Mapped
<1>7. QED
    BY <1>2, <1>4, <1>5, <1>6 DEF m

----------------------------------------------------------------------------
(* The inductive invariant.                                                *)

\* Every disk has a descriptor, a buffer and a control block, and no read is for more than its
\* buffer has room for.
TypeInv ==
    /\ pc \in {"next", "round", "target", "file", "empty", "pass", "suspend", "after", "done"}
    /\ n \in 0..Len(Plan) /\ (pc \notin {"next", "done"} => n # 0)
    /\ at \in 0..(P + 1) /\ (pc \in {"file", "empty"} => at = 1)
    /\ at = 0 /\ pc = "pass" => genCanceled
    /\ sd \in [1..P -> Record] /\ window \in [start : Nat, size : Nat]
    /\ buf = [i \in 1..P |-> buf[i]] /\ \A i \in 1..P : buf[i] = [k \in Slots |-> buf[i][k]]
    /\ IsSeq(work) /\ IsSeq(hashed)
    /\ want \in [1..P -> Int] /\ res \in [1..P -> Int]
    /\ \A i \in Readers : /\ want[i] <= BufSize - sd[i].len
                          /\ want[i] > 0 => res[i] <= want[i]
    /\ genCanceled \in BOOLEAN /\ operationCanceled \in BOOLEAN

\* restoreFromSlice has a target file, or one it gave up half-way
HasTarget == sd[T].open \/ sd[T].size > 0

\* Where a write to the work file may be under way, and what it writes
WriteInv ==
    /\ want[T] \in {0, sd[T].len}
    /\ want[T] # 0 => HasTarget /\ pc \in {"target", "pass", "suspend"}
    /\ want[T] # 0 /\ ~sd[T].open => res[T] \in {InProgress, -1}
    /\ pc = "pass" /\ at \in 1..T => HasTarget
    /\ pc = "pass" /\ at > T /\ ~genCanceled => sd[T].len = 0 \/ want[T] # 0
    /\ pc = "after" /\ ~genCanceled => sd[T].len = 0
    /\ pc \notin {"next", "done"} => ~sd[T].fin

\* The work file begins with what was hashed and has nothing behind what is being written
WorkInv ==
    sd[T].open =>
        /\ Len(hashed) = sd[T].off /\ sd[T].off <= Len(work) /\ Len(work) <= sd[T].off + sd[T].len
        /\ \A k \in 1..sd[T].off : work[k] = hashed[k]
        /\ want[T] # 0 /\ res[T] = sd[T].len =>
               /\ Len(work) = sd[T].off + sd[T].len
               /\ \A k \in 1..sd[T].len : work[sd[T].off + k] = buf[T][k]

\* The work file is that of a file to be restored
TargetInv ==
    /\ sd[T].open => sd[T].seq \in Rows(n, T) /\ wanted[<<n, sd[T].seq>>] = "yes"
    /\ pc = "file" /\ sd[T].open => genCanceled
    /\ pc = "empty" => sd[T].open /\ work = <<>> /\ hashed = <<>> /\ Size(n, T, sd[T].seq) = 0

RestoreInv == TypeInv /\ WriteInv /\ WorkInv /\ TargetInv /\ Exact

LEMMA Basics ==
    /\ T \in 1..P /\ P \in 1..P /\ T # P /\ T \notin Readers /\ P \in Readers
    /\ Readers \subseteq 1..P /\ P \in Nat /\ T \in Nat /\ T >= 1 /\ 1..P = Readers \cup {T}
    /\ Helpers \subseteq Readers /\ Helpers \subseteq Disks /\ Readers = Helpers \cup {P}
BY DEF Disks, P, Readers, Helpers

LEMMA PlanRows ==
    ASSUME NEW m \in 1..Len(Plan), NEW d \in Disks
    PROVE  /\ Rows(m, d) = 1..Len(Plan[m][d]) /\ Len(Plan[m][d]) \in Nat
           /\ \A j \in Rows(m, d) : Plan[m][d][j].size \in Nat /\ Plan[m][d][j].start \in Nat
<1>1. Plan[m] \in [Disks -> Seq([size : Nat, start : Nat])]
    BY PlanAssumption
<1>2. Plan[m][d] \in Seq([size : Nat, start : Nat])
    BY <1>1
<1> DEFINE R == [size : Nat, start : Nat]
<1>3. PICK s \in Seq(R) : s = Plan[m][d]
    BY <1>2
<1>4. \A r \in R : r.size \in Nat /\ r.start \in Nat
    OBVIOUS
<1> HIDE DEF R
<1>5. DOMAIN s = 1..Len(s) /\ Len(s) \in Nat /\ \A j \in 1..Len(s) : s[j] \in R
    OBVIOUS
<1>6. QED
    BY <1>3, <1>4, <1>5 DEF Rows

\* A step that does not touch the target file
LEMMA TargetKept ==
    ASSUME RestoreInv, TypeInv', WriteInv', UNCHANGED <<n, work, hashed, dest, wanted>>,
           sd'[T] = sd[T], buf'[T] = buf[T],
           want'[T] # 0 /\ res'[T] = sd[T].len => want[T] # 0 /\ res[T] = sd[T].len,
           pc' = "empty" => pc = "empty", pc' = "file" /\ sd[T].open => genCanceled'
    PROVE  RestoreInv'
<1>1. WorkInv'
    BY DEF RestoreInv, WorkInv
<1>2. TargetInv'
    BY DEF RestoreInv, TargetInv, Rows, Size
<1>3. Exact'
    BY DEF RestoreInv, Exact, Content, Size
<1>4. QED
    BY <1>1, <1>2, <1>3 DEF RestoreInv

LEMMA RestoreInit == Init => RestoreInv
<1> SUFFICES ASSUME Init PROVE RestoreInv
    OBVIOUS
<1> USE Basics
<1>1. TypeInv
    <2>1. IsSeq(work) /\ IsSeq(hashed)
        BY EmptySeq DEF Init, Start
    <2>2. Len(Plan) \in Nat
        BY PlanAssumption
    <2>3. buf = [i \in 1..P |-> buf[i]] /\ \A i \in 1..P : buf[i] = [k \in Slots |-> buf[i][k]]
        BY DEF Init, Start, Cleared
    <2>4. sd \in [1..P -> Record] /\ \A i \in Readers : sd[i].len = 0
        BY DEF Init, Start, Fresh, Record
    <2>5. want \in [1..P -> Int] /\ res \in [1..P -> Int] /\ \A i \in Readers : want[i] = 0
        BY DEF Init, Start, Idle, InProgress
    <2>6. \A i \in Readers : want[i] <= BufSize - sd[i].len /\ ~(want[i] > 0)
        BY <2>4, <2>5
    <2>7. n = 0 /\ at = 1 /\ pc = "next" /\ genCanceled = FALSE /\ operationCanceled = FALSE
        BY DEF Init, Start
    <2>8. n \in 0..Len(Plan) /\ at \in 0..(P + 1)
        BY <2>2, <2>7
    <2>9. window \in [start : Nat, size : Nat]
        BY DEF Init, Start
    <2>10. QED
        BY <2>1, <2>3, <2>4, <2>5, <2>6, <2>7, <2>8, <2>9 DEF TypeInv
<1>2. WriteInv
    BY DEF Init, Start, Idle, Fresh, WriteInv
<1>3. WorkInv /\ TargetInv /\ Exact
    BY DEF Init, Start, Fresh, WorkInv, TargetInv, Exact
<1>4. QED
    BY <1>1, <1>2, <1>3 DEF RestoreInv

----------------------------------------------------------------------------
(* startAIO on a disk that is read.                                        *)

LEMMA Fitted ==
    ASSUME NEW w \in [start : Nat, size : Nat], NEW r \in Record
    PROVE  /\ fitTransferOption(w, r) \in Record
           /\ fitTransferOption(w, r).len = r.len
<1> DEFINE after  == r.start + r.left - windowEnd(w)
           before == w.start - r.start
           left   == r.left - (IF after > 0 THEN after ELSE 0) - (IF before > 0 THEN before ELSE 0)
           off    == IF before > 0 THEN before ELSE r.off
           q      == [r EXCEPT !.left = left, !.off = off]
<1>1. q = fitTransferOption(w, r)
    BY DEF fitTransferOption, Record
<1>2. left \in Int /\ off \in Nat
    BY DEF Record, windowEnd
<1> HIDE DEF left, off
<1>3. q \in Record /\ q.len = r.len
    BY <1>2 DEF Record
<1>4. QED
    BY <1>1, <1>3

LEMMA LeastOf ==
    ASSUME NEW S \in SUBSET Nat, S # {}
    PROVE  least(S) \in S
BY LeastNat DEF least

LEMMA Opened ==
    ASSUME NEW r \in Record, NEW q \in Nat, NEW size \in Nat, NEW start \in Nat, NEW left \in Int,
           NEW off \in Nat, NEW there \in BOOLEAN
    PROVE  LET o == [r EXCEPT !.seq = q, !.size = size, !.start = start, !.left = left,
                              !.off = off, !.open = there]
           IN o \in Record /\ o.len = r.len
<1> DEFINE a == [r EXCEPT !.seq = q, !.size = size, !.start = start]
           b == [a EXCEPT !.left = left, !.off = off, !.open = there]
<1>1. a \in Record /\ a.len = r.len
    BY DEF Record
<1>2. b = [r EXCEPT !.seq = q, !.size = size, !.start = start, !.left = left, !.off = off, !.open = there]
    OBVIOUS
<1> HIDE DEF a
<1>3. b \in Record /\ b.len = a.len
    BY <1>1 DEF Record
<1>4. QED
    BY <1>1, <1>2, <1>3

LEMMA NextFile ==
    ASSUME TypeInv, n \in 1..Len(Plan), NEW d \in Helpers, NEW r \in Record, NEW garbage \in Nat
    PROVE  /\ openNextFile(d, r, garbage) \in Record
           /\ openNextFile(d, r, garbage).len = r.len
<1>1. /\ d \in Disks /\ Rows(n, d) \subseteq Nat /\ Len(Plan[n][d]) \in Nat
      /\ \A j \in Rows(n, d) : Plan[n][d][j].size \in Nat /\ Plan[n][d][j].start \in Nat
    BY Basics, PlanRows
<1>2. CASE NextRows(d, r) = {}
    <2> DEFINE seq == IF r.seq < Len(Plan[n][d]) THEN Len(Plan[n][d]) ELSE garbage
               q   == [r EXCEPT !.open = FALSE, !.fin = TRUE, !.seq = seq]
    <2>1. q = openNextFile(d, r, garbage)
        BY <1>2 DEF openNextFile, Record
    <2>2. seq \in Nat
        BY <1>1
    <2> HIDE DEF seq
    <2>3. q \in Record /\ q.len = r.len
        BY <2>2 DEF Record
    <2>4. QED
        BY <2>1, <2>3
<1>3. CASE NextRows(d, r) # {}
    <2> DEFINE j == least(NextRows(d, r))
               f == Plan[n][d][j]
               there == damaged[<<n, d, j>>] # "gone"
               c == [r EXCEPT !.open = FALSE, !.seq = j]
               o == [r EXCEPT !.seq = j, !.size = f.size, !.start = f.start, !.left = f.size,
                              !.off = 0, !.open = there]
    <2>1. j \in Rows(n, d)
        <3>1. NextRows(d, r) \subseteq Rows(n, d)
            BY DEF NextRows
        <3>2. j \in NextRows(d, r)
            BY <1>1, <1>3, <3>1, LeastOf
        <3>3. QED
            BY <3>1, <3>2
    <2>2. j \in Nat /\ f.size \in Nat /\ f.start \in Nat
        BY <1>1, <2>1
    <2>3. openNextFile(d, r, garbage) = c \/ openNextFile(d, r, garbage) = fitTransferOption(window, o)
        BY <1>3 DEF openNextFile
    <2> HIDE DEF j, f, there
    <2>4. c \in Record /\ c.len = r.len
        BY <2>2 DEF Record
    <2>5. o \in Record /\ o.len = r.len
        <3>1. there \in BOOLEAN
            BY DEF there
        <3>2. f.size \in Int /\ 0 \in Nat
            BY <2>2
        <3> DEFINE O(q, s, b, l, x, th) == [r EXCEPT !.seq = q, !.size = s, !.start = b, !.left = l,
                                                     !.off = x, !.open = th]
        <3>3. \A q, s, b \in Nat, l \in Int, x \in Nat, th \in BOOLEAN :
                  O(q, s, b, l, x, th) \in Record /\ O(q, s, b, l, x, th).len = r.len
            BY Opened
        <3>4. \A q, s, b \in Nat, l \in Int, th \in BOOLEAN :
                  O(q, s, b, l, 0, th) \in Record /\ O(q, s, b, l, 0, th).len = r.len
            <4> HIDE DEF O
            <4>1. QED
                BY <3>2, <3>3
        <3> HIDE DEF O
        <3>5. O(j, f.size, f.start, f.size, 0, there) \in Record
              /\ O(j, f.size, f.start, f.size, 0, there).len = r.len
            BY <2>2, <3>1, <3>2, <3>4
        <3>6. QED
            BY <3>5 DEF O
    <2>6. window \in [start : Nat, size : Nat]
        BY DEF TypeInv
    <2>7. QED
        BY <2>3, <2>4, <2>5, <2>6, Fitted
<1>4. QED
    BY <1>2, <1>3

\* What startAIO does to a disk that is read
Started(i, r) ==
    /\ sd' = [sd EXCEPT ![i] = sd'[i]] /\ sd'[i] \in Record /\ sd'[i].len = r.len
    /\ want' = [want EXCEPT ![i] = want'[i]] /\ want'[i] \in 0..BufSize /\ want'[i] <= BufSize - r.len
    /\ res' = [res EXCEPT ![i] = InProgress]
    /\ genCanceled' \in BOOLEAN /\ (genCanceled => genCanceled')

LEMMA StartAIOStep ==
    ASSUME TypeInv, n \in 1..Len(Plan), NEW i \in Readers, NEW r \in Record,
           NEW garbage \in Nat, NEW ok \in BOOLEAN, startAIO(i, r, garbage, ok)
    PROVE  Started(i, r)
<1> DEFINE row    == openNextFile(i, r, garbage)
           q      == IF NeedsFile(i, r) THEN [row EXCEPT !.open = row.open /\ ok] ELSE r
           failed == NeedsFile(i, r) /\ ~q.open /\ ~q.fin
           w      == IF failed \/ q.fin THEN 0 ELSE nbytes(i, q)
<1>1. /\ sd' = [sd EXCEPT ![i] = q]
      /\ IF failed THEN cancelGen(FALSE) ELSE UNCHANGED canVars
      /\ want' = [want EXCEPT ![i] = w]
      /\ res' = [res EXCEPT ![i] = InProgress]
    BY DEF startAIO
<1>2. q \in Record /\ q.len = r.len
    <2>1. CASE NeedsFile(i, r)
        <3>1. i \in Helpers
            BY <2>1, Basics DEF NeedsFile
        <3>2. row \in Record /\ row.len = r.len
            BY <3>1, NextFile
        <3> HIDE DEF row
        <3>3. QED
            BY <2>1, <3>2 DEF Record
    <2>2. QED
        BY <2>1
<1> HIDE DEF q
<1>3. w \in 0..BufSize /\ w <= BufSize - r.len
    <2>1. q.left \in Int /\ q.len \in 0..BufSize /\ q.off \in Nat
        BY <1>2 DEF Record
    <2>2. windowEnd(window) \in Int
        BY DEF RestoreInv, TypeInv, windowEnd
    <2>3. rest(i, q) \in Int /\ (q.left > 0 => rest(i, q) > 0)
        BY <2>1, <2>2 DEF rest
    <2> HIDE DEF rest
    <2>4. QED
        BY <1>2, <2>1, <2>3 DEF nbytes, room
<1> HIDE DEF w, failed
<1>4. genCanceled' \in BOOLEAN /\ (genCanceled => genCanceled')
    <2>1. genCanceled \in BOOLEAN
        BY DEF TypeInv
    <2>2. QED
        BY <1>1, <2>1 DEF cancelGen, canVars
<1>5. i \in 1..P /\ DOMAIN sd = 1..P /\ DOMAIN want = 1..P
    BY Basics DEF TypeInv
<1>6. sd'[i] = q /\ want'[i] = w
    BY <1>1, <1>5
<1>7. QED
    BY <1>1, <1>2, <1>3, <1>4, <1>6 DEF Started

----------------------------------------------------------------------------
(* Reading.                                                                *)

\* A turn of the loop that is about a disk that is read
LEMMA ReaderTurn ==
    ASSUME RestoreInv, pc = "pass", pc' = "pass", at \in Readers, at' \in {0, at + 1},
           at' = 0 => genCanceled', genCanceled' \in BOOLEAN, genCanceled => genCanceled',
           sd' \in [1..P -> Record], want' \in [1..P -> Int], res' \in [1..P -> Int],
           \A i \in (1..P) \ {at} : sd'[i] = sd[i] /\ want'[i] = want[i] /\ res'[i] = res[i],
           want'[at] <= BufSize - sd'[at].len, want'[at] > 0 => res'[at] <= want'[at],
           UNCHANGED <<n, window, dataVars, envVars>>
    PROVE  RestoreInv'
<1> USE Basics
<1>1. /\ TypeInv /\ WriteInv /\ at \in 1..P /\ at # T /\ T \in (1..P) \ {at}
      /\ sd'[T] = sd[T] /\ want'[T] = want[T] /\ res'[T] = res[T]
    BY DEF RestoreInv
<1>2. UNCHANGED <<n, window, buf, work, hashed, dest, operationCanceled, wanted>>
    BY DEF dataVars, envVars
<1>3. at' \in 0..(P + 1)
    BY <1>1
<1>4. ASSUME NEW i \in Readers
      PROVE  want'[i] <= BufSize - sd'[i].len /\ (want'[i] > 0 => res'[i] <= want'[i])
    <2>1. CASE i = at
        BY <2>1
    <2>2. CASE i # at
        BY <1>1, <2>2 DEF TypeInv
    <2>3. QED
        BY <2>1, <2>2
<1>5. TypeInv'
    BY <1>1, <1>2, <1>3, <1>4 DEF TypeInv
<1>6. WriteInv'
    <2>1. at' \in 1..T => at \in 1..T
        BY <1>1
    <2>2. at' > T => at > T
        BY <1>1
    <2>3. QED
        BY <1>1, <2>1, <2>2 DEF WriteInv, HasTarget
<1>7. QED
    BY <1>1, <1>2, <1>5, <1>6, TargetKept

LEMMA Reader ==
    ASSUME RestoreInv, pc = "pass", at \in Readers
    PROVE  /\ TypeInv /\ n \in 1..Len(Plan) /\ at \in 1..P /\ sd[at] \in Record
           /\ sd \in [1..P -> Record] /\ want \in [1..P -> Int] /\ res \in [1..P -> Int]
           /\ want[at] <= BufSize - sd[at].len /\ genCanceled \in BOOLEAN
           /\ want[at] > 0 => res[at] <= want[at]
<1>1. TypeInv /\ at \in 1..P /\ genCanceled \in BOOLEAN
      /\ sd \in [1..P -> Record] /\ want \in [1..P -> Int] /\ res \in [1..P -> Int]
    BY Basics DEF RestoreInv, TypeInv
<1>2. n \in 0..Len(Plan) /\ n # 0
    BY DEF RestoreInv, TypeInv
<1>3. n \in 1..Len(Plan)
    BY <1>2, PlanAssumption
<1>4. want[at] <= BufSize - sd[at].len /\ (want[at] > 0 => res[at] <= want[at])
    BY <1>1 DEF TypeInv
<1>5. QED
    BY <1>1, <1>3, <1>4

LEMMA ReadStarted ==
    ASSUME RestoreInv, pc = "pass", pc' = "pass", at \in Readers, at' \in {0, at + 1},
           at' = 0 => genCanceled', NEW r \in Record, Started(at, r),
           UNCHANGED <<n, window, dataVars, envVars>>
    PROVE  RestoreInv'
<1>1. /\ at \in 1..P /\ sd \in [1..P -> Record] /\ want \in [1..P -> Int] /\ res \in [1..P -> Int]
    BY Reader
<1>2. sd' \in [1..P -> Record] /\ want' \in [1..P -> Int]
      /\ \A i \in (1..P) \ {at} : sd'[i] = sd[i] /\ want'[i] = want[i]
    BY <1>1 DEF Started
<1>3. res' \in [1..P -> Int] /\ \A i \in (1..P) \ {at} : res'[i] = res[i]
    BY <1>1 DEF Started, InProgress
<1>4. want'[at] <= BufSize - sd'[at].len /\ (want'[at] > 0 => res'[at] <= want'[at])
    <2>1. res'[at] = -3 /\ want'[at] \in Int
        BY <1>1 DEF Started, InProgress
    <2>2. QED
        BY <2>1 DEF Started
<1>5. genCanceled' \in BOOLEAN /\ (genCanceled => genCanceled')
    BY DEF Started
<1>6. QED
    BY <1>2, <1>3, <1>4, <1>5, ReaderTurn

LEMMA StartReadStep ==
    ASSUME RestoreInv, NEW garbage \in Nat, NEW ok \in BOOLEAN, startRead(garbage, ok)
    PROVE  RestoreInv'
<1>1. /\ pc = "pass" /\ pc' = "pass" /\ at \in Readers
      /\ startAIO(at, sd[at], garbage, ok)
      /\ at' = IF genCanceled' THEN 0 ELSE at + 1
      /\ UNCHANGED <<n, window, dataVars, envVars>>
    BY DEF startRead
<1>2. Started(at, sd[at]) /\ sd[at] \in Record
    BY <1>1, Reader, StartAIOStep
<1>3. at' \in {0, at + 1} /\ (at' = 0 => genCanceled')
    BY <1>1, Basics
<1>4. QED
    BY <1>1, <1>2, <1>3, ReadStarted

LEMMA MoreRead ==
    ASSUME NEW a \in 0..BufSize, NEW k \in Int, NEW w \in Int, 0 < k, k <= w, w <= BufSize - a
    PROVE  a + k \in 0..BufSize
OBVIOUS

LEMMA Consumed ==
    ASSUME RestoreInv, pc = "pass", at \in Readers, want[at] > 0, res[at] > 0
    PROVE  [sd[at] EXCEPT !.len = sd[at].len + res[at], !.off = sd[at].off + res[at],
                          !.left = sd[at].left - res[at]] \in Record
<1> DEFINE k == res[at]
           r == [sd[at] EXCEPT !.len = sd[at].len + k, !.off = sd[at].off + k, !.left = sd[at].left - k]
<1>1. k > 0
    OBVIOUS
<1>2. /\ sd[at] \in Record /\ want \in [1..P -> Int] /\ res \in [1..P -> Int] /\ at \in 1..P
      /\ k \in Int /\ k <= want[at] /\ want[at] \in Int /\ want[at] <= BufSize - sd[at].len
    BY Reader
<1>3. r \in Record
    <2>1. sd[at].len \in 0..BufSize /\ sd[at].off \in Nat /\ sd[at].left \in Int
        BY <1>2 DEF Record
    <2>2. sd[at].len + k \in 0..BufSize
        BY <1>1, <1>2, <2>1, MoreRead
    <2>3. sd[at].off + k \in Nat /\ sd[at].left - k \in Int
        <3> HIDE DEF k
        <3>1. k \in Nat
            BY <1>1, <1>2
        <3>2. QED
            BY <2>1, <3>1
    <2>4. QED
        BY <1>2, <2>2, <2>3 DEF Record
<1>4. QED
    BY <1>3

LEMMA ConsumeReadStep ==
    ASSUME RestoreInv, NEW garbage \in Nat, NEW ok \in BOOLEAN, consumeRead(garbage, ok)
    PROVE  RestoreInv'
<1> DEFINE k == res[at]
           r == [sd[at] EXCEPT !.len = sd[at].len + k, !.off = sd[at].off + k, !.left = sd[at].left - k]
<1>1. /\ pc = "pass" /\ pc' = "pass" /\ at \in Readers /\ k > 0 /\ want[at] > 0
      /\ IF genCanceled
         THEN /\ sd' = [sd EXCEPT ![at] = r] /\ want' = [want EXCEPT ![at] = 0]
              /\ UNCHANGED <<res, canVars>>
         ELSE startAIO(at, r, garbage, ok)
      /\ at' = at + 1
      /\ UNCHANGED <<n, window, dataVars, envVars>>
    BY DEF consumeRead, Done
<1>2. /\ at \in 1..P /\ sd[at] \in Record /\ n \in 1..Len(Plan) /\ TypeInv
      /\ sd \in [1..P -> Record] /\ want \in [1..P -> Int] /\ res \in [1..P -> Int]
      /\ k \in Int /\ k <= want[at] /\ want[at] <= BufSize - sd[at].len /\ genCanceled \in BOOLEAN
    BY <1>1, Reader
<1>3. r \in Record
    BY <1>1, Consumed
<1>4. at' \in {0, at + 1} /\ at' # 0
    BY <1>1, <1>2, Basics
<1> HIDE DEF r
<1>5. CASE genCanceled
    <2>1. /\ sd' = [sd EXCEPT ![at] = r] /\ want' = [want EXCEPT ![at] = 0] /\ res' = res
          /\ genCanceled' = genCanceled
        BY <1>1, <1>5 DEF canVars
    <2>2. /\ sd' \in [1..P -> Record] /\ want' \in [1..P -> Int]
          /\ \A i \in (1..P) \ {at} : sd'[i] = sd[i] /\ want'[i] = want[i] /\ res'[i] = res[i]
          /\ sd'[at] = r /\ want'[at] = 0
        BY <1>2, <1>3, <2>1
    <2>3. want'[at] <= BufSize - sd'[at].len /\ ~(want'[at] > 0)
        BY <1>3, <2>2 DEF Record
    <2>4. QED
        BY <1>1, <1>2, <1>4, <1>5, <2>1, <2>2, <2>3, ReaderTurn
<1>6. CASE ~genCanceled
    <2>1. Started(at, r)
        BY <1>1, <1>2, <1>3, <1>6, StartAIOStep
    <2>2. QED
        BY <1>1, <1>3, <1>4, <2>1, ReadStarted
<1>7. QED
    BY <1>5, <1>6

LEMMA RejectReadStep == ASSUME RestoreInv, rejectRead PROVE RestoreInv'
<1>1. /\ pc = "pass" /\ pc' = "pass" /\ at \in Readers /\ res' = res
      /\ genCanceled' = TRUE /\ at' = 0
      /\ sd' = [sd EXCEPT ![at].left = 0] /\ want' = [want EXCEPT ![at] = 0]
      /\ UNCHANGED <<n, window, dataVars, envVars>>
    BY DEF rejectRead, cancelGen
<1>2. /\ at \in 1..P /\ sd[at] \in Record
      /\ sd \in [1..P -> Record] /\ want \in [1..P -> Int] /\ res \in [1..P -> Int]
    BY <1>1, Reader
<1>3. [sd[at] EXCEPT !.left = 0] \in Record
    BY <1>2, SMTT(30) DEF Record
<1>4. /\ sd' \in [1..P -> Record] /\ want' \in [1..P -> Int] /\ sd'[at] \in Record
      /\ \A i \in (1..P) \ {at} : sd'[i] = sd[i] /\ want'[i] = want[i] /\ res'[i] = res[i]
      /\ want'[at] = 0
    BY <1>1, <1>2, <1>3
<1>5. want'[at] <= BufSize - sd'[at].len /\ ~(want'[at] > 0)
    BY <1>4 DEF Record
<1>6. QED
    BY <1>1, <1>2, <1>4, <1>5, ReaderTurn

----------------------------------------------------------------------------
(* Steps that only move the thread.                                        *)

Places == {"next", "round", "target", "file", "empty", "pass", "suspend", "after", "done"}

LEMMA ControlStep ==
    ASSUME RestoreInv, UNCHANGED <<n, sd, window, buf, want, res, work, hashed, dest, wanted>>,
           pc' \in Places \ {"empty"}, pc' \notin {"next", "done"} => n # 0 /\ ~sd[T].fin,
           at' \in 0..(P + 1), pc' = "file" => at' = 1, at' = 0 /\ pc' = "pass" => genCanceled',
           genCanceled' \in BOOLEAN, operationCanceled' \in BOOLEAN,
           pc' \in {"target", "pass", "suspend"} \/ want[T] = 0,
           pc' = "pass" /\ at' \in 1..T => HasTarget,
           pc' = "pass" /\ at' > T /\ ~genCanceled' => sd[T].len = 0 \/ want[T] # 0,
           pc' = "after" /\ ~genCanceled' => sd[T].len = 0,
           pc' = "file" /\ sd[T].open => genCanceled'
    PROVE  RestoreInv'
<1>1. TypeInv'
    BY DEF RestoreInv, TypeInv, Places
<1>2. WriteInv'
    BY DEF RestoreInv, WriteInv, HasTarget
<1>3. QED
    BY <1>1, <1>2, TargetKept

\* What the invariant says of a place
LEMMA Placed ==
    ASSUME RestoreInv
    PROVE  /\ pc \in Places /\ at \in 0..(P + 1) /\ (pc \in {"file", "empty"} => at = 1)
           /\ genCanceled \in BOOLEAN /\ operationCanceled \in BOOLEAN
           /\ pc \notin {"next", "done"} => n # 0 /\ ~sd[T].fin
           /\ sd[T].size \in Nat /\ sd[T].open \in BOOLEAN
           /\ pc \in {"target", "pass", "suspend"} \/ want[T] = 0
           /\ want[T] # 0 => HasTarget
           /\ at = 0 /\ pc = "pass" => genCanceled
<1>1. sd[T] \in Record
    BY Basics DEF RestoreInv, TypeInv
<1>2. QED
    BY <1>1 DEF RestoreInv, TypeInv, WriteInv, Places, Record

LEMMA RoundStep == ASSUME RestoreInv, restoreFromSlice PROVE RestoreInv'
<1>1. /\ pc = "round" /\ pc' \in {"next", "target"} /\ at' = at
      /\ genCanceled' = (genCanceled \/ operationCanceled) /\ operationCanceled' = operationCanceled
      /\ UNCHANGED <<n, sd, window, buf, want, res, work, hashed, dest, wanted>>
    BY DEF restoreFromSlice, dataVars, aioVars, envVars
<1>2. QED
    BY <1>1, Placed, ControlStep DEF Places

LEMMA BeginTurnStep == ASSUME RestoreInv, beginTurn PROVE RestoreInv'
<1>1. /\ pc = "target" /\ at' = 1
      /\ pc' = IF ~sd[T].open /\ sd[T].size = 0 THEN "file" ELSE "pass"
      /\ genCanceled' = (genCanceled \/ operationCanceled) /\ operationCanceled' = operationCanceled
      /\ UNCHANGED <<n, sd, window, buf, want, res, work, hashed, dest, wanted>>
    BY DEF beginTurn, dataVars, aioVars, envVars
<1>2. /\ pc' = "pass" => HasTarget
      /\ pc' = "file" => ~HasTarget /\ ~sd[T].open
    BY <1>1, Placed DEF HasTarget
<1>3. 1 \in 0..(P + 1) /\ ~(1 > T)
    BY Basics
<1>4. QED
    BY <1>1, <1>2, <1>3, Placed, ControlStep DEF Places

LEMMA AfterCancelStep == ASSUME RestoreInv, afterCancel PROVE RestoreInv'
<1>1. /\ pc = "file" /\ pc' = "next"
      /\ UNCHANGED <<at, genCanceled, operationCanceled>>
      /\ UNCHANGED <<n, sd, window, buf, want, res, work, hashed, dest, wanted>>
    BY DEF afterCancel, dataVars, aioVars, envVars, canVars
<1>2. QED
    BY <1>1, Placed, ControlStep DEF Places

LEMMA SkipDiskStep == ASSUME RestoreInv, skipDisk PROVE RestoreInv'
<1>1. /\ pc = "pass" /\ pc' = "pass" /\ at \in 1..P /\ at' = at + 1
      /\ UNCHANGED <<genCanceled, operationCanceled>>
      /\ UNCHANGED <<n, sd, window, buf, want, res, work, hashed, dest, wanted>>
    BY DEF skipDisk, dataVars, aioVars, envVars, canVars
<1>2. WriteInv
    BY DEF RestoreInv
<1>3. at' \in 0..(P + 1) /\ at' # 0 /\ (at' \in 1..T => at \in 1..T) /\ (at' > T => at > T \/ at = T)
    BY <1>1, Basics
<1>4. at' \in 1..T => HasTarget
    BY <1>1, <1>2, <1>3 DEF WriteInv
<1>5. at' > T /\ ~genCanceled => sd[T].len = 0 \/ want[T] # 0
    <2>1. CASE at > T
        BY <1>1, <1>2, <2>1 DEF WriteInv
    <2>2. CASE at = T
        <3>1. ~sd[T].fin
            BY <1>1, Placed
        <3>2. want[T] > 0 => want[T] # 0
            BY Basics DEF RestoreInv, TypeInv
        <3>3. QED
            BY <2>2, <3>1, <3>2 DEF skipDisk, Busy
    <2>3. QED
        BY <1>3, <2>1, <2>2
<1>6. QED
    BY <1>1, <1>3, <1>4, <1>5, Placed, ControlStep DEF Places

LEMMA BreakStep ==
    ASSUME RestoreInv, pc = "pass", pc' = "pass", at' = 0, genCanceled' = TRUE,
           UNCHANGED <<n, sd, window, buf, want, res, work, hashed, dest, wanted, operationCanceled>>
    PROVE  RestoreInv'
<1>1. 0 \in 0..(P + 1) /\ ~(0 \in 1..T) /\ ~(0 > T)
    BY Basics
<1>2. QED
    BY <1>1, Placed, ControlStep DEF Places

LEMMA RejectStep == ASSUME RestoreInv, rejectAIO \/ rejectWrite PROVE RestoreInv'
<1>1. CASE rejectAIO
    BY <1>1, BreakStep DEF rejectAIO, cancelGen, dataVars, aioVars, envVars
<1>2. CASE rejectWrite
    BY <1>2, BreakStep DEF rejectWrite, cancelGen, dataVars, aioVars, envVars
<1>3. QED
    BY <1>1, <1>2

LEMMA EndPassStep == ASSUME RestoreInv, endPass PROVE RestoreInv'
<1>1. /\ pc = "pass" /\ at = P + 1 /\ ~genCanceled
      /\ pc' = IF want = Idle THEN "after" ELSE "suspend"
      /\ UNCHANGED <<at, genCanceled, operationCanceled>>
      /\ UNCHANGED <<n, sd, window, buf, want, res, work, hashed, dest, wanted>>
    BY DEF endPass, AfterTurn, dataVars, aioVars, envVars, canVars
<1>2. at > T
    BY <1>1, Basics
<1>3. sd[T].len = 0 \/ want[T] # 0
    BY <1>1, <1>2 DEF RestoreInv, WriteInv
<1>4. want = Idle => want[T] = 0
    BY Basics DEF Idle
<1>5. QED
    BY <1>1, <1>3, <1>4, Placed, ControlStep DEF Places

LEMMA SuspendStep == ASSUME RestoreInv, suspend PROVE RestoreInv'
<1>1. /\ pc = "suspend" /\ pc' = "target"
      /\ UNCHANGED <<at, genCanceled, operationCanceled>>
      /\ UNCHANGED <<n, sd, window, buf, want, res, work, hashed, dest, wanted>>
    BY DEF suspend, dataVars, aioVars, envVars, canVars
<1>2. QED
    BY <1>1, Placed, ControlStep DEF Places

LEMMA AfterFillStep == ASSUME RestoreInv, afterFill PROVE RestoreInv'
<1>1. /\ pc = "after" /\ pc' \in {"next", "round"} /\ genCanceled' = (rv < 0)
      /\ UNCHANGED <<at, operationCanceled>>
      /\ UNCHANGED <<n, sd, window, buf, want, res, work, hashed, dest, wanted>>
    BY DEF afterFill, dataVars, aioVars, envVars
<1>2. genCanceled' \in BOOLEAN
    BY <1>1
<1>3. QED
    BY <1>1, <1>2, Placed, ControlStep DEF Places

----------------------------------------------------------------------------
(* The kernel, and Ctrl-C.                                                 *)

LEMMA KernelStep ==
    ASSUME RestoreInv, UNCHANGED <<pc, n, at, sd, window, want, hashed, dest, genCanceled, wanted>>,
           operationCanceled' \in BOOLEAN, res' \in [1..P -> Int],
           \A i \in Readers : want[i] > 0 => res'[i] <= want[i],
           buf' = [i \in 1..P |-> buf'[i]], \A i \in 1..P : buf'[i] = [k \in Slots |-> buf'[i][k]],
           IsSeq(work'), work' = work \/ want[T] # 0,
           want[T] # 0 /\ ~sd[T].open => res'[T] \in {InProgress, -1},
           WorkInv'
    PROVE  RestoreInv'
<1>1. TypeInv'
    BY DEF RestoreInv, TypeInv
<1>2. WriteInv'
    BY DEF RestoreInv, WriteInv, HasTarget
<1>3. TargetInv'
    BY DEF RestoreInv, TargetInv, WriteInv, Rows, Size
<1>4. Exact'
    BY DEF RestoreInv, Exact, Content, Size
<1>5. QED
    BY <1>1, <1>2, <1>3, <1>4 DEF RestoreInv

LEMMA Buffers ==
    ASSUME RestoreInv
    PROVE  /\ buf = [i \in 1..P |-> buf[i]] /\ \A i \in 1..P : buf[i] = [k \in Slots |-> buf[i][k]]
           /\ IsSeq(work) /\ IsSeq(hashed) /\ res \in [1..P -> Int] /\ want \in [1..P -> Int]
           /\ sd[T] \in Record /\ sd[T].len \in 0..BufSize /\ sd[T].off \in Int
           /\ \A i \in Readers : want[i] > 0 => res[i] <= want[i]
<1>1. sd[T] \in Record
    BY Basics DEF RestoreInv, TypeInv
<1>2. sd[T].len \in 0..BufSize /\ sd[T].off \in Int
    BY <1>1 DEF Record
<1>3. QED
    BY <1>1, <1>2 DEF RestoreInv, TypeInv

\* A request ends without a byte for the work file.
LEMMA ResultStep ==
    ASSUME RestoreInv, UNCHANGED <<pc, n, at, sd, window, want, buf, work, hashed, dest, genCanceled,
                                   operationCanceled, wanted>>,
           NEW i \in 1..P, NEW k \in Int, res' = [res EXCEPT ![i] = k],
           i = T => k < 0 /\ (sd[T].open \/ k = -1), i # T => k <= 0
    PROVE  RestoreInv'
<1>1. res' \in [1..P -> Int]
    BY Buffers
<1>2. ASSUME NEW j \in Readers, want[j] > 0 PROVE res'[j] <= want[j]
    <2>1. j \in 1..P /\ j # T /\ res'[j] = IF j = i THEN k ELSE res[j]
        BY Basics, Buffers
    <2>2. CASE j = i
        BY <1>2, <2>1, <2>2, Buffers
    <2>3. CASE j # i
        BY <1>2, <2>1, <2>3, Buffers
    <2>4. QED
        BY <2>2, <2>3
<1>3. res'[T] = IF i = T THEN k ELSE res[T]
    BY Basics, Buffers
<1>4. want[T] # 0 /\ ~sd[T].open => res'[T] \in {InProgress, -1}
    BY <1>3 DEF RestoreInv, WriteInv
<1>5. res'[T] = sd[T].len => res[T] = sd[T].len
    BY <1>3, Buffers
<1>6. WorkInv'
    BY <1>5 DEF RestoreInv, WorkInv
<1>7. QED
    BY <1>1, <1>2, <1>4, <1>6, Buffers, KernelStep DEF RestoreInv, TypeInv

LEMMA BadFileStep == ASSUME RestoreInv, NEW i \in 1..P, badFile(i) PROVE RestoreInv'
<1>1. /\ res' = [res EXCEPT ![i] = -1]
      /\ UNCHANGED <<pc, n, at, sd, window, want, buf, work, hashed, dest, genCanceled,
                     operationCanceled, wanted>>
    BY DEF badFile, dataVars, canVars, envVars
<1>2. \A k \in Int : k = -1 /\ res' = [res EXCEPT ![i] = k] => RestoreInv'
    <2> SUFFICES ASSUME NEW k \in Int, k = -1, res' = [res EXCEPT ![i] = k] PROVE RestoreInv'
        OBVIOUS
    <2>1. k < 0 /\ k <= 0
        OBVIOUS
    <2>2. QED
        BY <1>1, <2>1, ResultStep
<1>3. -1 \in Int
    OBVIOUS
<1>4. QED
    BY <1>1, <1>2, <1>3

LEMMA RequestFailsStep ==
    ASSUME RestoreInv, NEW i \in 1..P, NEW k \in {-1, 0, NoSpace}, requestFails(i, k)
    PROVE  RestoreInv'
<1>1. /\ res' = [res EXCEPT ![i] = k] /\ sd[i].open
      /\ UNCHANGED <<pc, n, at, sd, window, want, buf, work, hashed, dest, genCanceled,
                     operationCanceled, wanted>>
    BY DEF requestFails, dataVars, canVars, envVars
<1>2. k \in {-1} \cup (IF i = T THEN {NoSpace} ELSE {0})
    BY DEF requestFails
<1>3. k \in Int /\ k <= 0 /\ (i = T => k < 0 /\ sd[T].open)
    BY <1>1, <1>2 DEF NoSpace
<1>4. QED
    BY <1>1, <1>3, ResultStep

LEMMA ReadDoneStep ==
    ASSUME RestoreInv, NEW i \in Readers, NEW k \in Slots, readDone(i, k)
    PROVE  RestoreInv'
<1> DEFINE b == [j \in Slots |-> IF j \in (sd[i].len + 1)..(sd[i].len + k)
                                 THEN ByteAt(i, sd[i].off + j - sd[i].len) ELSE buf[i][j]]
<1>1. /\ k \in 1..want[i] /\ buf' = [buf EXCEPT ![i] = b] /\ res' = [res EXCEPT ![i] = k]
      /\ UNCHANGED <<pc, n, at, sd, window, want, work, hashed, dest, genCanceled,
                     operationCanceled, wanted>>
    BY DEF readDone, canVars, envVars
<1>2. b = [j \in Slots |-> b[j]]
    OBVIOUS
<1> HIDE DEF b
<1>3. i \in 1..P /\ i # T /\ T \in 1..P
    BY Basics
<1>4. /\ DOMAIN buf' = 1..P /\ buf'[i] = b /\ \A j \in (1..P) \ {i} : buf'[j] = buf[j]
      /\ buf' = [j \in 1..P |-> buf'[j]]
    BY <1>1, <1>3, Buffers
<1>5. \A j \in 1..P : buf'[j] = [l \in Slots |-> buf'[j][l]]
    BY <1>2, <1>4, Buffers, Zenon
<1>6. k \in Int /\ k <= want[i]
    BY <1>1 DEF Slots
<1>7. res' \in [1..P -> Int] /\ res'[T] = res[T] /\ res'[i] = k /\ \A j \in (1..P) \ {i} : res'[j] = res[j]
    BY <1>1, <1>3, <1>6, Buffers
<1>8. \A j \in Readers : want[j] > 0 => res'[j] <= want[j]
    BY <1>3, <1>6, <1>7, Basics, Buffers
<1>9. want[T] # 0 /\ ~sd[T].open => res'[T] \in {InProgress, -1}
    BY <1>7 DEF RestoreInv, WriteInv
<1>10. buf'[T] = buf[T]
    BY <1>3, <1>4
<1>11. WorkInv'
    BY <1>1, <1>7, <1>10 DEF RestoreInv, WorkInv
<1>12. QED
    BY <1>1, <1>4, <1>5, <1>7, <1>8, <1>9, <1>11, Buffers, KernelStep DEF RestoreInv, TypeInv

\* The k bytes written lie behind those that were hashed.
LEMMA WriteDoneStep == ASSUME RestoreInv, NEW k \in Int, writeDone(k) PROVE RestoreInv'
<1> DEFINE s == SubSeq(buf[T], 1, k)
           off == sd[T].off
           len == sd[T].len
<1>1. /\ want[T] > 0 /\ sd[T].open /\ k \in 0..want[T]
      /\ work' = pwrite(work, off, s) /\ res' = [res EXCEPT ![T] = k]
      /\ UNCHANGED <<pc, n, at, sd, window, want, buf, hashed, dest, genCanceled,
                     operationCanceled, wanted>>
    BY DEF writeDone, Busy, canVars, envVars
<1>2. /\ Len(hashed) = off /\ off <= Len(work) /\ Len(work) <= off + len
      /\ \A j \in 1..off : work[j] = hashed[j]
    BY <1>1 DEF RestoreInv, WorkInv
<1>3. want[T] = len /\ want[T] # 0
    BY <1>1, Buffers DEF RestoreInv, WriteInv
<1>4. off \in Nat /\ len \in 0..BufSize /\ k \in 0..BufSize /\ k <= len
    <2>1. Len(hashed) \in Nat /\ len \in 0..BufSize
        BY Buffers, SeqLen
    <2>2. QED
        BY <1>1, <1>2, <1>3, <2>1
<1>5. IsSeq(s) /\ Len(s) = k /\ \A j \in 1..k : s[j] = buf[T][j]
    BY <1>4, Basics, Buffers, Cut
<1> HIDE DEF s
<1>6. /\ IsSeq(work') /\ Len(work') = IF Len(work) > off + k THEN Len(work) ELSE off + k
      /\ \A j \in 1..off : work'[j] = work[j]
      /\ \A j \in 1..k : work'[off + j] = s[j]
    <2>1. /\ IsSeq(pwrite(work, off, s))
          /\ Len(pwrite(work, off, s)) = IF Len(work) > off + Len(s) THEN Len(work) ELSE off + Len(s)
          /\ \A j \in 1..off : pwrite(work, off, s)[j] = work[j]
          /\ \A j \in 1..Len(s) : pwrite(work, off, s)[off + j] = s[j]
        <3>1. \A f, t, o : IsSeq(f) /\ IsSeq(t) /\ o \in Nat /\ o <= Len(f) =>
                  /\ IsSeq(pwrite(f, o, t))
                  /\ Len(pwrite(f, o, t)) = IF Len(f) > o + Len(t) THEN Len(f) ELSE o + Len(t)
                  /\ \A j \in 1..o : pwrite(f, o, t)[j] = f[j]
                  /\ \A j \in 1..Len(t) : pwrite(f, o, t)[o + j] = t[j]
            BY Written
        <3>2. IsSeq(work)
            BY Buffers
        <3>3. IsSeq(work) /\ IsSeq(s) /\ off \in Nat /\ off <= Len(work)
            BY <1>2, <1>4, <1>5, <3>2
        <3> HIDE DEF off
        <3>4. QED
            BY <3>1, <3>3
    <2>2. QED
        BY <1>1, <1>5, <2>1
<1>7. res' \in [1..P -> Int] /\ res'[T] = k /\ \A i \in Readers : res'[i] = res[i]
    BY <1>1, Basics, Buffers
<1>8. WorkInv'
    <2>1. Len(work) \in Nat
        BY Buffers, SeqLen
    <2> DEFINE W(w, r) == /\ Len(hashed) = off /\ off <= Len(w) /\ Len(w) <= off + len
                          /\ \A j \in 1..off : w[j] = hashed[j]
                          /\ want[T] # 0 /\ r = len =>
                                /\ Len(w) = off + len
                                /\ \A j \in 1..len : w[off + j] = buf[T][j]
    <2>2. /\ Len(hashed) = off /\ off <= Len(work') /\ Len(work') <= off + len
          /\ k = len => Len(work') = off + len
        BY <1>2, <1>4, <1>6, <2>1
    <2>3. \A j \in 1..off : work'[j] = hashed[j]
        BY <1>2, <1>6
    <2>4. k = len => \A j \in 1..len : work'[off + j] = buf[T][j]
        BY <1>5, <1>6
    <2>5. W(work', k)
        BY <2>2, <2>3, <2>4
    <2>6. QED
        BY <1>1, <1>7, <2>5 DEF WorkInv
<1>9. QED
    BY <1>1, <1>3, <1>6, <1>7, <1>8, Buffers, KernelStep DEF RestoreInv, TypeInv

LEMMA IntHandlerStep == ASSUME RestoreInv, intHandler PROVE RestoreInv'
<1>1. /\ UNCHANGED <<pc, n, at, sd, window, buf, want, res, work, hashed, dest, genCanceled, wanted>>
      /\ operationCanceled' = TRUE
    BY DEF intHandler, dataVars, aioVars, canVars
<1>2. WorkInv'
    BY <1>1 DEF RestoreInv, WorkInv
<1>3. want[T] # 0 /\ ~sd[T].open => res'[T] \in {InProgress, -1}
    BY <1>1 DEF RestoreInv, WriteInv
<1>4. QED
    BY <1>1, <1>2, <1>3, Buffers, KernelStep

----------------------------------------------------------------------------
(* From slice to slice.                                                    *)

LEMMA OffsetType ==
    ASSUME NEW m \in 1..Len(Plan), NEW d \in Disks, NEW i \in 1..(Len(Plan[m][d]) + 1)
    PROVE  Offset(m, d, i) \in Nat
<1> DEFINE F == [j \in Rows(m, d) |-> Size(m, d, j)]
<1>1. Rows(m, d) = 1..Len(Plan[m][d]) /\ Len(Plan[m][d]) \in Nat
      /\ \A j \in Rows(m, d) : Size(m, d, j) \in Nat
    BY PlanRows DEF Size
<1>2. 1..(i - 1) \subseteq Rows(m, d) /\ i - 1 \in Int
    BY <1>1
<1>3. \A j \in 1..(i - 1) : F[j] \in Nat
    BY <1>1, <1>2
<1>4. IsFiniteSet(1..(i - 1))
    BY <1>2, FS_Interval
<1> HIDE DEF F
<1>5. SumFunctionOnSet(F, 1..(i - 1)) \in Nat
    BY <1>3, <1>4, SumType
<1>6. QED
    BY <1>5 DEF Offset, F

LEMMA ParityLen ==
    ASSUME NEW m \in 1..Len(Plan)
    PROVE  Len(Parity[m]) \in Nat
<1> DEFINE total(d) == Offset(m, d, Len(Plan[m][d]) + 1)
           totals == {total(d) : d \in Disks}
<1>1. \A d \in Disks : total(d) \in Nat
    BY PlanRows, OffsetType
<1> HIDE DEF total
<1>2. NDisks \in Nat \ {0}
    BY DEF Disks
<1>3. PICK d \in Disks : \A c \in Disks : total(c) <= total(d)
    <2> DEFINE F == [c \in Disks |-> total(c)]
    <2>1. \A c \in 1..NDisks : F[c] \in Nat
        BY <1>1 DEF Disks
    <2>2. \E d \in 1..NDisks : \A c \in 1..NDisks : F[c] <= F[d]
        BY <1>2, <2>1, LargestOf
    <2>3. QED
        BY <2>2 DEF Disks
<1>4. total(d) \in totals /\ \A t \in totals : t <= total(d)
    BY <1>3
<1>5. totals \subseteq Nat
    BY <1>1
<1> HIDE DEF totals
<1>7. (CHOOSE s \in totals : \A t \in totals : t <= s) \in totals
    BY <1>4
<1>8. SliceSize(m) \in Nat
    BY <1>5, <1>7 DEF SliceSize, totals, total
<1> DEFINE e(p) == UNION {{<<m, c, i, p - Offset(m, c, i)>> : i \in Holding(m, c, p)} : c \in Disks}
           b == [p \in 1..SliceSize(m) |-> e(p)]
<1>9. m \in Slices
    BY PlanAssumption DEF Slices
<1>10. b = Parity[m]
    BY <1>9 DEF Parity
<1> HIDE DEF e
<1>11. b = [p \in 1..SliceSize(m) |-> b[p]]
    OBVIOUS
<1> HIDE DEF b
<1>12. Len(b) = SliceSize(m)
    BY <1>8, <1>11, Mapped
<1>13. QED
    BY <1>8, <1>10, <1>12

LEMMA FreshType ==
    ASSUME NEW m \in 1..Len(Plan)
    PROVE  FreshFor(m) \in [1..P -> Record] /\ FreshFor(m)[T] = Fresh
           /\ \A i \in 1..P : FreshFor(m)[i].len = 0
<1>1. Len(Parity[m]) \in Nat
    BY ParityLen
<1> DEFINE k == Len(Parity[m])
           p == [Fresh EXCEPT !.left = k, !.size = k, !.open = TRUE]
<1>2. Fresh \in Record /\ Fresh.len = 0
    BY DEF Fresh, Record
<1>3. p \in Record /\ p.len = 0
    <2> DEFINE a == [Fresh EXCEPT !.left = k, !.size = k]
    <2>1. k \in Int /\ k \in Nat
        BY <1>1
    <2> HIDE DEF k
    <2>2. a \in Record /\ a.len = 0
        BY <1>2, <2>1 DEF Record
    <2>3. p = [a EXCEPT !.open = TRUE]
        OBVIOUS
    <2> HIDE DEF a
    <2>4. QED
        BY <2>2, <2>3 DEF Record
<1>4. FreshFor(m) = [i \in 1..P |-> IF i = P THEN p ELSE Fresh]
    BY DEF FreshFor
<1> HIDE DEF p
<1>5. QED
    BY <1>2, <1>3, <1>4, Basics

LEMMA NextSliceStep == ASSUME RestoreInv, NEW ok \in BOOLEAN, nextSlice(ok) PROVE RestoreInv'
<1>1. /\ pc = "next"
      /\ UNCHANGED <<at, buf, work, hashed, dest, want, res, operationCanceled, wanted>>
    BY DEF nextSlice, dataVars, aioVars, envVars
<1>2. want[T] = 0
    BY <1>1, Placed
<1>3. CASE n = Len(Plan) \/ operationCanceled
    <2>1. pc' = "done" /\ UNCHANGED <<n, sd, window, genCanceled>>
        BY <1>3 DEF nextSlice
    <2>2. QED
        BY <1>1, <2>1, Placed, ControlStep DEF Places
<1>4. CASE ~(n = Len(Plan) \/ operationCanceled)
    <2>1. /\ pc' \in {"round", "next"} /\ n' = n + 1 /\ sd' = FreshFor(n + 1)
          /\ window' = [start |-> 0, size |-> 0] /\ genCanceled' = FALSE
        BY <1>4 DEF nextSlice
    <2>2. n + 1 \in 1..Len(Plan) /\ n + 1 # 0 /\ n + 1 \in 0..Len(Plan)
        BY <1>4, PlanAssumption DEF RestoreInv, TypeInv
    <2>3. sd' \in [1..P -> Record] /\ sd'[T] = Fresh /\ \A i \in 1..P : sd'[i].len = 0
        BY <2>1, <2>2, FreshType
    <2>4. ASSUME NEW i \in Readers PROVE want'[i] <= BufSize - sd'[i].len
        <3>1. sd[i] \in Record /\ want[i] \in Int /\ want[i] <= BufSize - sd[i].len /\ sd'[i].len = 0
            BY <2>3, Basics DEF RestoreInv, TypeInv
        <3>2. sd[i].len \in 0..BufSize
            BY <3>1 DEF Record
        <3>3. QED
            BY <1>1, <3>1, <3>2
    <2>5. window' \in [start : Nat, size : Nat]
        BY <2>1
    <2>6. TypeInv'
        BY <1>1, <2>1, <2>2, <2>3, <2>4, <2>5 DEF RestoreInv, TypeInv
    <2>7. WriteInv'
        BY <1>1, <1>2, <2>1, <2>3 DEF WriteInv, Fresh
    <2>8. WorkInv' /\ TargetInv'
        BY <2>1, <2>3 DEF WorkInv, TargetInv, Fresh
    <2>9. Exact'
        BY <1>1 DEF RestoreInv, Exact, Content, Size
    <2>10. QED
        BY <2>6, <2>7, <2>8, <2>9 DEF RestoreInv
<1>5. QED
    BY <1>3, <1>4

LEMMA NoNextTargetStep == ASSUME RestoreInv, noNextTarget PROVE RestoreInv'
<1>1. /\ pc = "file" /\ pc' = "next" /\ ~genCanceled
      /\ sd' = [sd EXCEPT ![T].fin = TRUE, ![T].seq = Len(Plan[n][T])]
      /\ UNCHANGED <<n, at, window, buf, work, hashed, dest, want, res, genCanceled,
                     operationCanceled, wanted>>
    BY DEF noNextTarget, dataVars, aioVars, canVars, envVars
<1>2. ~sd[T].open /\ want[T] = 0 /\ n # 0
    BY <1>1, Placed DEF RestoreInv, TargetInv
<1>3. n \in 1..Len(Plan) /\ T \in Disks
    BY <1>2, PlanAssumption DEF RestoreInv, TypeInv
<1>4. Len(Plan[n][T]) \in Nat
    BY <1>3, PlanRows
<1> DEFINE t == [sd[T] EXCEPT !.fin = TRUE, !.seq = Len(Plan[n][T])]
<1>5. sd \in [1..P -> Record] /\ sd[T] \in Record
    BY Basics DEF RestoreInv, TypeInv
<1>6. t \in Record /\ t.len = sd[T].len /\ ~t.open
    BY <1>2, <1>4, <1>5 DEF Record
<1>7. sd' = [sd EXCEPT ![T] = t]
    BY <1>1
<1> HIDE DEF t
<1>8. sd' \in [1..P -> Record] /\ sd'[T] = t /\ \A i \in Readers : sd'[i] = sd[i]
    BY <1>5, <1>6, <1>7, Basics
<1>9. TypeInv'
    BY <1>1, <1>8 DEF RestoreInv, TypeInv
<1>10. WriteInv'
    BY <1>1, <1>2 DEF WriteInv
<1>11. WorkInv' /\ TargetInv'
    BY <1>1, <1>6, <1>8 DEF WorkInv, TargetInv
<1>12. Exact'
    BY <1>1 DEF RestoreInv, Exact, Content, Size
<1>13. QED
    BY <1>9, <1>10, <1>11, <1>12 DEF RestoreInv

----------------------------------------------------------------------------
(* The target file.                                                        *)

LEMMA Retargeted ==
    ASSUME NEW w \in [start : Nat, size : Nat], NEW r \in Record
    PROVE  newTargetFile(w, r) \in Record /\ newTargetFile(w, r).len = r.len
<1> DEFINE a == [r EXCEPT !.fin = FALSE, !.left = r.size, !.off = 0]
           b == [r EXCEPT !.fin = FALSE, !.open = FALSE]
<1>1. newTargetFile(w, r) = fitTransferOption(w, a) \/ newTargetFile(w, r) = b
    BY DEF newTargetFile
<1>2. b \in Record /\ b.len = r.len
    BY DEF Record
<1>3. a \in Record /\ a.len = r.len
    <2> DEFINE A(l, o) == [r EXCEPT !.fin = FALSE, !.left = l, !.off = o]
    <2>1. \A l \in Int, o \in Nat : A(l, o) \in Record /\ A(l, o).len = r.len
        BY DEF Record
    <2>2. r.size \in Int /\ 0 \in Nat
        BY DEF Record
    <2> HIDE DEF A
    <2>3. A(r.size, 0) \in Record /\ A(r.size, 0).len = r.len
        BY <2>1, <2>2
    <2>4. QED
        BY <2>3 DEF A
<1> HIDE DEF a, b
<1>4. QED
    BY <1>1, <1>2, <1>3, Fitted

LEMMA OpenTargetStep == ASSUME RestoreInv, NEW ok \in BOOLEAN, openTarget(ok) PROVE RestoreInv'
<1> DEFINE i == least(ToRestore)
           f == Plan[n][T][i]
           w == [start |-> f.start, size |-> f.size]
           t == [sd[T] EXCEPT !.seq = i, !.left = f.size, !.size = f.size, !.start = f.start,
                              !.off = 0, !.open = ok]
<1>1. /\ pc = "file" /\ ~genCanceled /\ ToRestore # {}
      /\ sd' = [j \in 1..P |-> IF j = T THEN t ELSE IF ok THEN newTargetFile(w, sd[j]) ELSE sd[j]]
      /\ window' = IF ok THEN w ELSE window
      /\ pc' = IF ~ok THEN "next" ELSE IF f.size = 0 THEN "empty" ELSE "pass"
      /\ genCanceled' = ~ok /\ work' = <<>> /\ hashed' = <<>>
      /\ UNCHANGED <<n, at, buf, dest, want, res, operationCanceled, wanted>>
    BY DEF openTarget, aioVars, envVars
<1>2. n \in 1..Len(Plan) /\ want[T] = 0 /\ ~sd[T].fin /\ at = 1
    BY <1>1, Placed, PlanAssumption DEF RestoreInv, TypeInv
<1>3. Rows(n, T) \subseteq Nat /\ \A j \in Rows(n, T) : Plan[n][T][j].size \in Nat /\ Plan[n][T][j].start \in Nat
    BY <1>2, PlanRows
<1>4. i \in Rows(n, T) /\ wanted[<<n, i>>] = "yes"
    <2>1. ToRestore \in SUBSET Nat
        BY <1>3 DEF ToRestore
    <2>2. i \in ToRestore
        BY <1>1, <2>1, LeastOf
    <2> HIDE DEF i
    <2>3. QED
        BY <2>2 DEF ToRestore
<1>5. i \in Nat /\ f.size \in Nat /\ f.start \in Nat
    BY <1>3, <1>4
<1>6. w \in [start : Nat, size : Nat] /\ window \in [start : Nat, size : Nat]
    BY <1>5 DEF RestoreInv, TypeInv
<1>7. sd \in [1..P -> Record] /\ sd[T] \in Record
    BY Basics DEF RestoreInv, TypeInv
<1>8. t \in Record /\ t.len = sd[T].len /\ t.seq = i /\ t.off = 0 /\ t.open = ok /\ t.fin = sd[T].fin
      /\ t.size = f.size
    <2> HIDE DEF i
    <2> DEFINE O(q, s, b, l) == [sd[T] EXCEPT !.seq = q, !.left = l, !.size = s, !.start = b,
                                              !.off = 0, !.open = ok]
               a(q, s, b) == [sd[T] EXCEPT !.seq = q, !.size = s, !.start = b]
               As(o, q, s) == /\ o \in Record /\ o.len = sd[T].len /\ o.seq = q /\ o.off = 0
                              /\ o.open = ok /\ o.fin = sd[T].fin /\ o.size = s
    <2>1. ASSUME NEW q \in Nat, NEW s \in Nat, NEW b \in Nat, NEW l \in Int
          PROVE  As(O(q, s, b, l), q, s)
        <3>1. /\ a(q, s, b) \in Record /\ a(q, s, b).len = sd[T].len /\ a(q, s, b).seq = q
              /\ a(q, s, b).fin = sd[T].fin /\ a(q, s, b).size = s
            BY <1>7 DEF Record
        <3>2. O(q, s, b, l) = [a(q, s, b) EXCEPT !.left = l, !.off = 0, !.open = ok]
            OBVIOUS
        <3>3. PICK r, o : r = a(q, s, b) /\ o = O(q, s, b, l)
            OBVIOUS
        <3> HIDE DEF O, a
        <3>4. /\ r \in Record /\ r.len = sd[T].len /\ r.seq = q /\ r.fin = sd[T].fin /\ r.size = s
              /\ o = [r EXCEPT !.left = l, !.off = 0, !.open = ok]
            BY <3>1, <3>2, <3>3
        <3>5. o \in Record
            BY <3>4 DEF Record
        <3>6. /\ o.len = r.len /\ o.seq = r.seq /\ o.fin = r.fin /\ o.size = r.size
              /\ o.off = 0 /\ o.open = ok
            BY <3>4 DEF Record
        <3>7. As(o, q, s)
            BY <3>4, <3>5, <3>6
        <3>8. QED
            BY <3>3, <3>7
    <2> HIDE DEF O, As
    <2>2. As(O(i, f.size, f.start, f.size), i, f.size)
        <3>1. f.size \in Int
            BY <1>5
        <3> HIDE DEF f
        <3>2. QED
            BY <1>5, <2>1, <3>1
    <2>3. QED
        BY <2>2 DEF O, As
<1> HIDE DEF i, f, w, t
<1>9. sd'[T] = t /\ \A j \in Readers : sd'[j] = IF ok THEN newTargetFile(w, sd[j]) ELSE sd[j]
    BY <1>1, Basics
<1>10. \A j \in Readers : sd'[j] \in Record /\ sd'[j].len = sd[j].len
    <2>1. \A j \in Readers : sd[j] \in Record
        BY <1>7, Basics
    <2>2. \A j \in Readers : newTargetFile(w, sd[j]) \in Record /\ newTargetFile(w, sd[j]).len = sd[j].len
        BY <1>6, <2>1, Retargeted
    <2>3. QED
        BY <1>9, <2>1, <2>2
<1>11. sd' \in [1..P -> Record]
    <2>1. sd' = [j \in 1..P |-> sd'[j]]
        BY <1>1
    <2>2. \A j \in 1..P : sd'[j] \in Record
        BY <1>8, <1>9, <1>10, Basics
    <2>3. QED
        BY <2>1, <2>2
<1>12. TypeInv'
    <2>1. window' \in [start : Nat, size : Nat]
        BY <1>1, <1>6
    <2>2. genCanceled' \in BOOLEAN
        BY <1>1
    <2>3. n # 0 /\ at \in 0..(P + 1) /\ at # 0
        BY <1>2, Basics
    <2>4. \A j \in Readers : want'[j] <= BufSize - sd'[j].len /\ (want'[j] > 0 => res'[j] <= want'[j])
        BY <1>1, <1>10 DEF RestoreInv, TypeInv
    <2>5. pc' \in Places /\ pc' # "file" /\ (pc' = "empty" => at' = 1)
        BY <1>1, <1>2 DEF Places
    <2>6. IsSeq(work') /\ IsSeq(hashed')
        BY <1>1, EmptySeq
    <2>7. QED
        BY <1>1, <1>2, <1>11, <2>1, <2>2, <2>3, <2>4, <2>5, <2>6 DEF RestoreInv, TypeInv, Places
<1>13. WriteInv'
    <2>1. ~(1 > T)
        BY Basics
    <2>2. QED
        BY <1>1, <1>2, <1>8, <1>9, <2>1 DEF WriteInv, HasTarget
<1>14. WorkInv'
    <2>1. sd[T].len \in Nat /\ Len(<<>>) = 0 /\ 1..0 = {}
        BY <1>7, EmptySeq DEF Record
    <2>2. Len(hashed') = 0 /\ Len(work') = 0 /\ sd'[T].off = 0 /\ sd'[T].len \in Nat /\ want'[T] = 0
        BY <1>1, <1>2, <1>8, <1>9, <2>1
    <2>3. QED
        BY <2>1, <2>2 DEF WorkInv
<1>15. TargetInv'
    <2>1. /\ sd'[T].seq \in Rows(n', T) /\ wanted'[<<n', sd'[T].seq>>] = "yes"
          /\ Size(n', T, sd'[T].seq) = f.size
        BY <1>1, <1>4, <1>8, <1>9 DEF Rows, Size, f
    <2>2. pc' = "empty" => sd'[T].open /\ f.size = 0
        BY <1>1, <1>8, <1>9
    <2>3. pc' # "file"
        BY <1>1
    <2>4. QED
        BY <1>1, <2>1, <2>2, <2>3 DEF TargetInv
<1>16. Exact'
    BY <1>1 DEF RestoreInv, Exact, Content, Size
<1>17. QED
    BY <1>12, <1>13, <1>14, <1>15, <1>16 DEF RestoreInv

\* A work file that has the bytes that were hashed is restored or kept from its destination.
LEMMA Finished ==
    ASSUME RestoreInv, NEW t \in Record, NEW h, NEW saved, finishCurrentFile(t, h, saved),
           t.seq = sd[T].seq, sd[T].open, IsSeq(h), work = h,
           Len(h) = 0 => h = Content(n, sd[T].seq), UNCHANGED <<n, work, wanted>>
    PROVE  /\ Exact' /\ genCanceled' \in BOOLEAN /\ (genCanceled => genCanceled')
           /\ \E q \in Record : /\ sd' = [sd EXCEPT ![T] = q] /\ (q.open => genCanceled')
                                    /\ q.seq = t.seq /\ q.off = t.off /\ q.len = t.len /\ q.fin = t.fin
<1> DEFINE bad == genCanceled \/ wrongHash(h)
           left == bad \/ saved = "exists"
           q    == [t EXCEPT !.size = 0, !.start = 0, !.open = left]
<1>1. /\ bad => saved = "ok"
      /\ sd' = [sd EXCEPT ![T] = q]
      /\ IF ~bad /\ saved = "ok"
         THEN dest' = dest \cup {<<n, t.seq, work>>} /\ UNCHANGED canVars
         ELSE cancelGen(FALSE) /\ dest' = dest
    BY DEF finishCurrentFile
<1>2. genCanceled \in BOOLEAN
    BY Placed
<1>3. genCanceled' \in BOOLEAN /\ (genCanceled => genCanceled') /\ (left => genCanceled')
    <2> HIDE DEF bad
    <2>1. CASE ~bad /\ saved = "ok"
        BY <1>1, <1>2, <2>1 DEF canVars
    <2>2. CASE ~(~bad /\ saved = "ok")
        BY <1>1, <1>2, <2>2 DEF cancelGen
    <2>3. QED
        BY <2>1, <2>2
<1>4. q \in Record /\ q.open = left /\ q.seq = t.seq /\ q.off = t.off /\ q.len = t.len /\ q.fin = t.fin
    <2>1. left \in BOOLEAN
        OBVIOUS
    <2> HIDE DEF left
    <2> DEFINE a == [t EXCEPT !.size = 0, !.start = 0]
    <2>2. a \in Record /\ a.seq = t.seq /\ a.off = t.off /\ a.len = t.len /\ a.fin = t.fin
        BY DEF Record
    <2>3. q = [a EXCEPT !.open = left]
        OBVIOUS
    <2> HIDE DEF a
    <2>4. QED
        BY <2>1, <2>2, <2>3 DEF Record
<1>5. Exact'
    <2>1. Exact
        BY DEF RestoreInv
    <2>2. ASSUME ~bad PROVE wanted[<<n, t.seq>>] = "yes" /\ work = Content(n, t.seq)
        <3>1. Len(h) \in Nat
            BY SeqLen
        <3>2. CASE Len(h) = 0
            BY <3>2 DEF RestoreInv, TargetInv
        <3>3. CASE Len(h) > 0
            BY <2>2, <3>3 DEF wrongHash, RestoreInv, TargetInv
        <3>4. QED
            BY <3>1, <3>2, <3>3
    <2>3. CASE ~bad /\ saved = "ok"
        <3> DEFINE g == <<n, t.seq, work>>
        <3>1. g[1] = n /\ g[2] = t.seq /\ g[3] = work
            OBVIOUS
        <3> HIDE DEF g, bad
        <3>2. dest' = dest \cup {g}
            BY <1>1, <2>3 DEF g
        <3>3. wanted[<<g[1], g[2]>>] = "yes" /\ g[3] = Content(g[1], g[2])
            BY <2>2, <2>3, <3>1 DEF bad
        <3>4. \A f \in dest' : wanted[<<f[1], f[2]>>] = "yes" /\ f[3] = Content(f[1], f[2])
            BY <2>1, <3>2, <3>3 DEF Exact
        <3>5. QED
            BY <3>4 DEF Exact, Content, Size
    <2>4. CASE ~(~bad /\ saved = "ok")
        <3>1. dest' = dest
            BY <1>1, <2>4
        <3>2. QED
            BY <2>1, <3>1 DEF Exact, Content, Size
    <2>5. QED
        BY <2>3, <2>4
<1> HIDE DEF q, left, bad
<1>6. QED
    BY <1>1, <1>3, <1>4, <1>5

\* The step after which nothing is being written
LEMMA TargetSettled ==
    ASSUME RestoreInv, NEW q \in Record, sd' = [sd EXCEPT ![T] = q],
           pc' \in Places \ {"empty", "after"}, at' \in 0..(P + 1), pc' = "file" => at' = 1,
           at' = 0 /\ pc' = "pass" => genCanceled', genCanceled' \in BOOLEAN,
           pc' \notin {"next", "done"} => n # 0 /\ ~q.fin,
           want' \in [1..P -> Int], want'[T] = 0, \A i \in Readers : want'[i] \in {0, want[i]},
           buf' = [i \in 1..P |-> buf'[i]], \A i \in 1..P : buf'[i] = [k \in Slots |-> buf'[i][k]],
           pc' = "pass" => at' \notin 1..T /\ q.len = 0, IsSeq(hashed'),
           q.open => /\ Len(hashed') = q.off /\ work = hashed' /\ q.seq = sd[T].seq /\ sd[T].open
                     /\ (pc' = "file" => genCanceled'),
           Exact', UNCHANGED <<n, window, res, work, operationCanceled, wanted>>
    PROVE  RestoreInv'
<1>1. sd \in [1..P -> Record] /\ T \in 1..P
    BY Basics DEF RestoreInv, TypeInv
<1>2. sd' \in [1..P -> Record] /\ sd'[T] = q /\ \A i \in Readers : sd'[i] = sd[i]
    BY <1>1, Basics
<1>3. ASSUME NEW i \in Readers
      PROVE  want'[i] <= BufSize - sd'[i].len /\ (want'[i] > 0 => res'[i] <= want'[i])
    <2>1. /\ sd'[i] = sd[i] /\ sd[i] \in Record /\ want[i] <= BufSize - sd[i].len
          /\ want[i] > 0 => res[i] <= want[i]
        BY <1>1, <1>2, Basics DEF RestoreInv, TypeInv
    <2>2. sd[i].len \in 0..BufSize
        BY <2>1 DEF Record
    <2>3. 0 <= BufSize - sd[i].len /\ ~(0 > 0)
        BY <2>2
    <2>4. CASE want'[i] = 0
        BY <2>1, <2>3, <2>4
    <2>5. CASE want'[i] = want[i]
        BY <2>1, <2>5
    <2>6. QED
        BY <2>4, <2>5
<1>4. TypeInv'
    BY <1>2, <1>3 DEF RestoreInv, TypeInv, Places
<1>5. WriteInv'
    BY <1>2 DEF WriteInv
<1>6. WorkInv'
    <2>1. Len(hashed') \in Nat
        BY SeqLen
    <2>2. q.len \in Nat
        BY DEF Record
    <2>3. q.open => Len(work) = q.off /\ q.off <= Len(work) /\ Len(work) <= q.off + q.len
                    /\ \A k \in 1..q.off : work[k] = hashed'[k]
        BY <2>1, <2>2
    <2>4. QED
        BY <1>2, <2>3 DEF WorkInv
<1>7. TargetInv'
    BY <1>2 DEF RestoreInv, TargetInv, Rows, Size
<1>8. QED
    BY <1>4, <1>5, <1>6, <1>7 DEF RestoreInv

LEMMA SaveEmptyStep == ASSUME RestoreInv, NEW saved, saveEmpty(saved) PROVE RestoreInv'
<1>1. /\ pc = "empty" /\ pc' = "file" /\ finishCurrentFile(sd[T], hashed, saved)
      /\ UNCHANGED <<n, at, window, buf, want, res, work, hashed, operationCanceled, wanted>>
    BY DEF saveEmpty, aioVars, envVars
<1>2. /\ sd[T].open /\ work = <<>> /\ hashed = <<>> /\ Size(n, T, sd[T].seq) = 0
      /\ want[T] = 0 /\ n # 0 /\ at = 1 /\ ~sd[T].fin
    BY <1>1, Placed DEF RestoreInv, TargetInv
<1>3. Content(n, sd[T].seq) = <<>>
    <2>1. 1..0 = {}
        OBVIOUS
    <2>2. Content(n, sd[T].seq) = [k \in {} |-> {<<n, T, sd[T].seq, k>>}]
        BY <1>2, <2>1 DEF Content
    <2>3. QED
        BY <2>2
<1>4. /\ Exact' /\ genCanceled' \in BOOLEAN
      /\ \E q \in Record : /\ sd' = [sd EXCEPT ![T] = q] /\ (q.open => genCanceled')
                               /\ q.seq = sd[T].seq /\ q.off = sd[T].off /\ q.len = sd[T].len
                               /\ q.fin = sd[T].fin
    BY <1>1, <1>2, <1>3, Buffers, Finished
<1>5. PICK q \in Record : /\ sd' = [sd EXCEPT ![T] = q] /\ (q.open => genCanceled')
                              /\ q.seq = sd[T].seq /\ q.off = sd[T].off /\ q.len = sd[T].len
                              /\ q.fin = sd[T].fin
    BY <1>4
<1>6. want' \in [1..P -> Int] /\ \A i \in Readers : want'[i] \in {0, want[i]}
    BY <1>1, Buffers
<1>7. sd[T].open => Len(hashed) = sd[T].off
    BY DEF RestoreInv, WorkInv
<1>8. QED
    BY <1>1, <1>2, <1>4, <1>5, <1>6, <1>7, Placed, Buffers, TargetSettled DEF Places

LEMMA StartWriteStep == ASSUME RestoreInv, startWrite PROVE RestoreInv'
<1>1. /\ pc = "pass" /\ pc' = "pass" /\ at = T /\ want[T] = 0 /\ ~genCanceled /\ sd[T].len > 0
      /\ want' = [want EXCEPT ![T] = sd[T].len] /\ res' = [res EXCEPT ![T] = InProgress]
      /\ at' = at + 1
      /\ UNCHANGED <<n, sd, window, buf, work, hashed, dest, genCanceled, operationCanceled, wanted>>
    BY DEF startWrite, dataVars, canVars, envVars
<1>2. sd[T].len \in 0..BufSize
    BY Buffers
<1>3. /\ want' \in [1..P -> Int] /\ want'[T] = sd[T].len /\ \A i \in Readers : want'[i] = want[i]
      /\ res' \in [1..P -> Int] /\ res'[T] = InProgress /\ \A i \in Readers : res'[i] = res[i]
    BY <1>1, <1>2, Basics, Buffers DEF InProgress
<1>4. res'[T] # sd[T].len /\ want'[T] # 0
    BY <1>1, <1>2, <1>3 DEF InProgress
<1>5. at' \in 0..(P + 1) /\ at' # 0 /\ at' \notin 1..T /\ at \in 1..T
    BY <1>1, Basics
<1>6. TypeInv'
    BY <1>1, <1>3, <1>5 DEF RestoreInv, TypeInv
<1>7. HasTarget /\ HasTarget'
    BY <1>1, <1>5 DEF RestoreInv, WriteInv, HasTarget
<1>8. WriteInv'
    BY <1>1, <1>3, <1>4, <1>5, <1>7 DEF RestoreInv, WriteInv
<1>9. QED
    BY <1>1, <1>4, <1>6, <1>8, TargetKept

LEMMA FinishWriteStep == ASSUME RestoreInv, NEW saved, finishWrite(saved) PROVE RestoreInv'
<1> DEFINE k == sd[T].len
           off == sd[T].off
           part == SubSeq(buf[T], 1, k)
           t == [sd[T] EXCEPT !.len = 0, !.off = off + k, !.left = sd[T].left - k]
           h == hashed \o part
           b == [j \in Slots |-> IF j <= k THEN {} ELSE buf[T][j]]
<1>1. /\ pc = "pass" /\ pc' = "pass" /\ at = T /\ at' = at + 1 /\ want[T] > 0 /\ res[T] = k
      /\ hashed' = h /\ buf' = [buf EXCEPT ![T] = b] /\ want' = [want EXCEPT ![T] = 0]
      /\ IF t.left <= 0 THEN finishCurrentFile(t, h, saved)
         ELSE sd' = [sd EXCEPT ![T] = t] /\ UNCHANGED <<dest, canVars>>
      /\ UNCHANGED <<n, window, work, res, operationCanceled, wanted>>
    BY DEF finishWrite, Done, envVars
<1>2. k \in 0..BufSize /\ off \in Int /\ sd[T] \in Record /\ n # 0 /\ ~sd[T].fin /\ genCanceled \in BOOLEAN
    BY <1>1, Buffers, Placed
<1>3. want[T] = k /\ k > 0
    BY <1>1, <1>2 DEF RestoreInv, WriteInv
<1>4. sd[T].open
    <2>1. k # InProgress /\ k # -1
        BY <1>3, <1>2 DEF InProgress
    <2>2. QED
        BY <1>1, <1>3, <2>1 DEF RestoreInv, WriteInv
<1>5. /\ Len(hashed) = off /\ Len(work) = off + k
      /\ \A j \in 1..off : work[j] = hashed[j]
      /\ \A j \in 1..k : work[off + j] = buf[T][j]
    BY <1>1, <1>3, <1>4 DEF RestoreInv, WorkInv
<1>6. IsSeq(part) /\ Len(part) = k /\ \A j \in 1..k : part[j] = buf[T][j]
    BY <1>2, Basics, Buffers, Cut
<1> HIDE DEF part
<1>7. /\ IsSeq(h) /\ Len(h) = off + k
      /\ \A j \in 1..off : h[j] = hashed[j]
      /\ \A j \in 1..k : h[off + j] = part[j]
    <2>1. IsSeq(hashed)
        BY Buffers
    <2>2. /\ IsSeq(h) /\ Len(h) = Len(hashed) + Len(part)
          /\ \A j \in 1..Len(hashed) : h[j] = hashed[j]
          /\ \A j \in 1..Len(part) : h[Len(hashed) + j] = part[j]
        BY <1>6, <2>1, Joined, SMTT(30)
    <2> HIDE DEF h
    <2>3. QED
        BY <1>5, <1>6, <2>2
<1> HIDE DEF h
<1>8. off \in Nat
    BY <1>5, Buffers, SeqLen
<1>9. work = h
    <2>1. ASSUME NEW j \in 1..(off + k) PROVE work[j] = h[j]
        <3>1. CASE j \in 1..off
            BY <1>5, <1>7, <3>1
        <3>2. CASE j \notin 1..off
            <4>1. j - off \in 1..k /\ off + (j - off) = j
                BY <1>2, <1>8, <3>2
            <4>2. work[off + (j - off)] = buf[T][j - off] /\ h[off + (j - off)] = part[j - off]
                  /\ part[j - off] = buf[T][j - off]
                BY <1>5, <1>6, <1>7, <4>1
            <4>3. QED
                BY <4>1, <4>2
        <3>3. QED
            BY <3>1, <3>2
    <2>2. QED
        BY <1>5, <1>7, <2>1, Buffers, SameSeq
<1>10. t \in Record /\ t.len = 0 /\ t.off = off + k /\ t.seq = sd[T].seq /\ t.fin = sd[T].fin
    <2> DEFINE A(x, y, z) == [sd[T] EXCEPT !.len = x, !.off = y, !.left = z]
    <2>1. \A x \in 0..BufSize, y \in Nat, z \in Int :
              A(x, y, z) \in Record /\ A(x, y, z).len = x /\ A(x, y, z).off = y
              /\ A(x, y, z).seq = sd[T].seq /\ A(x, y, z).fin = sd[T].fin
        BY <1>2 DEF Record
    <2>2. sd[T].left \in Int
        BY <1>2 DEF Record
    <2>3. 0 \in 0..BufSize /\ off + k \in Nat /\ sd[T].left - k \in Int
        BY <1>2, <1>8, <2>2
    <2> HIDE DEF A
    <2>4. \A y \in Nat, z \in Int :
              A(0, y, z) \in Record /\ A(0, y, z).len = 0 /\ A(0, y, z).off = y
              /\ A(0, y, z).seq = sd[T].seq /\ A(0, y, z).fin = sd[T].fin
        BY <2>1, <2>3
    <2>5. \A y \in Nat, z \in Int : y = off + k /\ z = sd[T].left - k => t = A(0, y, z)
        BY DEF A
    <2>6. \A y \in Nat, z \in Int : y = off + k /\ z = sd[T].left - k =>
              t \in Record /\ t.len = 0 /\ t.off = off + k /\ t.seq = sd[T].seq /\ t.fin = sd[T].fin
        <3> HIDE DEF t
        <3>1. QED
            BY <2>4, <2>5
    <2>7. QED
        BY <2>3, <2>6
<1> HIDE DEF t
<1>11. /\ want' \in [1..P -> Int] /\ want'[T] = 0 /\ \A i \in Readers : want'[i] = want[i]
    BY <1>1, Basics, Buffers
<1>12. buf' = [i \in 1..P |-> buf'[i]] /\ \A i \in 1..P : buf'[i] = [j \in Slots |-> buf'[i][j]]
    <2>1. b = [j \in Slots |-> b[j]]
        OBVIOUS
    <2> HIDE DEF b
    <2>2. /\ buf' = [i \in 1..P |-> buf'[i]] /\ buf'[T] = b /\ \A i \in (1..P) \ {T} : buf'[i] = buf[i]
        BY <1>1, Basics, Buffers
    <2>3. QED
        BY <2>1, <2>2, Buffers, Zenon
<1>13. at' \in 0..(P + 1) /\ at' # 0 /\ at' \notin 1..T
    BY <1>1, Basics
<1>14. Len(h) # 0
    BY <1>3, <1>2, <1>7, <1>8
<1>15. /\ Exact' /\ genCanceled' \in BOOLEAN
       /\ \E q \in Record : /\ sd' = [sd EXCEPT ![T] = q]
                                /\ q.seq = t.seq /\ q.off = t.off /\ q.len = t.len /\ q.fin = t.fin
    <2>1. CASE t.left <= 0
        BY <1>1, <1>4, <1>7, <1>9, <1>10, <1>14, <2>1, Finished
    <2>2. CASE ~(t.left <= 0)
        BY <1>1, <1>2, <1>10, <2>2 DEF RestoreInv, Exact, Content, Size, canVars
    <2>3. QED
        BY <2>1, <2>2
<1>16. PICK q \in Record : /\ sd' = [sd EXCEPT ![T] = q]
                               /\ q.seq = t.seq /\ q.off = t.off /\ q.len = t.len /\ q.fin = t.fin
    BY <1>15
<1>17. /\ IsSeq(hashed') /\ Len(hashed') = q.off
       /\ work = hashed' /\ q.seq = sd[T].seq /\ q.len = 0 /\ ~q.fin
    BY <1>1, <1>2, <1>7, <1>9, <1>10, <1>11, <1>16
<1>18. pc' \in Places \ {"empty", "after"} /\ pc' # "file" /\ Exact' /\ genCanceled' \in BOOLEAN
    BY <1>1, <1>15 DEF Places
<1>19. UNCHANGED <<n, window, res, work, operationCanceled, wanted>>
    BY <1>1
<1>20. sd' = [sd EXCEPT ![T] = q]
    BY <1>16
<1>21. /\ pc' = "file" => at' = 1
       /\ at' = 0 /\ pc' = "pass" => genCanceled'
       /\ pc' \notin {"next", "done"} => n # 0 /\ ~q.fin
       /\ pc' = "pass" => at' \notin 1..T /\ q.len = 0
    BY <1>2, <1>13, <1>17, <1>18
<1>22. q.open => /\ Len(hashed') = q.off /\ work = hashed' /\ q.seq = sd[T].seq /\ sd[T].open
                 /\ (pc' = "file" => genCanceled')
    BY <1>4, <1>17, <1>18
<1>23. \A i \in Readers : want'[i] \in {0, want[i]}
    BY <1>11
<1> HIDE DEF b
<1>24. QED
    BY <1>11, <1>12, <1>13, <1>17, <1>18, <1>19, <1>20, <1>21, <1>22, <1>23, TargetSettled

----------------------------------------------------------------------------
(* The end of a turn.                                                      *)

LEMMA CancelAIOStep == ASSUME RestoreInv, NEW K \in SUBSET (1..P), cancelAIO(K) PROVE RestoreInv'
<1> DEFINE t == [sd[T] EXCEPT !.left = 0, !.open = FALSE]
<1>1. /\ pc = "pass" /\ genCanceled
      /\ want' = [i \in 1..P |-> IF i \in K THEN want[i] ELSE 0]
      /\ pc' = IF want' = Idle THEN "after" ELSE "suspend"
      /\ \/ K = {} /\ sd' = [sd EXCEPT ![T] = t]
         \/ sd' = sd
      /\ UNCHANGED <<n, at, window, buf, work, hashed, dest, res, genCanceled,
                     operationCanceled, wanted>>
    BY DEF cancelAIO, AfterTurn, dataVars, canVars, envVars
<1>2. sd \in [1..P -> Record] /\ sd[T] \in Record /\ want \in [1..P -> Int]
    BY Basics DEF RestoreInv, TypeInv
<1>3. t \in Record /\ t.len = sd[T].len /\ ~t.open /\ t.fin = sd[T].fin
    <2> DEFINE A(x) == [sd[T] EXCEPT !.left = x, !.open = FALSE]
    <2>1. \A x \in Int : A(x) \in Record /\ A(x).len = sd[T].len /\ ~A(x).open /\ A(x).fin = sd[T].fin
        BY <1>2 DEF Record
    <2>2. 0 \in Int
        OBVIOUS
    <2> HIDE DEF A
    <2>3. A(0) \in Record /\ A(0).len = sd[T].len /\ ~A(0).open /\ A(0).fin = sd[T].fin
        BY <2>1, <2>2
    <2>4. QED
        BY <2>3 DEF A
<1> HIDE DEF t
<1>4. /\ sd' \in [1..P -> Record] /\ \A i \in Readers : sd'[i] = sd[i]
      /\ sd'[T] = sd[T] \/ (sd'[T] = t /\ K = {})
    BY <1>1, <1>2, <1>3, Basics
<1>5. want' \in [1..P -> Int] /\ \A i \in 1..P : want'[i] = IF i \in K THEN want[i] ELSE 0
    BY <1>1, <1>2
<1>6. ASSUME NEW i \in Readers
      PROVE  want'[i] <= BufSize - sd'[i].len /\ (want'[i] > 0 => res'[i] <= want'[i])
    <2>1. /\ i \in 1..P /\ sd'[i] = sd[i] /\ sd[i] \in Record /\ want[i] <= BufSize - sd[i].len
          /\ want[i] > 0 => res[i] <= want[i]
        BY <1>2, <1>4, Basics DEF RestoreInv, TypeInv
    <2>2. sd[i].len \in 0..BufSize
        BY <2>1 DEF Record
    <2>3. 0 <= BufSize - sd[i].len /\ ~(0 > 0)
        BY <2>2
    <2>4. CASE i \in K
        BY <1>1, <1>5, <2>1, <2>4
    <2>5. CASE i \notin K
        BY <1>5, <2>1, <2>3, <2>5
    <2>6. QED
        BY <2>4, <2>5
<1>7. TypeInv'
    BY <1>1, <1>4, <1>5, <1>6 DEF RestoreInv, TypeInv
<1>8. want'[T] # 0 => want[T] = want'[T] /\ sd'[T] = sd[T] /\ pc' = "suspend"
    BY <1>1, <1>4, <1>5, Basics DEF Idle
<1>9. WriteInv'
    <2>1. want'[T] \in {0, sd'[T].len}
        BY <1>8 DEF RestoreInv, WriteInv
    <2>2. /\ want'[T] # 0 => HasTarget'
          /\ want'[T] # 0 /\ ~sd'[T].open => res'[T] \in {InProgress, -1}
        BY <1>1, <1>8 DEF RestoreInv, WriteInv, HasTarget
    <2>3. ~sd'[T].fin
        BY <1>1, <1>3, <1>4, Placed
    <2>4. QED
        BY <1>1, <1>8, <2>1, <2>2, <2>3 DEF WriteInv
<1>10. sd'[T].open => sd'[T] = sd[T]
    BY <1>3, <1>4
<1>11. WorkInv'
    BY <1>1, <1>8, <1>10 DEF RestoreInv, WorkInv
<1>12. TargetInv'
    BY <1>1, <1>10 DEF RestoreInv, TargetInv, Rows, Size
<1>13. Exact'
    BY <1>1 DEF RestoreInv, Exact, Content, Size
<1>14. QED
    BY <1>7, <1>9, <1>11, <1>12, <1>13 DEF RestoreInv

LEMMA LongestType ==
    ASSUME RestoreInv
    PROVE  LongestBuffer \in 0..BufSize
<1> DEFINE F == [i \in 1..P |-> IF i = T THEN 0 ELSE sd[i].len]
<1>1. \A i \in 1..P : sd[i].len \in 0..BufSize
    <2>1. \A i \in 1..P : sd[i] \in Record
        BY DEF RestoreInv, TypeInv
    <2>2. QED
        BY <2>1 DEF Record
<1>2. \A i \in 1..P : F[i] \in 0..BufSize
    <2>1. 0 \in 0..BufSize
        OBVIOUS
    <2>2. QED
        BY <1>1, <2>1
<1>3. \A i \in Readers : i \in 1..P /\ F[i] = sd[i].len
    BY Basics
<1>4. F[T] = 0
    BY Basics
<1> HIDE DEF F
<1>5. \A i \in 1..P : F[i] \in Nat
    BY <1>2
<1>6. P \in Nat \ {0}
    BY Basics
<1>7. PICK i \in 1..P : \A j \in 1..P : F[j] <= F[i]
    BY <1>5, <1>6, LargestOf
<1>8. \E k \in Readers : \A j \in Readers : F[j] <= F[k]
    <2>1. CASE i = T
        <3>1. \A j \in Readers : F[j] <= F[P]
            <4>1. \A j \in 1..P : F[j] <= 0
                BY <1>4, <1>7, <2>1
            <4>2. F[P] \in Nat /\ Readers \subseteq 1..P
                BY <1>5, Basics
            <4>3. QED
                BY <1>5, <4>1, <4>2
        <3>2. QED
            BY <3>1, Basics
    <2>2. CASE i # T
        BY <1>7, <2>2, Basics
    <2>3. QED
        BY <2>1, <2>2
<1>9. PICK k \in Readers : \A j \in Readers : F[j] <= F[k]
    BY <1>8
<1>10. \E l \in 0..BufSize : (\E j \in Readers : sd[j].len = l) /\ \A j \in Readers : sd[j].len <= l
    <2>1. F[k] \in 0..BufSize
        BY <1>2, <1>3
    <2>2. \A j \in Readers : sd[j].len <= F[k]
        BY <1>3, <1>9
    <2>3. sd[k].len = F[k]
        BY <1>3
    <2>4. QED
        BY <2>1, <2>2, <2>3
<1>11. QED
    BY <1>10 DEF LongestBuffer

LEMMA ComputeParityStep == ASSUME RestoreInv, computeParity PROVE RestoreInv'
<1> DEFINE p == LongestBuffer
           new(i) == [sd[i] EXCEPT !.len = IF i = T THEN p ELSE 0]
           cleared(x) == [k \in Slots |-> IF k <= p THEN {} ELSE x[k]]
           filled == [k \in Slots |-> IF k <= p THEN combined(k) ELSE buf[T][k]]
<1>1. /\ pc = "after" /\ pc' = "round" /\ rv = 0 /\ ~genCanceled
      /\ IF operationCanceled
         THEN genCanceled' = TRUE /\ UNCHANGED <<sd, buf, outOfSpace>>
         ELSE IF p = 0
         THEN /\ IF sd[T].left # 0 THEN cancelGen(FALSE) ELSE UNCHANGED canVars
              /\ sd' = [sd EXCEPT ![T].len = 0] /\ UNCHANGED buf
         ELSE /\ buf' = [i \in 1..P |-> IF i = T THEN filled ELSE cleared(buf[i])]
              /\ sd' = [i \in 1..P |-> new(i)]
              /\ UNCHANGED canVars
      /\ UNCHANGED <<n, at, window, work, hashed, dest, want, res, operationCanceled, wanted>>
    BY DEF computeParity, aioVars, envVars
<1>2. /\ want[T] = 0 /\ sd[T].len = 0 /\ n # 0 /\ ~sd[T].fin /\ genCanceled \in BOOLEAN
    BY <1>1, Placed DEF RestoreInv, WriteInv
<1>3. sd \in [1..P -> Record] /\ sd[T] \in Record
    BY Basics DEF RestoreInv, TypeInv
<1>4. CASE operationCanceled
    BY <1>1, <1>2, <1>4, Placed, ControlStep DEF Places
<1>5. CASE ~operationCanceled /\ p = 0
    <2>1. sd' = sd
        <3>1. [sd[T] EXCEPT !.len = 0] = sd[T]
            BY <1>2, <1>3 DEF Record
        <3>2. sd' = [sd EXCEPT ![T] = [sd[T] EXCEPT !.len = 0]]
            BY <1>1, <1>5
        <3>3. QED
            BY <1>3, <3>1, <3>2
    <2>2. genCanceled' \in BOOLEAN
        BY <1>1, <1>2, <1>5 DEF cancelGen, canVars
    <2>3. buf' = buf
        BY <1>1, <1>5
    <2>4. QED
        BY <1>1, <1>2, <2>1, <2>2, <2>3, Placed, ControlStep DEF Places
<1>6. CASE ~operationCanceled /\ p # 0
    <2>1. p \in 0..BufSize /\ 0 \in 0..BufSize
        BY LongestType
    <2>2. /\ buf' = [i \in 1..P |-> IF i = T THEN filled ELSE cleared(buf[i])]
          /\ sd' = [i \in 1..P |-> new(i)]
          /\ genCanceled' = genCanceled
        BY <1>1, <1>6 DEF canVars
    <2> HIDE DEF p
    <2>3. ASSUME NEW i \in 1..P
          PROVE  new(i) \in Record /\ new(i).len \in 0..BufSize /\ (i # T => new(i).len = 0)
        BY <1>3, <2>1 DEF Record
    <2>4. new(T) = [sd[T] EXCEPT !.len = p]
        OBVIOUS
    <2>5. /\ new(T).open = sd[T].open /\ new(T).off = sd[T].off /\ new(T).seq = sd[T].seq
          /\ new(T).size = sd[T].size /\ new(T).fin = sd[T].fin /\ new(T).len = p
        BY <1>3, <2>4 DEF Record
    <2>6. /\ filled = [k \in Slots |-> filled[k]]
          /\ \A x : cleared(x) = [k \in Slots |-> cleared(x)[k]]
        OBVIOUS
    <2> HIDE DEF new, cleared, filled
    <2>7. sd' \in [1..P -> Record] /\ sd'[T] = new(T) /\ \A i \in Readers : sd'[i].len = 0
        BY <2>2, <2>3, Basics
    <2>8. buf' = [i \in 1..P |-> buf'[i]] /\ \A i \in 1..P : buf'[i] = [k \in Slots |-> buf'[i][k]]
        <3>1. buf' = [i \in 1..P |-> buf'[i]]
            BY <2>2
        <3>2. \A i \in 1..P : buf'[i] = filled \/ buf'[i] = cleared(buf[i])
            BY <2>2
        <3>3. QED
            BY <2>6, <3>1, <3>2, Zenon
    <2>9. ASSUME NEW i \in Readers
          PROVE  want'[i] <= BufSize - sd'[i].len /\ (want'[i] > 0 => res'[i] <= want'[i])
        <3>1. /\ sd[i] \in Record /\ want[i] \in Int /\ want[i] <= BufSize - sd[i].len
              /\ want[i] > 0 => res[i] <= want[i]
            BY Basics DEF RestoreInv, TypeInv
        <3>2. sd[i].len \in 0..BufSize
            BY <3>1 DEF Record
        <3>3. want[i] <= BufSize - 0
            BY <3>1, <3>2
        <3>4. QED
            BY <1>1, <2>7, <3>1, <3>3
    <2>10. TypeInv'
        BY <1>1, <1>2, <2>2, <2>7, <2>8, <2>9 DEF RestoreInv, TypeInv
    <2>11. WriteInv'
        BY <1>1, <1>2, <2>5, <2>7 DEF WriteInv
    <2>12. WorkInv'
        <3>1. sd[T].open => /\ Len(hashed) = sd[T].off /\ sd[T].off <= Len(work)
                            /\ Len(work) <= sd[T].off + sd[T].len
                            /\ \A k \in 1..sd[T].off : work[k] = hashed[k]
            BY DEF RestoreInv, WorkInv
        <3>2. Len(hashed) \in Nat /\ Len(work) \in Nat
            BY Buffers, SeqLen
        <3>3. sd[T].open => Len(work) <= sd[T].off + p
            BY <1>2, <2>1, <3>1, <3>2
        <3>4. QED
            BY <1>1, <1>2, <2>5, <2>7, <3>1, <3>3 DEF WorkInv
    <2>13. TargetInv'
        BY <1>1, <2>5, <2>7 DEF RestoreInv, TargetInv, Rows, Size
    <2>14. Exact'
        BY <1>1 DEF RestoreInv, Exact, Content, Size
    <2>15. QED
        BY <2>10, <2>11, <2>12, <2>13, <2>14 DEF RestoreInv
<1>7. QED
    BY <1>4, <1>5, <1>6

----------------------------------------------------------------------------
(* The theorem.                                                            *)

LEMMA GarbageType == ASSUME RestoreInv, NEW g \in Garbage PROVE g \in Nat
<1>1. CASE pc = "pass" /\ at \in Helpers
    <2>1. n \in 1..Len(Plan) /\ at \in Disks
        BY <1>1, Reader, Basics
    <2>2. Len(Plan[n][at]) \in Nat
        BY <2>1, PlanRows
    <2>3. QED
        BY <2>2 DEF Garbage
<1>2. CASE ~(pc = "pass" /\ at \in Helpers)
    BY <1>2 DEF Garbage
<1>3. QED
    BY <1>1, <1>2

LEMMA RestoreStep == RestoreInv /\ [Next]_vars => RestoreInv'
<1> SUFFICES ASSUME RestoreInv, [Next]_vars PROVE RestoreInv'
    OBVIOUS
<1>1. CASE UNCHANGED vars
    <2>1. UNCHANGED <<n, sd, window, buf, want, res, work, hashed, dest, wanted, pc, at,
                      genCanceled, operationCanceled>>
        BY <1>1 DEF vars
    <2>2. WorkInv'
        BY <2>1 DEF RestoreInv, WorkInv
    <2>3. want[T] # 0 /\ ~sd[T].open => res'[T] \in {InProgress, -1}
        BY <2>1 DEF RestoreInv, WriteInv
    <2>4. QED
        BY <2>1, <2>2, <2>3, Buffers, Placed, KernelStep
<1>2. CASE Kernel
    <2>1. CASE \E i \in Readers, k \in Slots : readDone(i, k)
        BY <2>1, ReadDoneStep
    <2>2. CASE writeDone(want[T])
        <3>1. want[T] \in Int
            BY Basics, Buffers
        <3>2. QED
            BY <2>2, <3>1, WriteDoneStep
    <2>3. CASE \E i \in 1..P : badFile(i)
        BY <2>3, BadFileStep
    <2>4. QED
        BY <1>2, <2>1, <2>2, <2>3 DEF Kernel
<1>3. CASE Thread
    <2>1. CASE nextSlice(TRUE) \/ openTarget(TRUE) \/ saveEmpty("ok") \/ finishWrite("ok")
        BY <2>1, NextSliceStep, OpenTargetStep, SaveEmptyStep, FinishWriteStep
    <2>2. CASE restoreFromSlice \/ beginTurn \/ noNextTarget \/ afterCancel \/ skipDisk
        BY <2>2, RoundStep, BeginTurnStep, NoNextTargetStep, AfterCancelStep, SkipDiskStep
    <2>3. CASE rejectRead \/ rejectAIO \/ startWrite \/ rejectWrite
        BY <2>3, RejectReadStep, RejectStep, StartWriteStep
    <2>4. CASE \E g \in Garbage : startRead(g, TRUE) \/ consumeRead(g, TRUE)
        BY <2>4, GarbageType, StartReadStep, ConsumeReadStep
    <2>5. CASE endPass \/ suspend \/ afterFill \/ computeParity
        BY <2>5, EndPassStep, SuspendStep, AfterFillStep, ComputeParityStep
    <2>6. CASE \E K \in SUBSET (1..P) : cancelAIO(K)
        BY <2>6, CancelAIOStep
    <2>7. QED
        BY <1>3, <2>1, <2>2, <2>3, <2>4, <2>5, <2>6 DEF Thread
<1>4. CASE SaveFaults
    BY <1>4, SaveEmptyStep, FinishWriteStep DEF SaveFaults
<1>5. CASE Faults
    <2>1. CASE nextSlice(FALSE) \/ openTarget(FALSE) \/ intHandler
        BY <2>1, NextSliceStep, OpenTargetStep, IntHandlerStep
    <2>2. CASE \E g \in Garbage : startRead(g, FALSE) \/ consumeRead(g, FALSE)
        BY <2>2, GarbageType, StartReadStep, ConsumeReadStep
    <2>3. CASE \E k \in 0..(BufSize - 1) : k < want[T] /\ writeDone(k)
        BY <2>3, WriteDoneStep
    <2>4. CASE \E i \in 1..P, k \in {-1, 0, NoSpace} : requestFails(i, k)
        BY <2>4, RequestFailsStep
    <2>5. QED
        BY <1>5, <2>1, <2>2, <2>3, <2>4 DEF Faults
<1>6. QED
    BY <1>1, <1>2, <1>3, <1>4, <1>5 DEF Next

\* Whatever fails and however the requests end: a file that a restoring thread leaves at its
\* destination was to be restored and has just the bytes of the slice header's hash
\* (asyncio.cpp:147, :398).
THEOREM ExactHolds == Spec => []Exact
<1>1. RestoreInv => Exact
    BY DEF RestoreInv
<1>2. QED
    BY <1>1, RestoreInit, RestoreStep, PTL DEF Spec

----------------------------------------------------------------------------
(* What the counters say.                                                  *)

Saved(m) == {f \in dest : f[1] = m}

\* Only files up to the current one are saved, and not the one whose work file is open.
SavedBefore ==
    \A f \in dest : /\ f[1] \in 1..n /\ f[2] \in Rows(f[1], T)
                    /\ f[1] = n => f[2] <= sd[T].seq /\ (sd[T].open => f[2] < sd[T].seq)

\* The files monitorRun was told of are at the destination already.
ToldAreSaved ==
    /\ told \in [written : Int, canceled : Int]
    /\ told.written - told.canceled <= Cardinality(Saved(n))

CountInv ==
    /\ written \in Int /\ canceled \in Int /\ IsFiniteSet(dest)
    /\ SavedBefore /\ ToldAreSaved /\ SavedAreCounted

LEMMA SavedFinite == ASSUME CountInv PROVE IsFiniteSet(Saved(n)) /\ Cardinality(Saved(n)) \in Nat
<1>1. Saved(n) \in SUBSET dest /\ IsFiniteSet(dest)
    BY DEF Saved, CountInv
<1>2. QED
    BY <1>1, FS_Subset, FS_CardinalityType

\* A step that saves nothing, and counts a file given up or passed over twice
LEMMA NothingSaved ==
    ASSUME CountInv, UNCHANGED <<n, dest>>, sd'[T].seq = sd[T].seq, sd'[T].open => sd[T].open,
           NEW k \in Int, written' = written + k, canceled' = canceled + k,
           told' = told \/ monitorRun, MayDrop => MayDrop'
    PROVE  CountInv'
<1>1. SavedBefore'
    BY DEF CountInv, SavedBefore, Rows
<1>2. Saved(n)' = Saved(n) /\ Cardinality(Saved(n)) \in Nat
    BY SavedFinite DEF Saved
<1>3. written' - canceled' = written - canceled
    BY DEF CountInv
<1>4. SavedAreCounted'
    BY <1>2, <1>3 DEF CountInv, SavedAreCounted, Saved
<1>5. ToldAreSaved'
    <2>1. CASE told' = told
        BY <1>2, <2>1 DEF CountInv, ToldAreSaved
    <2>2. CASE told' = [written |-> written, canceled |-> canceled]
        <3>1. written - canceled <= Cardinality(Saved(n))
            BY DEF CountInv, SavedAreCounted, Saved
        <3>2. QED
            BY <1>2, <2>2, <3>1 DEF CountInv, ToldAreSaved
    <2>3. QED
        BY <2>1, <2>2 DEF monitorRun
<1>6. written' \in Int /\ canceled' \in Int /\ IsFiniteSet(dest')
    BY DEF CountInv
<1>7. QED
    BY <1>1, <1>4, <1>5, <1>6 DEF CountInv

\* Files that exist already are counted twice; the slice is at work.
LEMMA UncountedPart ==
    ASSUME CountInv, UNCHANGED <<n, dest, told>>, pc = "file",
           NEW k \in Int, written' = written + k, canceled' = canceled + k
    PROVE  SavedAreCounted' /\ ToldAreSaved'
<1>1. Saved(n)' = Saved(n) /\ Cardinality(Saved(n)) \in Nat
    BY SavedFinite DEF Saved
<1>2. written - canceled = Cardinality(Saved(n))
    BY DEF CountInv, SavedAreCounted, Saved, MayDrop
<1>3. written' - canceled' = Cardinality(Saved(n)')
    BY <1>1, <1>2 DEF CountInv
<1>4. SavedAreCounted'
    BY <1>1, <1>3 DEF SavedAreCounted, Saved
<1>5. QED
    BY <1>1, <1>4 DEF CountInv, ToldAreSaved

LEMMA SameCounts ==
    ASSUME CountInv, UNCHANGED <<n, dest, written, canceled>>, sd'[T].seq = sd[T].seq,
           sd'[T].open => sd[T].open, told' = told \/ monitorRun, MayDrop => MayDrop'
    PROVE  CountInv'
<1>1. 0 \in Int /\ written' = written + 0 /\ canceled' = canceled + 0
    BY DEF CountInv
<1>2. QED
    BY <1>1, NothingSaved

\* The files that exist already and are passed over
LEMMA SkippedType ==
    ASSUME RestoreInv, n # 0, NEW S \in SUBSET Rows(n, T)
    PROVE  Skipped(S) \in Nat
<1>1. n \in 1..Len(Plan) /\ T \in Disks
    BY PlanAssumption DEF RestoreInv, TypeInv
<1>2. Rows(n, T) = 1..Len(Plan[n][T]) /\ Len(Plan[n][T]) \in Nat
    BY <1>1, PlanRows
<1>3. IsFiniteSet(Rows(n, T))
    BY <1>2, FS_Interval
<1> DEFINE Q == {i \in S : i > sd[T].seq /\ wanted[<<n, i>>] = "skip"}
<1>4. Q \in SUBSET Rows(n, T)
    OBVIOUS
<1> HIDE DEF Q
<1>5. IsFiniteSet(Q)
    BY <1>3, <1>4, FS_Subset
<1>6. Cardinality(Q) \in Nat
    BY <1>5, FS_CardinalityType
<1>7. QED
    BY <1>6 DEF Skipped, Q

\* finishCurrentFile either saves and counts the open file, or neither.
LEMMA FinishCounted ==
    ASSUME RestoreInv, CountInv, sd[T].open, n # 0, NEW t \in Record, t.seq = sd[T].seq, NEW h, NEW saved,
           finishCurrentFile(t, h, saved), UNCHANGED <<n, canceled, told>>, pc \notin {"next", "done"}
    PROVE  CountInv'
<1>1. sd[T].seq \in Rows(n, T) /\ n \in 1..Len(Plan) /\ n \in 1..n
    BY PlanAssumption DEF RestoreInv, TargetInv, TypeInv
<1>2. sd \in [1..P -> Record] /\ sd[T].seq \in Nat
    <2>1. sd[T] \in Record
        BY Buffers
    <2>2. QED
        BY <2>1 DEF RestoreInv, TypeInv, Record
<1> DEFINE left == genCanceled \/ wrongHash(h) \/ saved = "exists"
           q == [t EXCEPT !.size = 0, !.start = 0, !.open = left]
           x == <<n, t.seq, work>>
<1>3. /\ sd' = [sd EXCEPT ![T] = q]
      /\ \/ dest' = dest \cup {x} /\ written' = written + 1 /\ ~left
         \/ UNCHANGED <<dest, written>>
    BY DEF finishCurrentFile
<1>4. q.seq = sd[T].seq /\ q.open = left
    BY DEF Record
<1>5. x[1] = n /\ x[2] = sd[T].seq
    OBVIOUS
<1> HIDE DEF left, q, x
<1>6. sd'[T].seq = sd[T].seq /\ sd'[T].open = left
    BY <1>2, <1>3, <1>4, Basics
<1> ~MayDrop
    BY DEF MayDrop
<1>7. CASE UNCHANGED <<dest, written>>
    BY <1>6, <1>7, SameCounts
<1>8. CASE dest' = dest \cup {x} /\ written' = written + 1 /\ ~left
    <2>1. x \notin Saved(n)
        <3>1. ASSUME x \in dest PROVE FALSE
            BY <1>2, <1>5, <3>1 DEF CountInv, SavedBefore
        <3>2. QED
            BY <3>1 DEF Saved
    <2>2. Saved(n)' = Saved(n) \cup {x}
        BY <1>5, <1>8 DEF Saved
    <2>3. IsFiniteSet(dest') /\ IsFiniteSet(Saved(n))
        <3>1. IsFiniteSet(dest)
            BY DEF CountInv
        <3>2. Saved(n) \in SUBSET dest
            BY DEF Saved
        <3>3. QED
            BY <1>8, <3>1, <3>2, FS_AddElement, FS_Subset
    <2>4. Cardinality(Saved(n)') = Cardinality(Saved(n)) + 1 /\ Cardinality(Saved(n)) \in Nat
        BY <2>1, <2>2, <2>3, FS_AddElement, FS_CardinalityType
    <2>5. SavedAreCounted' /\ ToldAreSaved'
        <3>1. written - canceled = Cardinality(Saved(n))
            BY DEF CountInv, SavedAreCounted, Saved
        <3>2. written' - canceled' = Cardinality(Saved(n)')
            BY <1>8, <2>4, <3>1 DEF CountInv
        <3>3. SavedAreCounted'
            <4>1. written' \in Int /\ canceled' \in Int
                BY <1>8 DEF CountInv
            <4>2. written' - canceled' <= Cardinality(Saved(n)')
                BY <3>2, <4>1
            <4>3. QED
                BY <3>2, <4>2 DEF SavedAreCounted, Saved
        <3>4. ToldAreSaved'
            BY <2>4 DEF CountInv, ToldAreSaved
        <3>5. QED
            BY <3>3, <3>4
    <2>6. SavedBefore'
        <3>1. ASSUME NEW f \in dest'
              PROVE  /\ f[1] \in 1..n /\ f[2] \in Rows(f[1], T)
                     /\ f[1] = n => f[2] <= sd[T].seq
            <4>1. CASE f = x
                BY <1>1, <1>2, <1>5, <4>1
            <4>2. CASE f \in dest
                BY <4>2 DEF CountInv, SavedBefore
            <4>3. QED
                BY <1>8, <4>1, <4>2
        <3>2. QED
            BY <1>6, <1>8, <3>1 DEF SavedBefore, Rows
    <2>7. QED
        BY <1>8, <2>3, <2>5, <2>6 DEF CountInv
<1>9. QED
    BY <1>3, <1>7, <1>8

LEMMA CountInit == Init => CountInv
<1> SUFFICES ASSUME Init PROVE CountInv
    OBVIOUS
<1>1. dest = {} /\ written = 0 /\ canceled = 0 /\ told = [written |-> 0, canceled |-> 0]
    BY DEF Init, Start, Nothing
<1>2. Saved(n) = {} /\ Cardinality({}) = 0
    BY <1>1, FS_EmptySet DEF Saved
<1>3. SavedAreCounted /\ ToldAreSaved
    BY <1>1, <1>2 DEF SavedAreCounted, ToldAreSaved, Saved
<1>4. QED
    BY <1>1, <1>3, FS_EmptySet DEF CountInv, SavedBefore

LEMMA SliceCounted ==
    ASSUME RestoreInv, CountInv, NEW ok \in BOOLEAN, nextSlice(ok)
    PROVE  CountInv'
<1>1. CASE n = Len(Plan) \/ operationCanceled
    <2>1. UNCHANGED <<n, sd, dest, written, canceled, told>> /\ (MayDrop => MayDrop')
        BY <1>1 DEF nextSlice, dataVars, cntVars, envVars, MayDrop
    <2>2. QED
        BY <2>1, SameCounts
<1>2. CASE ~(n = Len(Plan) \/ operationCanceled)
    <2>1. n' = n + 1 /\ written' = 0 /\ canceled' = 0 /\ dest' = dest /\ n \in Nat /\ told' = Nothing
        BY <1>2, PlanAssumption DEF nextSlice, dataVars, RestoreInv, TypeInv
    <2>2. \A f \in dest : f[1] \in 1..n /\ f[2] \in Rows(f[1], T)
        BY DEF CountInv, SavedBefore
    <2>3. Saved(n)' = {} /\ Cardinality({}) = 0
        BY <2>1, <2>2, FS_EmptySet DEF Saved
    <2>4. SavedAreCounted' /\ ToldAreSaved'
        BY <2>1, <2>3 DEF SavedAreCounted, ToldAreSaved, Saved, Nothing
    <2>5. SavedBefore'
        BY <2>1, <2>2 DEF SavedBefore, Rows
    <2>6. QED
        BY <2>1, <2>4, <2>5 DEF CountInv
<1>3. QED
    BY <1>1, <1>2

LEMMA NoTargetCounted == ASSUME RestoreInv, CountInv, noNextTarget PROVE CountInv'
<1> DEFINE k == Skipped(Rows(n, T))
<1>1. /\ pc = "file" /\ ~genCanceled /\ UNCHANGED <<n, dest, told>>
      /\ sd' = [sd EXCEPT ![T].fin = TRUE, ![T].seq = Len(Plan[n][T])]
      /\ written' = written + k /\ canceled' = canceled + k
    BY DEF noNextTarget, dataVars
<1>2. ~sd[T].open /\ n # 0
    BY <1>1, Placed DEF RestoreInv, TargetInv
<1>3. n \in 1..Len(Plan) /\ T \in Disks
    BY <1>2, PlanAssumption DEF RestoreInv, TypeInv
<1>4. Rows(n, T) = 1..Len(Plan[n][T])
    BY <1>3, PlanRows
<1>5. k \in Int
    BY <1>2, SkippedType
<1>6. sd'[T].seq = Len(Plan[n][T]) /\ ~sd'[T].open
    <2>1. sd \in [1..P -> Record] /\ sd[T] \in Record
        BY Basics DEF RestoreInv, TypeInv
    <2>2. QED
        BY <1>1, <1>2, <2>1, Basics DEF Record
<1> HIDE DEF k
<1>7. SavedBefore'
    BY <1>1, <1>4, <1>6 DEF CountInv, SavedBefore, Rows
<1>8. SavedAreCounted' /\ ToldAreSaved'
    BY <1>1, <1>5, UncountedPart
<1>9. QED
    BY <1>1, <1>5, <1>7, <1>8 DEF CountInv

LEMMA OpenCounted ==
    ASSUME RestoreInv, CountInv, NEW ok \in BOOLEAN, openTarget(ok)
    PROVE  CountInv'
<1> DEFINE i == least(ToRestore)
           k == Skipped(1..(i - 1))
<1>1. pc = "file" /\ ~genCanceled /\ ToRestore # {}
    BY DEF openTarget
<1>2. n # 0
    BY <1>1, Placed
<1>3. n \in 1..Len(Plan) /\ T \in Disks
    BY <1>2, PlanAssumption DEF RestoreInv, TypeInv
<1>4. Rows(n, T) = 1..Len(Plan[n][T]) /\ Len(Plan[n][T]) \in Nat
    BY <1>3, PlanRows
<1>5. i \in ToRestore
    <2>1. ToRestore \in SUBSET Nat
        BY <1>4 DEF ToRestore
    <2>2. QED
        BY <1>1, <2>1, LeastOf
<1>6. i \in Rows(n, T) /\ i > sd[T].seq
    BY <1>5 DEF ToRestore
<1>7. UNCHANGED <<n, dest, told>> /\ written' = written + k /\ canceled' = canceled + k
    BY DEF openTarget
<1>8. sd'[T].seq = i
    BY Basics, Buffers DEF openTarget, Record
<1> HIDE DEF i
<1>9. k \in Nat
    <2>1. 1..(i - 1) \in SUBSET Rows(n, T)
        BY <1>4, <1>6
    <2>2. QED
        BY <1>2, <2>1, SkippedType
<1> HIDE DEF k
<1>10. SavedBefore'
    <2>1. sd[T].seq \in Nat
        BY Buffers DEF Record
    <2>2. \A f \in dest : f[1] = n => f[2] < i
        BY <1>4, <1>6, <2>1 DEF CountInv, SavedBefore
    <2>3. \A f \in dest : f[1] \in 1..n /\ f[2] \in Rows(f[1], T)
        BY DEF CountInv, SavedBefore
    <2>4. \A f \in dest : f[1] = n => f[2] <= i
        BY <1>4, <1>6, <2>2, <2>3
    <2>5. QED
        BY <1>7, <1>8, <2>2, <2>3, <2>4 DEF SavedBefore, Rows
<1>11. SavedAreCounted' /\ ToldAreSaved'
    BY <1>1, <1>7, <1>9, UncountedPart
<1>12. QED
    BY <1>7, <1>9, <1>10, <1>11 DEF CountInv

\* A write that is finished was to the open work file.
LEMMA WrittenTarget ==
    ASSUME RestoreInv, NEW saved, finishWrite(saved)
    PROVE  LET k == sd[T].len
               t == [sd[T] EXCEPT !.len = 0, !.off = sd[T].off + k, !.left = sd[T].left - k]
           IN sd[T].open /\ t \in Record /\ t.seq = sd[T].seq /\ t.open = sd[T].open
<1> DEFINE k == sd[T].len
           t == [sd[T] EXCEPT !.len = 0, !.off = sd[T].off + k, !.left = sd[T].left - k]
<1>1. pc = "pass" /\ want[T] > 0 /\ res[T] = k
    BY DEF finishWrite, Done
<1>2. k \in 0..BufSize /\ sd[T] \in Record
    BY Buffers
<1>3. sd[T].open
    <2>1. want[T] = k /\ k > 0
        BY <1>1, <1>2 DEF RestoreInv, WriteInv
    <2>2. k # InProgress /\ k # -1
        BY <1>2, <2>1 DEF InProgress
    <2>3. QED
        BY <1>1, <2>1, <2>2 DEF RestoreInv, WriteInv
<1>4. t \in Record /\ t.seq = sd[T].seq /\ t.open = sd[T].open
    <2> DEFINE A(z, o, l) == [sd[T] EXCEPT !.len = z, !.off = o, !.left = l]
    <2>1. \A z \in 0..BufSize, o \in Nat, l \in Int : /\ A(z, o, l) \in Record
                                                       /\ A(z, o, l).seq = sd[T].seq /\ A(z, o, l).open = sd[T].open
        BY <1>2 DEF Record
    <2>2. 0 \in 0..BufSize /\ sd[T].off + k \in Nat /\ sd[T].left - k \in Int
        BY <1>2 DEF Record
    <2> HIDE DEF A
    <2>3. /\ A(0, sd[T].off + k, sd[T].left - k) \in Record
          /\ A(0, sd[T].off + k, sd[T].left - k).seq = sd[T].seq
          /\ A(0, sd[T].off + k, sd[T].left - k).open = sd[T].open
        BY <2>1, <2>2
    <2>4. QED
        BY <2>3 DEF A
<1>5. QED
    BY <1>3, <1>4

LEMMA WriteCounted ==
    ASSUME RestoreInv, CountInv, NEW saved, finishWrite(saved)
    PROVE  CountInv'
<1> DEFINE k == sd[T].len
           t == [sd[T] EXCEPT !.len = 0, !.off = sd[T].off + k, !.left = sd[T].left - k]
           h == hashed \o SubSeq(buf[T], 1, k)
<1>1. /\ pc = "pass" /\ want[T] > 0 /\ res[T] = k
      /\ IF t.left <= 0 THEN finishCurrentFile(t, h, saved)
         ELSE sd' = [sd EXCEPT ![T] = t] /\ UNCHANGED <<dest, written>>
      /\ UNCHANGED <<n, canceled, told>>
    BY DEF finishWrite, Done
<1>2. k \in 0..BufSize /\ sd[T] \in Record /\ n # 0
    BY <1>1, Buffers, Placed
<1>3. sd[T].open /\ t \in Record /\ t.seq = sd[T].seq /\ t.open = sd[T].open
    BY WrittenTarget
<1> HIDE DEF t, h
<1> ~MayDrop
    BY <1>1 DEF MayDrop
<1>4. CASE t.left <= 0
    BY <1>1, <1>2, <1>3, <1>4, FinishCounted
<1>5. CASE ~(t.left <= 0)
    <2>1. sd'[T] = t
        BY <1>1, <1>5, Basics DEF RestoreInv, TypeInv
    <2>2. QED
        BY <1>1, <1>3, <1>5, <2>1, SameCounts
<1>6. QED
    BY <1>4, <1>5

LEMMA CancelCounted ==
    ASSUME RestoreInv, CountInv, NEW K \in SUBSET (1..P), cancelAIO(K)
    PROVE  CountInv'
<1>1. UNCHANGED <<n, dest, told>> /\ countOne \in Int /\ ~MayDrop
    BY DEF cancelAIO, dataVars, countOne, MayDrop
<1>2. sd \in [1..P -> Record] /\ sd[T] \in Record
    BY Basics DEF RestoreInv, TypeInv
<1>3. CASE K = {} /\ ~outOfSpace
    <2>1. /\ written' = written + countOne /\ canceled' = canceled + countOne
          /\ sd' = [sd EXCEPT ![T].left = 0, ![T].open = FALSE]
        BY <1>3 DEF cancelAIO
    <2>2. sd'[T].seq = sd[T].seq /\ ~sd'[T].open
        BY <1>2, <2>1, Basics DEF Record
    <2>3. QED
        BY <1>1, <2>1, <2>2, NothingSaved
<1>4. CASE ~(K = {} /\ ~outOfSpace)
    BY <1>1, <1>4, SameCounts DEF cancelAIO
<1>5. QED
    BY <1>3, <1>4

LEMMA ComputeTarget ==
    ASSUME RestoreInv, computeParity
    PROVE  sd'[T].seq = sd[T].seq /\ sd'[T].open = sd[T].open /\ sd'[T].fin = sd[T].fin
<1>1. sd \in [1..P -> Record] /\ sd[T] \in Record
    BY Basics DEF RestoreInv, TypeInv
<1>2. CASE sd' = sd
    BY <1>2
<1>3. CASE sd' = [sd EXCEPT ![T].len = 0]
    BY <1>1, <1>3, Basics DEF Record
<1>4. CASE \E p : sd' = [i \in 1..P |-> [sd[i] EXCEPT !.len = IF i = T THEN p ELSE 0]]
    <2>1. PICK p : sd' = [i \in 1..P |-> [sd[i] EXCEPT !.len = IF i = T THEN p ELSE 0]]
        BY <1>4
    <2>2. sd'[T] = [sd[T] EXCEPT !.len = p]
        BY <2>1, Basics
    <2>3. QED
        BY <1>1, <2>2 DEF Record
<1>5. QED
    BY <1>2, <1>3, <1>4 DEF computeParity

\* What becomes of the other disks does not matter.
LEMMA ReadCounted ==
    ASSUME RestoreInv, CountInv, NEW g, NEW ok,
           startRead(g, ok) \/ consumeRead(g, ok) \/ rejectRead \/ computeParity
    PROVE  CountInv'
<1>1. UNCHANGED <<n, dest, written, canceled>>
    BY DEF startRead, consumeRead, rejectRead, computeParity, dataVars, cntVars, monitorRun
<1> ~MayDrop
    BY DEF startRead, consumeRead, rejectRead, computeParity, MayDrop
<1> told' = told \/ monitorRun
    BY DEF startRead, consumeRead, rejectRead, computeParity, cntVars
<1>2. sd \in [1..P -> Record] /\ sd[T] \in Record
    BY Basics DEF RestoreInv, TypeInv
<1>3. CASE computeParity
    BY <1>1, <1>3, ComputeTarget, SameCounts
<1>4. CASE startRead(g, ok) \/ consumeRead(g, ok) \/ rejectRead
    <2>1. at \in Readers /\ \E q : sd' = [sd EXCEPT ![at] = q]
        BY <1>4 DEF startRead, consumeRead, rejectRead, startAIO
    <2>2. sd'[T] = sd[T]
        BY <1>2, <2>1, Basics
    <2>3. QED
        BY <1>1, <2>2, SameCounts
<1>5. QED
    BY <1>3, <1>4

\* restoreFromSlice returns after Ctrl-C with no more than monitorRun was told.
LEMMA DropCounted == ASSUME CountInv, restoreFromSlice PROVE CountInv'
<1>1. UNCHANGED <<n, sd, dest, told>> /\ ~MayDrop
    BY DEF restoreFromSlice, dataVars, cntVars, MayDrop
<1>2. CASE operationCanceled
    <2>1. written' = told.written /\ canceled' = told.canceled /\ MayDrop'
        BY <1>2 DEF restoreFromSlice, envVars, MayDrop
    <2>2. SavedBefore'
        BY <1>1 DEF CountInv, SavedBefore, Rows
    <2>3. ToldAreSaved'
        BY <1>1 DEF CountInv, ToldAreSaved, Saved
    <2>4. SavedAreCounted'
        BY <1>1, <2>1 DEF CountInv, ToldAreSaved, SavedAreCounted, Saved
    <2>5. QED
        BY <1>1, <2>1, <2>2, <2>3, <2>4 DEF CountInv, ToldAreSaved
<1>3. CASE ~operationCanceled
    BY <1>1, <1>3, SameCounts DEF restoreFromSlice, cntVars
<1>4. QED
    BY <1>2, <1>3

LEMMA CountStep == RestoreInv /\ CountInv /\ [Next]_vars => CountInv'
<1> SUFFICES ASSUME RestoreInv, CountInv, [Next]_vars PROVE CountInv'
    OBVIOUS
<1> DEFINE Same == UNCHANGED <<n, sd, dest, written, canceled, told>> /\ (MayDrop => MayDrop')
<1>1. CASE UNCHANGED vars
    BY <1>1, SameCounts DEF vars, MayDrop
<1>2. CASE Same
    BY <1>2, SameCounts
<1>3. CASE \E ok \in BOOLEAN : nextSlice(ok) \/ openTarget(ok)
    BY <1>3, SliceCounted, OpenCounted
<1>4. CASE noNextTarget
    BY <1>4, NoTargetCounted
<1>5. CASE \E saved : saveEmpty(saved)
    <2>1. PICK saved : saveEmpty(saved)
        BY <1>5
    <2>2. /\ pc = "empty" /\ finishCurrentFile(sd[T], hashed, saved) /\ UNCHANGED <<n, canceled, told>>
        BY <2>1 DEF saveEmpty
    <2>3. sd[T].open /\ n # 0 /\ sd[T] \in Record
        BY <2>2, Placed, Buffers DEF RestoreInv, TargetInv
    <2>4. QED
        BY <2>2, <2>3, FinishCounted
<1>6. CASE \E saved : finishWrite(saved)
    BY <1>6, WriteCounted
<1>7. CASE \E K \in SUBSET (1..P) : cancelAIO(K)
    BY <1>7, CancelCounted
<1>8. CASE \E g, ok : startRead(g, ok) \/ consumeRead(g, ok) \/ rejectRead \/ computeParity
    BY <1>8, ReadCounted
<1>9. CASE afterFill
    <2>1. /\ UNCHANGED <<n, sd, dest, written, canceled>> /\ (told' = told \/ monitorRun) /\ ~MayDrop
        BY <1>9 DEF afterFill, dataVars, cntVars, monitorRun, MayDrop
    <2>2. QED
        BY <2>1, SameCounts
<1>10. CASE Kernel
    <2>1. CASE \E i \in Readers, k \in Slots : readDone(i, k)
        BY <1>2, <2>1 DEF readDone, cntVars, envVars, MayDrop
    <2>2. CASE writeDone(want[T]) \/ \E i \in 1..P : badFile(i)
        BY <1>2, <2>2 DEF writeDone, badFile, dataVars, cntVars, envVars, MayDrop
    <2>3. QED
        BY <1>10, <2>1, <2>2 DEF Kernel
<1>11. CASE Thread
    <2>1. CASE beginTurn \/ afterCancel \/ skipDisk \/ rejectAIO
        BY <1>2, <2>1 DEF beginTurn, afterCancel, skipDisk, rejectAIO, dataVars, cntVars, MayDrop
    <2>2. CASE startWrite \/ rejectWrite \/ endPass \/ suspend
        BY <1>2, <2>2 DEF startWrite, rejectWrite, endPass, suspend, dataVars, cntVars, MayDrop
    <2>3. CASE nextSlice(TRUE) \/ openTarget(TRUE)
        BY <1>3, <2>3
    <2>4. CASE noNextTarget
        BY <1>4, <2>4
    <2>5. CASE saveEmpty("ok") \/ finishWrite("ok")
        BY <1>5, <1>6, <2>5
    <2>6. CASE rejectRead \/ computeParity \/ \E g \in Garbage : startRead(g, TRUE) \/ consumeRead(g, TRUE)
        BY <1>8, <2>6
    <2>7. CASE \E K \in SUBSET (1..P) : cancelAIO(K)
        BY <1>7, <2>7
    <2>8. CASE restoreFromSlice \/ afterFill
        BY <1>9, <2>8, DropCounted
    <2>9. QED
        BY <1>11, <2>1, <2>2, <2>3, <2>4, <2>5, <2>6, <2>7, <2>8 DEF Thread
<1>12. CASE SaveFaults
    BY <1>5, <1>6, <1>12 DEF SaveFaults
<1>13. CASE Faults
    <2>1. CASE nextSlice(FALSE) \/ openTarget(FALSE)
        BY <1>3, <2>1
    <2>2. CASE \E g \in Garbage : startRead(g, FALSE) \/ consumeRead(g, FALSE)
        BY <1>8, <2>2
    <2>3. CASE \/ intHandler \/ \E k \in 0..(BufSize - 1) : k < want[T] /\ writeDone(k)
               \/ \E i \in 1..P, k \in {-1, 0, NoSpace} : requestFails(i, k)
        BY <1>2, <2>3 DEF intHandler, writeDone, requestFails, dataVars, cntVars, envVars, MayDrop
    <2>4. QED
        BY <1>13, <2>1, <2>2, <2>3 DEF Faults
<1>14. QED
    BY <1>1, <1>10, <1>11, <1>12, <1>13 DEF Next

\* Whatever gives up a file, and however often, files written less files canceled of the slice at
\* work are the files of it at the destination (asyncio.cpp:113, :158, :418); once Ctrl-C has
\* dropped counts, at most these (backup.cpp:2171, :2187).
THEOREM SavedAreCountedHolds == Spec => []SavedAreCounted
<1>1. CountInv => SavedAreCounted
    BY DEF CountInv
<1>2. QED
    BY <1>1, RestoreInit, RestoreStep, CountInit, CountStep, PTL DEF Spec

----------------------------------------------------------------------------
(* Every selected file is counted.                                         *)

\* The bound of the counters leaves room for every file.
RoomToCount == \A m \in 1..Len(Plan) : Len(Plan[m][T]) <= CountBound

WantedInv == \A m \in 1..Len(Plan) : \A i \in Rows(m, T) : wanted[<<m, i>>] \in {"no", "skip", "yes"}

\* The file at seq is still to be counted: when it is saved or, its work file open or just
\* closed without being saved, when it is given up.
Pending == sd[T].open \/ (genCanceled /\ ~outOfSpace /\ pc \in {"target", "file", "pass", "suspend"})

Due == IF Pending THEN 1 ELSE 0

\* The files up to k that the slice has to count
Selected(k) == {i \in Rows(n, T) : i <= k /\ wanted[<<n, i>>] # "no"}

AllInv ==
    /\ pc \notin {"next", "done"} => written + Due >= Cardinality(Selected(sd[T].seq))
    /\ EveryFileCounted

LEMMA DueType == Due \in {0, 1} /\ (Pending => Due = 1) /\ (~Pending => Due = 0)
BY DEF Due

LEMMA TargetRows ==
    ASSUME RestoreInv, n # 0
    PROVE  /\ n \in 1..Len(Plan) /\ Len(Plan[n][T]) \in Nat /\ Rows(n, T) = 1..Len(Plan[n][T])
           /\ sd \in [1..P -> Record] /\ sd[T] \in Record /\ sd[T].seq \in Nat
<1>1. n \in 1..Len(Plan) /\ T \in Disks
    BY PlanAssumption DEF RestoreInv, TypeInv
<1>2. sd \in [1..P -> Record] /\ sd[T] \in Record
    BY Basics DEF RestoreInv, TypeInv
<1>3. sd[T].seq \in Nat
    BY <1>2 DEF Record
<1>4. QED
    BY <1>1, <1>2, <1>3, PlanRows

LEMMA SelectedType ==
    ASSUME RestoreInv, n # 0, NEW k
    PROVE  /\ IsFiniteSet(Selected(k)) /\ Cardinality(Selected(k)) \in Nat
           /\ Cardinality(Selected(k)) <= Len(Plan[n][T])
<1>1. Len(Plan[n][T]) \in Nat /\ Rows(n, T) = 1..Len(Plan[n][T])
    BY TargetRows
<1> DEFINE l == Len(Plan[n][T])
<1>2. l \in Nat /\ Selected(k) \in SUBSET (1..l)
    BY <1>1 DEF Selected
<1> HIDE DEF l
<1>3. IsFiniteSet(1..l) /\ Cardinality(1..l) = l
    <2>1. l >= 1 \/ l = 0
        BY <1>2
    <2>2. QED
        BY <1>2, <2>1, FS_Interval
<1>4. IsFiniteSet(Selected(k)) /\ Cardinality(Selected(k)) <= l
    BY <1>2, <1>3, FS_Subset
<1>5. QED
    BY <1>4, FS_CardinalityType DEF l

\* Of the files behind seq that are passed over, those that are selected exist already.
LEMMA PassedCounted ==
    ASSUME RestoreInv, WantedInv, n # 0, NEW k \in Nat, k <= Len(Plan[n][T]),
           \A i \in Rows(n, T) : i > sd[T].seq /\ i <= k => wanted[<<n, i>>] # "yes"
    PROVE  /\ Skipped(1..k) \in Nat
           /\ Cardinality(Selected(k)) <= Cardinality(Selected(sd[T].seq)) + Skipped(1..k)
<1> DEFINE Q == {i \in 1..k : i > sd[T].seq /\ wanted[<<n, i>>] = "skip"}
           A == Selected(sd[T].seq)
<1>1. n \in 1..Len(Plan) /\ Rows(n, T) = 1..Len(Plan[n][T]) /\ sd[T].seq \in Nat /\ Len(Plan[n][T]) \in Nat
    BY TargetRows
<1>2. IsFiniteSet(1..k) /\ Q \in SUBSET (1..k)
    BY FS_Interval
<1>3. Selected(k) \in SUBSET (A \cup Q)
    <2>1. ASSUME NEW i \in Selected(k), i \notin A PROVE i \in Q
        <3>1. i \in Rows(n, T) /\ i <= k /\ wanted[<<n, i>>] # "no" /\ i > sd[T].seq /\ i \in 1..k
            BY <1>1, <2>1 DEF Selected
        <3>2. wanted[<<n, i>>] \in {"no", "skip", "yes"}
            BY <1>1, <3>1 DEF WantedInv
        <3>3. QED
            BY <3>1, <3>2
    <2>2. QED
        BY <2>1
<1>4. Skipped(1..k) = Cardinality(Q)
    BY DEF Skipped
<1> HIDE DEF Q
<1>5. IsFiniteSet(Q) /\ Cardinality(Q) \in Nat
    BY <1>2, FS_Subset, FS_CardinalityType
<1>6. IsFiniteSet(A) /\ Cardinality(A) \in Nat /\ Cardinality(Selected(k)) \in Nat
    BY SelectedType
<1> HIDE DEF A
<1>7. IsFiniteSet(A \cup Q) /\ Cardinality(A \cup Q) <= Cardinality(A) + Cardinality(Q)
    <2>1. /\ IsFiniteSet(A \cup Q) /\ IsFiniteSet(A \cap Q)
          /\ Cardinality(A \cup Q) = Cardinality(A) + Cardinality(Q) - Cardinality(A \cap Q)
        BY <1>5, <1>6, FS_Union, FS_Intersection
    <2>2. Cardinality(A \cap Q) \in Nat
        BY <2>1, FS_CardinalityType
    <2>3. QED
        BY <1>5, <1>6, <2>1, <2>2
<1>8. Cardinality(Selected(k)) <= Cardinality(A \cup Q)
    BY <1>3, <1>7, FS_Subset
<1>9. Cardinality(A \cup Q) \in Nat
    BY <1>7, FS_CardinalityType
<1>10. QED
    BY <1>4, <1>5, <1>6, <1>7, <1>8, <1>9 DEF A

\* A step that counts nothing
LEMMA NothingCounted ==
    ASSUME RestoreInv, CountInv, AllInv, UNCHANGED <<n, written, wanted>>, sd'[T].seq = sd[T].seq,
           pc' \notin {"next", "done"} => pc \notin {"next", "done"} /\ (Pending => Pending'),
           pc' = "next" /\ sd'[T].fin => pc = "next" /\ sd[T].fin
    PROVE  AllInv'
<1>1. pc' \notin {"next", "done"} => written' + Due' >= Cardinality(Selected(sd[T].seq)')
    <2> SUFFICES ASSUME pc' \notin {"next", "done"}
                 PROVE  written' + Due' >= Cardinality(Selected(sd[T].seq)')
        OBVIOUS
    <2>1. Selected(sd[T].seq)' = Selected(sd[T].seq)
        BY DEF Selected, Rows
    <2>2. pc \notin {"next", "done"} /\ (Pending => Pending')
        OBVIOUS
    <2>3. written + Due >= Cardinality(Selected(sd[T].seq))
        BY <2>2 DEF AllInv
    <2>4. Due' \in {0, 1} /\ Due \in {0, 1} /\ (Due = 1 => Due' = 1)
        BY <2>2 DEF Due
    <2>5. n # 0
        BY <2>2, Placed
    <2>6. Cardinality(Selected(sd[T].seq)) \in Nat /\ written \in Int
        BY <2>5, SelectedType DEF CountInv
    <2>7. Due' >= Due
        BY <2>4
    <2> HIDE DEF Due
    <2>8. QED
        BY <2>1, <2>3, <2>4, <2>6, <2>7
<1>2. EveryFileCounted'
    BY DEF AllInv, EveryFileCounted, Rows
<1>3. QED
    BY <1>1, <1>2 DEF AllInv

\* finishCurrentFile saves the open file and counts it, or cancels.
LEMMA FinishDue ==
    ASSUME RestoreInv, CountInv, AllInv, sd[T].open, pc \notin {"next", "done"}, pc' \in {"pass", "file"},
           NEW t \in Record, t.seq = sd[T].seq, NEW h, NEW saved, finishCurrentFile(t, h, saved),
           UNCHANGED <<n, wanted>>
    PROVE  AllInv'
<1>1. n # 0 /\ sd[T] \in Record /\ sd \in [1..P -> Record] /\ genCanceled \in BOOLEAN
    BY Placed, TargetRows
<1> DEFINE bad == genCanceled \/ wrongHash(h)
           left == bad \/ saved = "exists"
           q == [t EXCEPT !.size = 0, !.start = 0, !.open = left]
<1>2. /\ sd' = [sd EXCEPT ![T] = q]
      /\ IF ~bad /\ saved = "ok"
         THEN written' = written + 1
         ELSE written' = written /\ genCanceled' = TRUE
              /\ outOfSpace' = IF genCanceled THEN outOfSpace ELSE FALSE
    BY DEF finishCurrentFile, cancelGen
<1>3. q.seq = t.seq /\ q.open = left
    BY DEF Record
<1> HIDE DEF q
<1>4. sd'[T].seq = sd[T].seq /\ sd'[T].open = left
    BY <1>1, <1>2, <1>3, Basics
<1>5. Cardinality(Selected(sd[T].seq)) \in Nat /\ written \in Int
    BY <1>1, SelectedType DEF CountInv
<1>6. written + 1 >= Cardinality(Selected(sd[T].seq))
    <2>1. Due = 1
        BY DEF Due, Pending
    <2>2. QED
        BY <2>1 DEF AllInv
<1>7. written' + Due' >= Cardinality(Selected(sd[T].seq))
    <2>1. CASE ~bad /\ saved = "ok"
        <3>1. Due' \in {0, 1}
            BY DEF Due
        <3> HIDE DEF Due
        <3>2. QED
            BY <1>2, <1>5, <1>6, <2>1, <3>1
    <2>2. CASE ~(~bad /\ saved = "ok")
        <3>1. Pending'
            <4>1. CASE left
                BY <1>4, <4>1 DEF Pending
            <4>2. CASE ~left
                BY <1>1, <1>2, <2>2, <4>2 DEF Pending
            <4>3. QED
                BY <4>1, <4>2
        <3>2. Due' = 1
            BY <3>1 DEF Due
        <3>3. QED
            BY <1>2, <1>6, <2>2, <3>2
    <2>3. QED
        BY <2>1, <2>2
<1>8. Selected(sd[T].seq)' = Selected(sd[T].seq)
    BY <1>4 DEF Selected, Rows
<1>9. EveryFileCounted'
    BY DEF EveryFileCounted
<1>10. QED
    BY <1>7, <1>8, <1>9 DEF AllInv

LEMMA SliceDue == ASSUME RestoreInv, CountInv, AllInv, NEW ok \in BOOLEAN, nextSlice(ok) PROVE AllInv'
<1>1. CASE n = Len(Plan) \/ operationCanceled
    BY <1>1 DEF nextSlice, AllInv, EveryFileCounted
<1>2. CASE ~(n = Len(Plan) \/ operationCanceled)
    <2>1. n' = n + 1 /\ written' = 0 /\ n + 1 \in 1..Len(Plan) /\ sd' = FreshFor(n + 1)
        BY <1>2, PlanAssumption DEF nextSlice, RestoreInv, TypeInv
    <2>2. sd'[T] = Fresh
        BY <2>1, FreshType
    <2>3. sd'[T].seq = 0 /\ sd'[T].fin = FALSE
        BY <2>2 DEF Fresh
    <2>4. Rows(n', T) = 1..Len(Plan[n'][T])
        BY <2>1, PlanRows, Basics DEF RestoreInv
    <2>5. Selected(sd[T].seq)' = {}
        BY <2>3, <2>4 DEF Selected, Rows
    <2>6. written' + Due' >= Cardinality(Selected(sd[T].seq)')
        <3>1. Due' \in {0, 1}
            BY DEF Due
        <3>2. Cardinality(Selected(sd[T].seq)') = 0
            BY <2>5, FS_EmptySet
        <3> HIDE DEF Due
        <3>3. QED
            BY <2>1, <3>1, <3>2
    <2>7. QED
        BY <2>3, <2>6 DEF AllInv, EveryFileCounted
<1>3. QED
    BY <1>1, <1>2

LEMMA NotDue ==
    ASSUME RestoreInv, CountInv, AllInv, pc = "file", ~genCanceled
    PROVE  /\ n # 0 /\ ~sd[T].open /\ written \in Int /\ Cardinality(Selected(sd[T].seq)) \in Nat
           /\ written >= Cardinality(Selected(sd[T].seq))
<1>1. n # 0 /\ ~sd[T].open
    BY Placed DEF RestoreInv, TargetInv
<1>2. Due = 0
    BY <1>1 DEF Due, Pending
<1>3. written \in Int /\ Cardinality(Selected(sd[T].seq)) \in Nat
    BY <1>1, SelectedType DEF CountInv
<1>4. QED
    BY <1>1, <1>2, <1>3 DEF AllInv

LEMMA NoTargetDue ==
    ASSUME RestoreInv, CountInv, WantedInv, AllInv, noNextTarget
    PROVE  AllInv'
<1> DEFINE l == Len(Plan[n][T])
<1>1. /\ pc = "file" /\ ~genCanceled /\ ToRestore = {} /\ pc' = "next"
      /\ written' = written + Skipped(Rows(n, T)) /\ UNCHANGED <<n, wanted>>
    BY DEF noNextTarget, envVars
<1>2. /\ n # 0 /\ written \in Int /\ Cardinality(Selected(sd[T].seq)) \in Nat
      /\ written >= Cardinality(Selected(sd[T].seq))
    BY <1>1, NotDue
<1>3. l \in Nat /\ Rows(n, T) = 1..l /\ sd[T].seq \in Nat
    BY <1>2, TargetRows
<1>4. \A i \in Rows(n, T) : i > sd[T].seq /\ i <= l => wanted[<<n, i>>] # "yes"
    BY <1>1 DEF ToRestore
<1> HIDE DEF l
<1>5. /\ Skipped(1..l) \in Nat
      /\ Cardinality(Selected(l)) <= Cardinality(Selected(sd[T].seq)) + Skipped(1..l)
    <2>1. l <= Len(Plan[n][T])
        BY <1>3 DEF l
    <2>2. QED
        BY <1>2, <1>3, <1>4, <2>1, PassedCounted
<1>6. Cardinality(Selected(l)) \in Nat
    BY <1>2, SelectedType
<1>7. written' >= Cardinality(Selected(l))
    BY <1>1, <1>2, <1>3, <1>5, <1>6
<1>8. Selected(l) = {i \in Rows(n, T) : wanted[<<n, i>>] # "no"}
    BY <1>3 DEF Selected
<1>9. EveryFileCounted'
    BY <1>1, <1>7, <1>8 DEF EveryFileCounted, Rows
<1>10. QED
    BY <1>1, <1>9 DEF AllInv

LEMMA OpenDue ==
    ASSUME RestoreInv, CountInv, WantedInv, AllInv, NEW ok \in BOOLEAN, openTarget(ok)
    PROVE  AllInv'
<1> DEFINE i == least(ToRestore)
           k == Skipped(1..(i - 1))
<1>1. /\ pc = "file" /\ ~genCanceled /\ ToRestore # {}
      /\ written' = written + k /\ UNCHANGED <<n, wanted>>
      /\ pc' = "next" => ~ok
    BY DEF openTarget, envVars
<1>2. /\ n # 0 /\ written \in Int /\ Cardinality(Selected(sd[T].seq)) \in Nat
      /\ written >= Cardinality(Selected(sd[T].seq))
    BY <1>1, NotDue
<1>3. /\ Len(Plan[n][T]) \in Nat /\ Rows(n, T) = 1..Len(Plan[n][T]) /\ sd[T].seq \in Nat
      /\ sd[T] \in Record /\ sd \in [1..P -> Record]
    BY <1>2, TargetRows
<1>4. i \in ToRestore /\ \A j \in ToRestore : i <= j
    <2>1. ToRestore \in SUBSET Nat
        BY <1>3 DEF ToRestore
    <2>2. QED
        BY <1>1, <2>1, LeastNat DEF least
<1>5. sd'[T].seq = i /\ sd'[T].open = ok /\ sd'[T].fin = sd[T].fin
    BY <1>3, Basics DEF openTarget, Record
<1>6. CASE ~ok
    <2>1. pc' = "next" /\ ~sd[T].fin
        BY <1>1, <1>6, Placed DEF openTarget
    <2>2. QED
        BY <1>5, <2>1 DEF AllInv, EveryFileCounted
<1>7. CASE ok
    <2> HIDE DEF i
    <2>1. i \in Rows(n, T) /\ i > sd[T].seq /\ i - 1 \in Nat /\ i - 1 <= Len(Plan[n][T])
        BY <1>3, <1>4 DEF ToRestore
    <2>2. \A j \in Rows(n, T) : j > sd[T].seq /\ j <= i - 1 => wanted[<<n, j>>] # "yes"
        <3>1. ASSUME NEW j \in Rows(n, T), j > sd[T].seq, j <= i - 1, wanted[<<n, j>>] = "yes" PROVE FALSE
            <4>1. i <= j
                BY <1>4, <3>1 DEF ToRestore
            <4>2. QED
                BY <1>3, <2>1, <3>1, <4>1
        <3>2. QED
            BY <3>1
    <2>3. k \in Nat /\ Cardinality(Selected(i - 1)) <= Cardinality(Selected(sd[T].seq)) + k
        BY <1>2, <2>1, <2>2, PassedCounted
    <2> HIDE DEF k
    <2>4. /\ IsFiniteSet(Selected(i - 1)) /\ Cardinality(Selected(i - 1)) \in Nat
          /\ Cardinality(Selected(i)) \in Nat
        BY <1>2, SelectedType
    <2>5. Cardinality(Selected(i)) <= Cardinality(Selected(i - 1)) + 1
        <3>1. Selected(i) \in SUBSET (Selected(i - 1) \cup {i})
            BY <1>3, <2>1 DEF Selected
        <3>2. /\ IsFiniteSet(Selected(i - 1) \cup {i})
              /\ Cardinality(Selected(i - 1) \cup {i}) = IF i \in Selected(i - 1) THEN Cardinality(Selected(i - 1))
                                                         ELSE Cardinality(Selected(i - 1)) + 1
            BY <2>4, FS_AddElement
        <3>3. Cardinality(Selected(i)) <= Cardinality(Selected(i - 1) \cup {i})
            BY <3>1, <3>2, FS_Subset
        <3>4. QED
            BY <2>4, <3>2, <3>3
    <2>6. Due' = 1
        BY <1>5, <1>7 DEF Due, Pending
    <2>7. written' + Due' >= Cardinality(Selected(i))
        BY <1>1, <1>2, <2>3, <2>4, <2>5, <2>6
    <2>8. Selected(sd[T].seq)' = Selected(i)
        BY <1>1, <1>5 DEF Selected, Rows
    <2>9. EveryFileCounted'
        BY <1>1, <1>7 DEF EveryFileCounted
    <2>10. QED
        BY <2>7, <2>8, <2>9 DEF AllInv
<1>8. QED
    BY <1>6, <1>7

LEMMA WriteDue == ASSUME RestoreInv, CountInv, AllInv, NEW saved, finishWrite(saved) PROVE AllInv'
<1> DEFINE k == sd[T].len
           t == [sd[T] EXCEPT !.len = 0, !.off = sd[T].off + k, !.left = sd[T].left - k]
           h == hashed \o SubSeq(buf[T], 1, k)
<1>1. /\ pc = "pass" /\ pc' = "pass"
      /\ IF t.left <= 0 THEN finishCurrentFile(t, h, saved)
         ELSE sd' = [sd EXCEPT ![T] = t] /\ UNCHANGED <<written, genCanceled, outOfSpace>>
      /\ UNCHANGED <<n, wanted>>
    BY DEF finishWrite, envVars, canVars
<1>2. n # 0 /\ sd \in [1..P -> Record]
    BY <1>1, Placed, TargetRows
<1>3. sd[T].open /\ t \in Record /\ t.seq = sd[T].seq /\ t.open = sd[T].open
    BY WrittenTarget
<1> HIDE DEF t, h
<1>4. CASE t.left <= 0
    BY <1>1, <1>3, <1>4, FinishDue
<1>5. CASE ~(t.left <= 0)
    <2>1. sd'[T] = t
        BY <1>1, <1>2, <1>5, Basics
    <2>2. Pending'
        BY <1>3, <2>1 DEF Pending
    <2>3. QED
        BY <1>1, <1>3, <1>5, <2>1, <2>2, NothingCounted
<1>6. QED
    BY <1>4, <1>5

LEMMA CancelDue ==
    ASSUME RoomToCount, RestoreInv, CountInv, AllInv, NEW K \in SUBSET (1..P), cancelAIO(K)
    PROVE  AllInv'
<1>1. /\ pc = "pass" /\ genCanceled /\ K \subseteq {i \in 1..P : Busy(i)} /\ pc' = AfterTurn(want')
      /\ want' = [i \in 1..P |-> IF i \in K THEN want[i] ELSE 0]
      /\ UNCHANGED <<n, wanted, genCanceled, outOfSpace>>
    BY DEF cancelAIO, canVars, envVars
<1>2. n # 0 /\ n \in 1..Len(Plan) /\ Len(Plan[n][T]) \in Nat /\ sd \in [1..P -> Record] /\ sd[T] \in Record
    BY <1>1, Placed, TargetRows
<1>3. pc' \in {"after", "suspend"}
    BY <1>1 DEF AfterTurn
<1>4. CASE K = {} /\ ~outOfSpace
    <2>1. /\ written' = written + countOne
          /\ sd' = [sd EXCEPT ![T].left = 0, ![T].open = FALSE]
        BY <1>4 DEF cancelAIO
    <2>2. sd'[T].seq = sd[T].seq
        BY <1>2, <2>1, Basics DEF Record
    <2>3. /\ Cardinality(Selected(sd[T].seq)) \in Nat /\ written \in Int
          /\ Cardinality(Selected(sd[T].seq)) <= CountBound
        <3>1. CountBound \in Nat /\ Len(Plan[n][T]) <= CountBound
            BY <1>2, CountAssumption DEF RoomToCount
        <3>2. Cardinality(Selected(sd[T].seq)) \in Nat /\ Cardinality(Selected(sd[T].seq)) <= Len(Plan[n][T])
            BY <1>2, SelectedType
        <3>3. QED
            BY <1>2, <3>1, <3>2 DEF CountInv
    <2>4. written + Due >= Cardinality(Selected(sd[T].seq)) /\ Due \in {0, 1} /\ Due' \in {0, 1}
        BY <1>1 DEF AllInv, Due
    <2> HIDE DEF Due
    <2>5. written' + Due' >= Cardinality(Selected(sd[T].seq))
        <3>1. CountBound \in Nat
            BY CountAssumption
        <3>2. CASE written < CountBound
            <4>1. written' = written + 1
                BY <2>1, <3>2 DEF countOne
            <4>2. QED
                BY <2>3, <2>4, <4>1
        <3>3. CASE ~(written < CountBound)
            <4>1. written' = written
                BY <2>1, <2>3, <3>3 DEF countOne
            <4>2. QED
                BY <2>3, <2>4, <3>1, <3>3, <4>1
        <3>4. QED
            BY <3>2, <3>3
    <2>6. Selected(sd[T].seq)' = Selected(sd[T].seq)
        BY <1>1, <2>2 DEF Selected, Rows
    <2>7. EveryFileCounted'
        BY <1>3 DEF EveryFileCounted
    <2>8. QED
        BY <2>5, <2>6, <2>7 DEF AllInv
<1>5. CASE ~(K = {} /\ ~outOfSpace)
    <2>1. sd' = sd /\ written' = written
        BY <1>5 DEF cancelAIO
    <2>2. Pending => Pending'
        <3>1. CASE sd[T].open
            BY <2>1, <3>1 DEF Pending
        <3>2. CASE K # {}
            <4>1. PICK i \in K : i \in 1..P /\ want[i] > 0
                BY <1>1, <3>2 DEF Busy
            <4>2. want'[i] = want[i]
                BY <1>1, <4>1
            <4>3. want' # Idle
                <5>1. Idle[i] = 0 /\ want'[i] # 0
                    BY <4>1, <4>2 DEF Idle
                <5>2. QED
                    BY <5>1
            <4>4. pc' = "suspend"
                BY <1>1, <4>3 DEF AfterTurn
            <4>5. QED
                BY <1>1, <2>1, <4>4 DEF Pending
        <3>3. CASE ~sd[T].open /\ K = {}
            BY <1>5, <3>3 DEF Pending
        <3>4. QED
            BY <3>1, <3>2, <3>3
    <2>3. QED
        BY <1>1, <1>3, <2>1, <2>2, NothingCounted
<1>6. QED
    BY <1>4, <1>5

\* A step that leaves the target file as it is and may cancel
LEMMA TargetSame ==
    ASSUME RestoreInv, CountInv, AllInv, UNCHANGED <<n, written, wanted>>, pc \notin {"next", "done"},
           sd'[T].seq = sd[T].seq, sd'[T].open = sd[T].open, sd'[T].fin = sd[T].fin,
           \/ pc \in {"round", "empty", "after"}
           \/ genCanceled => /\ genCanceled' /\ outOfSpace' = outOfSpace
                             /\ pc' \in {"target", "file", "pass", "suspend", "next"}
    PROVE  AllInv'
<1>1. ~sd[T].fin
    BY Placed
<1>2. pc' \notin {"next", "done"} => (Pending => Pending')
    BY DEF Pending
<1>3. QED
    BY <1>1, <1>2, NothingCounted

LEMMA OtherDue ==
    ASSUME RestoreInv, CountInv, AllInv, NEW g, NEW ok,
           startRead(g, ok) \/ consumeRead(g, ok) \/ rejectRead \/ computeParity
    PROVE  AllInv'
<1>1. UNCHANGED <<n, written, wanted>>
    BY DEF startRead, consumeRead, rejectRead, computeParity, cntVars, monitorRun, envVars
<1>2. pc \in {"pass", "after"} /\ n # 0 /\ sd \in [1..P -> Record] /\ sd[T] \in Record
    BY Placed, TargetRows DEF startRead, consumeRead, rejectRead, computeParity
<1>3. CASE computeParity
    <2>1. /\ sd'[T].seq = sd[T].seq /\ sd'[T].open = sd[T].open /\ sd'[T].fin = sd[T].fin
        BY <1>3, ComputeTarget
    <2>2. QED
        BY <1>1, <1>3, <2>1, TargetSame DEF computeParity
<1>4. CASE startRead(g, ok) \/ consumeRead(g, ok) \/ rejectRead
    <2>1. /\ pc = "pass" /\ pc' = "pass" /\ at \in Readers /\ \E q : sd' = [sd EXCEPT ![at] = q]
          /\ cancelGen(FALSE) \/ UNCHANGED canVars
        BY <1>4 DEF startRead, consumeRead, rejectRead, startAIO
    <2>2. sd'[T] = sd[T]
        BY <1>2, <2>1, Basics
    <2>3. genCanceled => genCanceled' /\ outOfSpace' = outOfSpace
        BY <2>1 DEF cancelGen, canVars
    <2>4. QED
        BY <1>1, <2>1, <2>2, <2>3, TargetSame
<1>5. QED
    BY <1>3, <1>4

\* The thread moves on, and may cancel.
LEMMA ControlDue ==
    ASSUME RestoreInv, CountInv, AllInv,
           \/ restoreFromSlice \/ beginTurn \/ afterCancel \/ skipDisk \/ rejectAIO
           \/ startWrite \/ rejectWrite \/ endPass \/ suspend \/ afterFill
    PROVE  AllInv'
<1>1. CASE restoreFromSlice \/ afterFill
    <2>1. CASE restoreFromSlice /\ operationCanceled
        <3>1. pc = "round" /\ pc' = "next" /\ sd' = sd
            BY <2>1 DEF restoreFromSlice
        <3>2. ~sd[T].fin
            BY <3>1, Placed
        <3>3. QED
            BY <3>1, <3>2 DEF AllInv, EveryFileCounted
    <2>2. CASE restoreFromSlice /\ ~operationCanceled
        BY <2>2, TargetSame DEF restoreFromSlice, cntVars, envVars
    <2>3. CASE afterFill
        BY <2>3, TargetSame DEF afterFill, cntVars, monitorRun, envVars
    <2>4. QED
        BY <1>1, <2>1, <2>2, <2>3
<1>2. CASE beginTurn \/ afterCancel \/ skipDisk \/ suspend
    <2>1. CASE beginTurn
        BY <2>1, Placed, TargetSame DEF beginTurn, cntVars, envVars
    <2>2. CASE afterCancel \/ skipDisk \/ suspend
        BY <2>2, TargetSame DEF afterCancel, skipDisk, suspend, cntVars, canVars, envVars
    <2>3. QED
        BY <1>2, <2>1, <2>2
<1>3. CASE rejectAIO \/ rejectWrite
    BY <1>3, TargetSame DEF rejectAIO, rejectWrite, cancelGen, cntVars, envVars
<1>4. CASE startWrite \/ endPass
    BY <1>4, TargetSame DEF startWrite, endPass, cntVars, canVars, envVars
<1>5. QED
    BY <1>1, <1>2, <1>3, <1>4

\* A request completes, or Ctrl-C is pressed.
LEMMA OutsideDue ==
    ASSUME RestoreInv, CountInv, AllInv, UNCHANGED <<pc, n, sd, written, genCanceled, outOfSpace, wanted>>
    PROVE  AllInv'
<1>1. Pending => Pending'
    BY DEF Pending
<1>2. QED
    BY <1>1, NothingCounted

LEMMA AllStep ==
    ASSUME RoomToCount
    PROVE  RestoreInv /\ CountInv /\ WantedInv /\ AllInv /\ [Next]_vars => WantedInv' /\ AllInv'
<1> SUFFICES ASSUME RestoreInv, CountInv, WantedInv, AllInv, [Next]_vars PROVE WantedInv' /\ AllInv'
    OBVIOUS
<1>1. WantedInv'
    <2>1. wanted' = wanted
        <3>1. CASE Kernel
            BY <3>1 DEF Kernel, readDone, writeDone, badFile, envVars
        <3>2. CASE Thread
            BY <3>2 DEF Thread, nextSlice, restoreFromSlice, beginTurn, noNextTarget, openTarget, afterCancel,
                        saveEmpty, skipDisk, rejectRead, rejectAIO, startRead, consumeRead, startWrite,
                        rejectWrite, finishWrite, endPass, suspend, afterFill, computeParity, cancelAIO, envVars
        <3>3. CASE SaveFaults
            BY <3>3 DEF SaveFaults, saveEmpty, finishWrite, envVars
        <3>4. CASE Faults
            BY <3>4 DEF Faults, nextSlice, openTarget, intHandler, startRead, consumeRead, writeDone,
                        requestFails, envVars
        <3>5. QED
            BY <3>1, <3>2, <3>3, <3>4 DEF Next, vars
    <2>2. QED
        BY <2>1 DEF WantedInv, Rows
<1> SUFFICES AllInv'
    BY <1>1
<1>2. CASE UNCHANGED vars
    BY <1>2, OutsideDue DEF vars
<1>3. CASE Kernel
    <2>1. UNCHANGED <<pc, n, sd, written, genCanceled, outOfSpace, wanted>>
        BY <1>3 DEF Kernel, readDone, writeDone, badFile, cntVars, canVars, envVars
    <2>2. QED
        BY <2>1, OutsideDue
<1>4. CASE \E ok \in BOOLEAN : nextSlice(ok) \/ openTarget(ok)
    BY <1>4, SliceDue, OpenDue
<1>5. CASE \E saved : saveEmpty(saved) \/ finishWrite(saved)
    <2>1. ASSUME NEW saved, saveEmpty(saved) PROVE AllInv'
        <3>1. /\ pc = "empty" /\ pc' = "file" /\ finishCurrentFile(sd[T], hashed, saved) /\ UNCHANGED <<n, wanted>>
            BY <2>1 DEF saveEmpty, envVars
        <3>2. sd[T].open /\ sd[T] \in Record
            BY <3>1, Buffers DEF RestoreInv, TargetInv
        <3>3. QED
            BY <3>1, <3>2, FinishDue
    <2>2. QED
        BY <1>5, <2>1, WriteDue
<1>6. CASE \E g, ok : startRead(g, ok) \/ consumeRead(g, ok) \/ rejectRead \/ computeParity
    BY <1>6, OtherDue
<1>7. CASE Thread
    <2>1. CASE nextSlice(TRUE) \/ openTarget(TRUE)
        BY <1>4, <2>1
    <2>2. CASE \/ restoreFromSlice \/ beginTurn \/ afterCancel \/ skipDisk \/ rejectAIO
               \/ startWrite \/ rejectWrite \/ endPass \/ suspend \/ afterFill
        BY <2>2, ControlDue
    <2>3. CASE noNextTarget
        BY <2>3, NoTargetDue
    <2>4. CASE saveEmpty("ok") \/ finishWrite("ok")
        BY <1>5, <2>4
    <2>5. CASE rejectRead \/ computeParity \/ \E g \in Garbage : startRead(g, TRUE) \/ consumeRead(g, TRUE)
        BY <1>6, <2>5
    <2>6. CASE \E K \in SUBSET (1..P) : cancelAIO(K)
        BY <2>6, CancelDue
    <2>7. QED
        BY <1>7, <2>1, <2>2, <2>3, <2>4, <2>5, <2>6 DEF Thread
<1>8. CASE SaveFaults
    BY <1>5, <1>8 DEF SaveFaults
<1>9. CASE Faults
    <2>1. CASE nextSlice(FALSE) \/ openTarget(FALSE)
        BY <1>4, <2>1
    <2>2. CASE \E g \in Garbage : startRead(g, FALSE) \/ consumeRead(g, FALSE)
        BY <1>6, <2>2
    <2>3. CASE \/ intHandler \/ \E k \in 0..(BufSize - 1) : k < want[T] /\ writeDone(k)
               \/ \E i \in 1..P, k \in {-1, 0, NoSpace} : requestFails(i, k)
        <3>1. UNCHANGED <<pc, n, sd, written, genCanceled, outOfSpace, wanted>>
            BY <2>3 DEF intHandler, writeDone, requestFails, cntVars, canVars, envVars
        <3>2. QED
            BY <3>1, OutsideDue
    <2>4. QED
        BY <1>9, <2>1, <2>2, <2>3 DEF Faults
<1>10. QED
    BY <1>2, <1>3, <1>7, <1>8, <1>9 DEF Next

LEMMA AllInit == Init => WantedInv /\ AllInv
<1> SUFFICES ASSUME Init PROVE WantedInv /\ AllInv
    OBVIOUS
<1>1. ASSUME NEW m \in 1..Len(Plan), NEW i \in Rows(m, T) PROVE wanted[<<m, i>>] \in {"no", "skip", "yes"}
    <2>1. m \in Slices
        BY PlanAssumption DEF Slices
    <2>2. <<m, i>> \in {m} \X Rows(m, T)
        OBVIOUS
    <2>3. <<m, i>> \in Targets
        BY <2>1, <2>2 DEF Targets
    <2>4. wanted \in [Targets -> {"no", "skip", "yes"}]
        BY DEF Init
    <2>5. QED
        BY <2>3, <2>4
<1>2. sd[T].fin = FALSE /\ pc = "next"
    BY Basics DEF Init, Start, Fresh
<1>3. QED
    BY <1>1, <1>2 DEF WantedInv, AllInv, EveryFileCounted

\* When the thread is done with a slice, no file of it that was to be restored is missing from the
\* count, however giving up and saving overlap (asyncio.cpp:113, :158, :418).
THEOREM EveryFileCountedHolds == ASSUME RoomToCount PROVE Spec => []EveryFileCounted
<1>1. AllInv => EveryFileCounted
    BY DEF AllInv
<1>2. RestoreInv /\ CountInv /\ WantedInv /\ AllInv /\ [Next]_vars => WantedInv' /\ AllInv'
    BY AllStep
<1>3. QED
    BY <1>1, <1>2, RestoreInit, RestoreStep, CountInit, CountStep, AllInit, PTL DEF Spec

----------------------------------------------------------------------------
(* The type invariant.                                                     *)

\* What TypeOK asks for beyond TypeInv
RestInv ==
    /\ want \in [1..P -> 0..BufSize] /\ res \in [1..P -> -3..BufSize]
    /\ written \in Nat /\ canceled \in Nat /\ rv \in {0, -1} /\ outOfSpace \in BOOLEAN

LEMMA RestKept ==
    ASSUME RestInv, written' \in Nat, canceled' \in Nat, rv' \in {0, -1}, outOfSpace' \in BOOLEAN,
           NEW i \in 1..P, NEW w \in 0..BufSize, want' = want \/ want' = [want EXCEPT ![i] = w],
           NEW k \in -3..BufSize, res' = res \/ res' = [res EXCEPT ![i] = k]
    PROVE  RestInv'
<1>1. want' \in [1..P -> 0..BufSize]
    BY DEF RestInv
<1>2. res' \in [1..P -> -3..BufSize]
    BY DEF RestInv
<1>3. QED
    BY <1>1, <1>2 DEF RestInv

\* What monitorRun is told of
ToldInv == told \in [written : Nat, canceled : Nat]

LEMMA ToldStep == RestInv /\ ToldInv /\ [Next]_vars => ToldInv'
<1> SUFFICES ASSUME RestInv, ToldInv, [Next]_vars PROVE ToldInv'
    OBVIOUS
<1>1. told' = told \/ told' = Nothing \/ monitorRun
    <2>1. CASE Kernel
        BY <2>1 DEF Kernel, readDone, writeDone, badFile, cntVars
    <2>2. CASE Thread
        BY <2>2 DEF Thread, nextSlice, restoreFromSlice, beginTurn, noNextTarget, openTarget, afterCancel,
                    saveEmpty, skipDisk, rejectRead, rejectAIO, startRead, consumeRead, startWrite,
                    rejectWrite, finishWrite, endPass, suspend, afterFill, computeParity, cancelAIO, cntVars
    <2>3. CASE SaveFaults
        BY <2>3 DEF SaveFaults, saveEmpty, finishWrite, cntVars
    <2>4. CASE Faults
        BY <2>4 DEF Faults, nextSlice, openTarget, intHandler, startRead, consumeRead, writeDone,
                    requestFails, cntVars
    <2>5. QED
        BY <2>1, <2>2, <2>3, <2>4 DEF Next, vars
<1>2. QED
    BY <1>1 DEF ToldInv, RestInv, monitorRun, Nothing

\* A step that starts and ends no request
LEMMA RestIdle ==
    ASSUME RestInv, UNCHANGED <<want, res>>, written' \in Nat, canceled' \in Nat, rv' \in {0, -1},
           outOfSpace' \in BOOLEAN
    PROVE  RestInv'
BY DEF RestInv

LEMMA CanceledType ==
    ASSUME RestInv, NEW full \in BOOLEAN, cancelGen(full) \/ UNCHANGED canVars
    PROVE  outOfSpace' \in BOOLEAN
BY DEF RestInv, cancelGen, canVars

LEMMA KernelRest ==
    ASSUME RestoreInv, RestInv,
           \/ \E i \in Readers, k \in Slots : readDone(i, k)
           \/ \E k \in Int : writeDone(k)
           \/ \E i \in 1..P : badFile(i)
           \/ \E i \in 1..P, k \in {-1, 0, NoSpace} : requestFails(i, k)
    PROVE  RestInv'
<1>1. UNCHANGED <<want, written, canceled, rv, outOfSpace>>
    BY DEF readDone, writeDone, badFile, requestFails, cntVars, canVars
<1>2. \E i \in 1..P, k \in -3..BufSize : res' = [res EXCEPT ![i] = k]
    <2>1. CASE \E i \in Readers, k \in Slots : readDone(i, k)
        <3>1. PICK i \in Readers, k \in Slots : res' = [res EXCEPT ![i] = k]
            BY <2>1 DEF readDone
        <3>2. i \in 1..P /\ k \in -3..BufSize
            BY Basics DEF Slots
        <3>3. QED
            BY <3>1, <3>2
    <2>2. CASE \E k \in Int : writeDone(k)
        <3>1. PICK k \in Int : k \in 0..want[T] /\ res' = [res EXCEPT ![T] = k]
            BY <2>2 DEF writeDone
        <3>2. want[T] \in 0..BufSize
            BY Basics DEF RestInv
        <3>3. k \in -3..BufSize
            BY <3>1, <3>2
        <3>4. QED
            BY <3>1, <3>3, Basics
    <2>3. CASE \E i \in 1..P : badFile(i)
        <3>1. PICK i \in 1..P : res' = [res EXCEPT ![i] = -1]
            BY <2>3 DEF badFile
        <3>2. -1 \in -3..BufSize
            OBVIOUS
        <3>3. QED
            BY <3>1, <3>2
    <2>4. CASE \E i \in 1..P, k \in {-1, 0, NoSpace} : requestFails(i, k)
        <3>1. PICK i \in 1..P, k \in {-1, 0, NoSpace} : res' = [res EXCEPT ![i] = k]
            BY <2>4 DEF requestFails
        <3>2. k \in -3..BufSize
            BY DEF NoSpace
        <3>3. QED
            BY <3>1, <3>2
    <2>5. QED
        BY <2>1, <2>2, <2>3, <2>4
<1>3. PICK i \in 1..P, k \in -3..BufSize : res' = [res EXCEPT ![i] = k]
    BY <1>2
<1>4. 0 \in 0..BufSize
    OBVIOUS
<1>5. QED
    BY <1>1, <1>3, <1>4, RestKept DEF RestInv

LEMMA ReadRest ==
    ASSUME RestoreInv, RestInv, NEW g \in Nat, NEW ok \in BOOLEAN,
           startRead(g, ok) \/ consumeRead(g, ok) \/ rejectRead
    PROVE  RestInv'
<1>1. pc = "pass" /\ at \in Readers /\ at \in 1..P /\ UNCHANGED <<written, canceled, rv>>
    BY Basics DEF startRead, consumeRead, rejectRead, cntVars
<1>2. outOfSpace' \in BOOLEAN
    <2>1. cancelGen(FALSE) \/ UNCHANGED canVars
        BY DEF startRead, consumeRead, rejectRead, startAIO
    <2>2. QED
        BY <2>1, CanceledType
<1>3. -3 \in -3..BufSize /\ 0 \in 0..BufSize
    OBVIOUS
<1>4. CASE startRead(g, ok)
    <2>1. startAIO(at, sd[at], g, ok)
        BY <1>4 DEF startRead
    <2>2. Started(at, sd[at])
        BY <1>1, <2>1, Reader, StartAIOStep
    <2>3. QED
        BY <1>1, <1>2, <1>3, <2>2, RestKept DEF Started, InProgress, RestInv
<1>5. CASE consumeRead(g, ok)
    <2> DEFINE k == res[at]
               r == [sd[at] EXCEPT !.len = sd[at].len + k, !.off = sd[at].off + k, !.left = sd[at].left - k]
    <2>1. /\ want[at] > 0 /\ k > 0
          /\ (want' = [want EXCEPT ![at] = 0] /\ res' = res) \/ startAIO(at, r, g, ok)
        BY <1>5 DEF consumeRead, Done
    <2>2. r \in Record
        BY <1>1, <2>1, Consumed
    <2> HIDE DEF r
    <2>3. CASE startAIO(at, r, g, ok)
        <3>1. Started(at, r)
            BY <1>1, <2>2, <2>3, Reader, StartAIOStep
        <3>2. QED
            BY <1>1, <1>2, <1>3, <3>1, RestKept DEF Started, InProgress, RestInv
    <2>4. CASE want' = [want EXCEPT ![at] = 0] /\ res' = res
        BY <1>1, <1>2, <1>3, <2>4, RestKept DEF RestInv
    <2>5. QED
        BY <2>1, <2>3, <2>4
<1>6. CASE rejectRead
    BY <1>1, <1>2, <1>3, <1>6, RestKept DEF rejectRead, RestInv
<1>7. QED
    BY <1>4, <1>5, <1>6

LEMMA WriteRest ==
    ASSUME RestoreInv, RestInv, NEW saved, startWrite \/ finishWrite(saved) \/ saveEmpty(saved)
    PROVE  RestInv'
<1>1. /\ canceled' = canceled /\ rv' = rv /\ sd[T].len \in 0..BufSize /\ T \in 1..P
      /\ -3 \in -3..BufSize /\ 0 \in 0..BufSize
    BY Buffers, Basics DEF startWrite, finishWrite, saveEmpty, cntVars
<1>2. written' \in Nat /\ outOfSpace' \in BOOLEAN
    <2>1. \/ written' = written /\ UNCHANGED canVars
          \/ written' = written + 1 /\ UNCHANGED canVars
          \/ written' = written /\ cancelGen(FALSE)
        BY DEF startWrite, finishWrite, saveEmpty, finishCurrentFile, cntVars
    <2>2. written' \in Nat
        <3>1. written \in Nat /\ (written' = written \/ written' = written + 1)
            BY <2>1 DEF RestInv
        <3>2. QED
            BY <3>1
    <2>3. UNCHANGED canVars \/ cancelGen(FALSE)
        BY <2>1
    <2>4. outOfSpace' \in BOOLEAN
        BY <2>3, CanceledType
    <2>5. QED
        BY <2>2, <2>4
<1>3. CASE startWrite
    BY <1>1, <1>2, <1>3, RestKept DEF startWrite, InProgress, RestInv
<1>4. CASE finishWrite(saved)
    BY <1>1, <1>2, <1>4, RestKept DEF finishWrite, RestInv
<1>5. CASE saveEmpty(saved)
    BY <1>1, <1>2, <1>5, RestIdle DEF saveEmpty, aioVars, RestInv
<1>6. QED
    BY <1>3, <1>4, <1>5

LEMMA CancelRest ==
    ASSUME RestoreInv, RestInv, NEW K \in SUBSET (1..P), cancelAIO(K)
    PROVE  RestInv'
<1>1. want' = [i \in 1..P |-> IF i \in K THEN want[i] ELSE 0] /\ UNCHANGED <<res, rv, outOfSpace>>
    BY DEF cancelAIO, canVars
<1>2. want' \in [1..P -> 0..BufSize]
    BY <1>1 DEF RestInv
<1>3. written' \in Nat /\ canceled' \in Nat
    <2>1. countOne \in {0, 1} /\ written \in Nat /\ canceled \in Nat
        BY DEF countOne, RestInv
    <2>2. \/ written' = written + countOne /\ canceled' = canceled + countOne
          \/ UNCHANGED <<written, canceled>>
        BY DEF cancelAIO
    <2>3. QED
        BY <2>1, <2>2
<1>4. QED
    BY <1>1, <1>2, <1>3 DEF RestInv

LEMMA SkipRest ==
    ASSUME RestoreInv, RestInv, NEW ok \in BOOLEAN, nextSlice(ok) \/ noNextTarget \/ openTarget(ok)
    PROVE  RestInv'
<1>1. CASE nextSlice(ok)
    <2>1. UNCHANGED <<want, res, rv>>
        BY <1>1 DEF nextSlice, aioVars
    <2>2. \/ UNCHANGED <<written, canceled, outOfSpace>>
          \/ written' = 0 /\ canceled' = 0 /\ outOfSpace' = FALSE
        BY <1>1 DEF nextSlice, cntVars
    <2>3. written' \in Nat /\ canceled' \in Nat
        BY <2>2 DEF RestInv
    <2>4. outOfSpace' \in BOOLEAN
        BY <2>2 DEF RestInv
    <2>5. QED
        BY <2>1, <2>3, <2>4 DEF RestInv
<1>2. CASE noNextTarget \/ openTarget(ok)
    <2>1. UNCHANGED <<want, res, rv, outOfSpace>> /\ n # 0
        BY <1>2, Placed DEF noNextTarget, openTarget, aioVars, canVars
    <2>2. Rows(n, T) = 1..Len(Plan[n][T]) /\ Len(Plan[n][T]) \in Nat
        BY <2>1, TargetRows
    <2>3. \E S \in SUBSET Rows(n, T) : written' = written + Skipped(S) /\ canceled' = canceled + Skipped(S)
        <3>1. CASE noNextTarget
            BY <3>1 DEF noNextTarget
        <3>2. CASE openTarget(ok)
            <4> DEFINE i == least(ToRestore)
            <4>1. ToRestore \in SUBSET Rows(n, T) /\ Rows(n, T) \in SUBSET Nat /\ ToRestore # {}
                <5>1. ToRestore # {}
                    BY <3>2 DEF openTarget
                <5>2. ToRestore \in SUBSET Rows(n, T)
                    BY DEF ToRestore
                <5>3. Rows(n, T) \in SUBSET Nat
                    BY <2>2
                <5>4. QED
                    BY <5>1, <5>2, <5>3
            <4>2. i \in Rows(n, T)
                BY <4>1, LeastOf
            <4>3. written' = written + Skipped(1..(i - 1)) /\ canceled' = canceled + Skipped(1..(i - 1))
                BY <3>2 DEF openTarget
            <4> HIDE DEF i
            <4>4. 1..(i - 1) \in SUBSET Rows(n, T)
                BY <2>2, <4>2
            <4>5. QED
                BY <4>3, <4>4
        <3>3. QED
            BY <1>2, <3>1, <3>2
    <2>4. PICK S \in SUBSET Rows(n, T) : written' = written + Skipped(S) /\ canceled' = canceled + Skipped(S)
        BY <2>3
    <2>5. Skipped(S) \in Nat
        BY <2>1, SkippedType
    <2>6. written' \in Nat /\ canceled' \in Nat
        BY <2>4, <2>5 DEF RestInv
    <2>7. QED
        BY <2>1, <2>6 DEF RestInv
<1>3. QED
    BY <1>1, <1>2

LEMMA ControlRest ==
    ASSUME RestoreInv, RestInv, ToldInv,
           \/ restoreFromSlice \/ beginTurn \/ afterCancel \/ skipDisk \/ rejectAIO
           \/ rejectWrite \/ endPass \/ suspend \/ afterFill \/ computeParity \/ intHandler
    PROVE  RestInv'
<1>1. UNCHANGED <<want, res>> /\ written' \in Nat /\ canceled' \in Nat
    <2>1. \/ UNCHANGED <<written, canceled>>
          \/ written' = told.written /\ canceled' = told.canceled
        BY DEF restoreFromSlice, beginTurn, afterCancel, skipDisk, rejectAIO, rejectWrite, endPass, suspend,
               afterFill, computeParity, intHandler, cntVars, monitorRun
    <2>2. told.written \in Nat /\ told.canceled \in Nat
        BY DEF ToldInv
    <2>3. written' \in Nat /\ canceled' \in Nat
        BY <2>1, <2>2 DEF RestInv
    <2>4. UNCHANGED <<want, res>>
        BY DEF restoreFromSlice, beginTurn, afterCancel, skipDisk, rejectAIO, rejectWrite, endPass, suspend,
               afterFill, computeParity, intHandler, aioVars
    <2>5. QED
        BY <2>3, <2>4
<1>2. rv' \in {0, -1}
    <2>1. rv' = rv \/ rv' = 0 \/ rv' = -1
        BY DEF restoreFromSlice, beginTurn, afterCancel, skipDisk, rejectAIO, rejectWrite, endPass, suspend,
               afterFill, computeParity, intHandler
    <2>2. QED
        BY <2>1 DEF RestInv
<1>3. outOfSpace' \in BOOLEAN
    <2>1. CASE computeParity \/ rejectWrite
        <3>1. outOfSpace' = outOfSpace \/ cancelGen(FALSE)
            BY <2>1 DEF computeParity, rejectWrite, canVars
        <3>2. QED
            BY <3>1, CanceledType DEF RestInv
    <2>2. CASE rejectAIO
        BY <2>2, CanceledType DEF rejectAIO
    <2>3. CASE \/ restoreFromSlice \/ beginTurn \/ afterCancel \/ skipDisk \/ endPass \/ suspend
               \/ afterFill \/ intHandler
        BY <2>3 DEF restoreFromSlice, beginTurn, afterCancel, skipDisk, endPass, suspend, afterFill,
                    intHandler, canVars, RestInv
    <2>4. QED
        BY <2>1, <2>2, <2>3
<1>4. QED
    BY <1>1, <1>2, <1>3, RestIdle DEF RestInv

LEMMA RestInit == Init => RestInv /\ ToldInv
<1>1. 0 \in 0..BufSize /\ -3 \in -3..BufSize
    OBVIOUS
<1>2. QED
    <2> SUFFICES ASSUME Init PROVE RestInv /\ ToldInv
        OBVIOUS
    <2>1. want = [i \in 1..P |-> 0] /\ res = [i \in 1..P |-> -3]
        BY DEF Init, Start, Idle, InProgress
    <2>2. written = 0 /\ canceled = 0 /\ rv = 0 /\ outOfSpace = FALSE
        BY DEF Init, Start
    <2>3. want \in [1..P -> 0..BufSize] /\ res \in [1..P -> -3..BufSize]
        BY <1>1, <2>1
    <2>4. told = Nothing
        BY DEF Init, Start
    <2>5. QED
        BY <2>2, <2>3, <2>4 DEF RestInv, ToldInv, Nothing

LEMMA RestStep == RestoreInv /\ RestInv /\ ToldInv /\ [Next]_vars => RestInv'
<1> SUFFICES ASSUME RestoreInv, RestInv, ToldInv, [Next]_vars PROVE RestInv'
    OBVIOUS
<1>1. CASE UNCHANGED vars
    BY <1>1 DEF vars, RestInv
<1>2. CASE Kernel
    <2>1. want[T] \in Int
        BY Basics, Buffers
    <2>2. QED
        BY <1>2, <2>1, KernelRest DEF Kernel
<1>3. CASE Thread
    <2>1. CASE nextSlice(TRUE) \/ noNextTarget \/ openTarget(TRUE)
        BY <2>1, SkipRest
    <2>2. CASE \/ restoreFromSlice \/ beginTurn \/ afterCancel \/ skipDisk \/ rejectAIO
               \/ rejectWrite \/ endPass \/ suspend \/ afterFill \/ computeParity
        BY <2>2, ControlRest
    <2>3. CASE saveEmpty("ok") \/ startWrite \/ finishWrite("ok")
        BY <2>3, WriteRest
    <2>4. CASE rejectRead \/ \E g \in Garbage : startRead(g, TRUE) \/ consumeRead(g, TRUE)
        BY <2>4, GarbageType, ReadRest
    <2>5. CASE \E K \in SUBSET (1..P) : cancelAIO(K)
        BY <2>5, CancelRest
    <2>6. QED
        BY <1>3, <2>1, <2>2, <2>3, <2>4, <2>5 DEF Thread
<1>4. CASE SaveFaults
    BY <1>4, WriteRest DEF SaveFaults
<1>5. CASE Faults
    <2>1. CASE nextSlice(FALSE) \/ openTarget(FALSE)
        BY <2>1, SkipRest
    <2>2. CASE \E g \in Garbage : startRead(g, FALSE) \/ consumeRead(g, FALSE)
        BY <2>2, GarbageType, ReadRest
    <2>3. CASE intHandler
        BY <2>3, ControlRest
    <2>4. CASE \/ \E k \in 0..(BufSize - 1) : k < want[T] /\ writeDone(k)
               \/ \E i \in 1..P, k \in {-1, 0, NoSpace} : requestFails(i, k)
        BY <2>4, KernelRest
    <2>5. QED
        BY <1>5, <2>1, <2>2, <2>3, <2>4 DEF Faults
<1>6. QED
    BY <1>1, <1>2, <1>3, <1>4, <1>5 DEF Next

\* Wherever the rows say that files lie: no buffer is asked to hold more than its size, no request
\* is for less than nothing, no descriptor is read in front of its file (asyncio.cpp:34, :220).
THEOREM TypeOKHolds == Spec => []TypeOK
<1>1. RestoreInv /\ RestInv /\ ToldInv => TypeOK
    <2> SUFFICES ASSUME RestoreInv, RestInv, ToldInv PROVE TypeOK
        OBVIOUS
    <2>1. \A i \in 1..P : DOMAIN buf[i] = Slots
        BY DEF RestoreInv, TypeInv
    <2>2. \A i \in 1..P : res[i] \in -3..BufSize
        BY DEF RestInv
    <2>3. QED
        BY <2>1, <2>2 DEF RestoreInv, TypeInv, RestInv, ToldInv, TypeOK
<1>2. QED
    BY <1>1, RestoreInit, RestoreStep, RestInit, RestStep, ToldStep, PTL DEF Spec

=============================================================================

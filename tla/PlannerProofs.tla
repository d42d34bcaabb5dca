--------------------------- MODULE PlannerProofs ---------------------------
(***************************************************************************)
(* Proofs about Planner.                                                   *)
(***************************************************************************)
EXTENDS Planner, SumTheorems

USE NDisksAssumption

----------------------------------------------------------------------------
(* Sets of rows of one disk.                                               *)

Sized == size \in [Disks -> Seq(Nat)]

LEMMA Files ==
    ASSUME Sized, NEW d \in Disks
    PROVE  /\ size[d] \in Seq(Nat) /\ Len(size[d]) \in Nat /\ DOMAIN size[d] = 1..Len(size[d])
           /\ IsFiniteSet(DOMAIN size[d]) /\ DOMAIN size[d] \subseteq Nat
           /\ \A q \in DOMAIN size[d] : size[d][q] \in Nat
<1>1. size[d] \in Seq(Nat)
    BY DEF Sized
<1>2. /\ Len(size[d]) \in Nat /\ DOMAIN size[d] = 1..Len(size[d])
      /\ \A q \in DOMAIN size[d] : size[d][q] \in Nat
    BY <1>1
<1>3. IsFiniteSet(1..Len(size[d])) /\ 1..Len(size[d]) \subseteq Nat
    BY <1>2, FS_Interval
<1>4. QED
    BY <1>1, <1>2, <1>3

LEMMA RowsOf ==
    ASSUME Sized, NEW d \in Disks, NEW rows \in SUBSET DOMAIN size[d]
    PROVE  /\ IsFiniteSet(rows) /\ rows \subseteq Nat /\ Cardinality(rows) \in Nat
           /\ Bytes(d, rows) \in Nat
           /\ \A q \in rows : size[d][q] \in Nat /\ size[d][q] <= Bytes(d, rows)
           /\ Bytes(d, rows) = 0 <=> \A q \in rows : size[d][q] = 0
<1>1. /\ IsFiniteSet(rows) /\ rows \subseteq Nat /\ Cardinality(rows) \in Nat
      /\ \A q \in rows : size[d][q] \in Nat
    BY Files, FS_Subset, FS_CardinalityType
<1>2. Bytes(d, rows) \in Nat /\ (Bytes(d, rows) = 0 <=> \A q \in rows : size[d][q] = 0)
    BY <1>1, SumType, SumZero DEF Bytes
<1>3. ASSUME NEW q \in rows PROVE size[d][q] <= Bytes(d, rows)
    <2>1. SumFunctionOnSet(size[d], rows) = size[d][q] + SumFunctionOnSet(size[d], rows \ {q})
        BY <1>1, SumRemove
    <2>2. SumFunctionOnSet(size[d], rows \ {q}) \in Nat
        BY <1>1, SumSubset
    <2> DEFINE rest == SumFunctionOnSet(size[d], rows \ {q})
               all == SumFunctionOnSet(size[d], rows)
    <2>3. all = size[d][q] + rest /\ rest \in Nat /\ size[d][q] \in Nat /\ all = Bytes(d, rows)
        BY <1>1, <2>1, <2>2 DEF Bytes
    <2> HIDE DEF rest, all
    <2>4. QED
        BY <2>3
<1>4. QED
    BY <1>1, <1>2, <1>3

LEMMA RowsUnion ==
    ASSUME Sized, NEW d \in Disks, NEW rows \in SUBSET DOMAIN size[d],
           NEW more \in SUBSET DOMAIN size[d], rows \cap more = {}
    PROVE  /\ Bytes(d, rows \cup more) = Bytes(d, rows) + Bytes(d, more)
           /\ Cardinality(rows \cup more) = Cardinality(rows) + Cardinality(more)
<1>1. /\ IsFiniteSet(rows) /\ IsFiniteSet(more)
      /\ \A q \in rows \cup more : size[d][q] \in Nat
    BY RowsOf
<1>2. Bytes(d, rows \cup more) = Bytes(d, rows) + Bytes(d, more)
    BY <1>1, SumUnion DEF Bytes
<1>3. Cardinality(rows \cup more) = Cardinality(rows) + Cardinality(more)
    <2> DEFINE n == Cardinality(rows)
               m == Cardinality(more)
               u == Cardinality(rows \cup more)
    <2>1. Cardinality(rows \cap more) = 0 /\ n \in Nat /\ m \in Nat
        BY RowsOf, FS_EmptySet
    <2>2. u = n + m - Cardinality(rows \cap more)
        BY <1>1, FS_Union
    <2> SUFFICES u = n + m
        OBVIOUS
    <2> HIDE DEF n, m, u
    <2>3. QED
        BY <2>1, <2>2
<1>4. QED
    BY <1>2, <1>3

\* A row more
LEMMA RowMore ==
    ASSUME Sized, NEW d \in Disks, NEW rows \in SUBSET DOMAIN size[d],
           NEW q \in DOMAIN size[d], q \notin rows
    PROVE  Bytes(d, rows \cup {q}) = Bytes(d, rows) + size[d][q]
<1>1. IsFiniteSet(rows) /\ \A r \in rows : size[d][r] \in Nat
    BY RowsOf
<1>2. size[d][q] \in Nat
    BY Files
<1>3. QED
    BY <1>1, <1>2, SumAdd DEF Bytes

\* The rows of a disk are those in state '*' and the free ones.
LEMMA AllRows ==
    ASSUME Sized, NEW d \in Disks, marked[d] \subseteq DOMAIN size[d]
    PROVE  /\ Free(d) \subseteq DOMAIN size[d]
           /\ FilesSize(d) = Bytes(d, marked[d]) + Bytes(d, Free(d))
<1>1. Free(d) \subseteq DOMAIN size[d] /\ marked[d] \cap Free(d) = {}
      /\ marked[d] \cup Free(d) = DOMAIN size[d]
    BY DEF Free
<1>2. Bytes(d, DOMAIN size[d]) = Bytes(d, marked[d]) + Bytes(d, Free(d))
    BY <1>1, RowsUnion
<1>3. QED
    BY <1>1, <1>2 DEF FilesSize, Bytes, SumFunction

----------------------------------------------------------------------------
(* Least and largest.                                                      *)

LEMMA LeastOf ==
    ASSUME NEW S \in SUBSET Nat, S # {}
    PROVE  least(S) \in S /\ \A y \in S : least(S) <= y
BY LeastNat DEF least

LEMMA LargestSum ==
    ASSUME NEW F, \A d \in Disks : F[d] \in Nat
    PROVE  /\ \E d \in Disks : largest({F[e] : e \in Disks}) = F[d]
           /\ \A d \in Disks : F[d] <= largest({F[e] : e \in Disks})
<1>1. PICK d \in Disks : \A e \in Disks : F[e] <= F[d]
    BY LargestOf DEF Disks
<1>2. F[d] \in {F[e] : e \in Disks} /\ \A y \in {F[e] : e \in Disks} : F[d] >= y
    BY <1>1
<1>3. /\ largest({F[e] : e \in Disks}) \in {F[e] : e \in Disks}
      /\ \A y \in {F[e] : e \in Disks} : largest({F[e] : e \in Disks}) >= y
    BY <1>2 DEF largest
<1>4. QED
    BY <1>3

\* A set of rows that is not empty has a last one.
LEMMA LastRow ==
    ASSUME Sized, NEW d \in Disks, NEW rows \in SUBSET DOMAIN size[d], rows # {}
    PROVE  \E r \in rows : \A q \in rows : q <= r
<1> DEFINE F == [i \in 1..Len(size[d]) |-> IF i \in rows THEN i ELSE 0]
<1>1. rows \subseteq 1..Len(size[d]) /\ Len(size[d]) \in Nat
    BY Files
<1>2. Len(size[d]) \in Nat \ {0}
    BY <1>1
<1>3. \A i \in 1..Len(size[d]) : F[i] \in Nat /\ (i \in rows => F[i] = i)
                                 /\ (i \notin rows => F[i] = 0)
    BY <1>1
<1> HIDE DEF F
<1>4. PICK i \in 1..Len(size[d]) : \A j \in 1..Len(size[d]) : F[j] <= F[i]
    BY <1>2, <1>3, LargestOf
<1>5. PICK r \in rows : TRUE
    OBVIOUS
<1>6. r > 0 /\ F[r] = r /\ r \in 1..Len(size[d])
    BY <1>1, <1>3, <1>5
<1>7. i \in rows
    BY <1>3, <1>4, <1>6
<1>8. QED
    BY <1>1, <1>3, <1>4, <1>7

----------------------------------------------------------------------------
(* A finite set of rows in the order of seq.                               *)

InOrder(S) ==
    [i \in 1..Cardinality(S) |-> CHOOSE q \in S : Cardinality({p \in S : p < q}) = i - 1]

LEMMA RankGrows ==
    ASSUME NEW S \in SUBSET Nat, IsFiniteSet(S), NEW q \in S, NEW r \in S, q < r
    PROVE  /\ Cardinality({p \in S : p < q}) \in Nat
           /\ Cardinality({p \in S : p < q}) < Cardinality({p \in S : p < r})
<1> DEFINE lo == {p \in S : p < q}
           hi == {p \in S : p < r}
<1>1. IsFiniteSet(lo) /\ IsFiniteSet(hi) /\ Cardinality(lo) \in Nat /\ Cardinality(hi) \in Nat
    BY FS_Subset, FS_CardinalityType
<1>2. lo \subseteq hi /\ q \in hi /\ q \notin lo
    <2>1. q \in Nat /\ r \in Nat /\ \A p \in S : p \in Nat
        OBVIOUS
    <2>2. \A p \in S : p < q => p < r
        BY <2>1
    <2>3. q < r /\ ~ (q < q)
        BY <2>1
    <2>4. QED
        BY <2>2, <2>3, Zenon
<1>3. Cardinality(lo) <= Cardinality(hi) /\ Cardinality(lo) # Cardinality(hi)
    BY <1>1, <1>2, FS_Subset
<1>4. QED
    BY <1>1, <1>3

LEMMA RankBound ==
    ASSUME NEW S \in SUBSET Nat, IsFiniteSet(S), NEW q \in S
    PROVE  Cardinality({p \in S : p < q}) \in 0..(Cardinality(S) - 1)
<1> DEFINE lo == {p \in S : p < q}
<1>1. IsFiniteSet(lo) /\ Cardinality(lo) \in Nat /\ Cardinality(S) \in Nat
    BY FS_Subset, FS_CardinalityType
<1>2. q \notin lo
    OBVIOUS
<1>3. Cardinality(lo) <= Cardinality(S) /\ Cardinality(lo) # Cardinality(S)
    BY <1>1, <1>2, FS_Subset
<1>4. QED
    BY <1>1, <1>3

\* Every rank is taken.
LEMMA RanksTaken ==
    ASSUME NEW S \in SUBSET Nat, IsFiniteSet(S), NEW i \in 1..Cardinality(S)
    PROVE  \E q \in S : Cardinality({p \in S : p < q}) = i - 1
<1> DEFINE n == Cardinality(S)
           rank == [q \in S |-> Cardinality({p \in S : p < q})]
<1>1. n \in Nat /\ IsFiniteSet(0..(n - 1)) /\ Cardinality(0..(n - 1)) = n
    <2>1. n \in Nat
        BY FS_CardinalityType
    <2> HIDE DEF n
    <2>2. n - 1 \in Int /\ 0 \in Int
        BY <2>1
    <2>3. IsFiniteSet(0..(n - 1)) /\ Cardinality(0..(n - 1)) = IF 0 > n - 1 THEN 0 ELSE n - 1 - 0 + 1
        BY <2>2, FS_Interval, Zenon
    <2>4. QED
        BY <2>1, <2>3
<1>2. rank \in [S -> 0..(n - 1)]
    BY RankBound
<1>3. ASSUME NEW q \in S, NEW r \in S, rank[q] = rank[r] PROVE q = r
    <2>1. CASE q < r
        BY <1>3, <2>1, RankGrows
    <2>2. CASE r < q
        BY <1>3, <2>2, RankGrows
    <2>3. QED
        BY <2>1, <2>2
<1>4. rank \in Injection(S, 0..(n - 1))
    BY <1>2, <1>3 DEF Injection, IsInjective
<1>5. rank \in Surjection(S, 0..(n - 1))
    BY <1>1, <1>4, FS_Injection
<1>6. i - 1 \in 0..(n - 1)
    BY <1>1
<1>7. PICK q \in S : rank[q] = i - 1
    BY <1>5, <1>6 DEF Surjection
<1>8. QED
    BY <1>7

LEMMA Enumerated ==
    ASSUME NEW S \in SUBSET Nat, IsFiniteSet(S)
    PROVE  /\ Cardinality(S) \in Nat /\ Len(InOrder(S)) = Cardinality(S)
           /\ \A i \in 1..Cardinality(S) : InOrder(S)[i] \in S
           /\ \A q \in S : \E i \in 1..Cardinality(S) : InOrder(S)[i] = q
           /\ \A i, j \in 1..Cardinality(S) : i < j => InOrder(S)[i] < InOrder(S)[j]
<1> DEFINE n == Cardinality(S)
           c == InOrder(S)
           rank(q) == Cardinality({p \in S : p < q})
<1>1. n \in Nat /\ Len(c) = n
    BY FS_CardinalityType DEF InOrder
<1>2. \A i \in 1..n : c[i] \in S /\ rank(c[i]) = i - 1
    BY RanksTaken DEF InOrder
<1>3. \A q \in S : rank(q) \in 0..(n - 1) /\ rank(q) \in Nat
    BY RankBound
<1>4. \A q, r \in S : q < r => rank(q) < rank(r)
    BY RankGrows
<1> HIDE DEF c, rank, n
<1>5. ASSUME NEW q \in S PROVE \E i \in 1..n : c[i] = q
    <2>1. rank(q) + 1 \in 1..n /\ rank(q) \in Nat
        BY <1>1, <1>3
    <2>2. c[rank(q) + 1] \in S /\ rank(c[rank(q) + 1]) = rank(q)
        BY <1>2, <2>1
    <2>3. ASSUME NEW r \in S, rank(r) = rank(q) PROVE r = q
        <3>1. r \in Nat /\ q \in Nat /\ rank(q) \in Nat /\ rank(r) \in Nat
            BY <2>1, <2>3
        <3>2. ~ (r < q) /\ ~ (q < r)
            BY <1>4, <2>3, <3>1
        <3>3. QED
            BY <3>1, <3>2
    <2>4. QED
        BY <2>1, <2>2, <2>3
<1>6. ASSUME NEW i \in 1..n, NEW j \in 1..n, i < j PROVE c[i] < c[j]
    <2>1. c[i] \in S /\ c[j] \in S /\ rank(c[i]) < rank(c[j])
        BY <1>1, <1>2, <1>6
    <2>2. c[i] \in Nat /\ c[j] \in Nat
        BY <1>2
    <2>3. rank(c[i]) \in Nat /\ rank(c[j]) \in Nat
        BY <1>3, <2>1, Zenon
    <2>4. ~ (rank(c[j]) < rank(c[i])) /\ rank(c[i]) # rank(c[j])
        BY <2>1, <2>3
    <2>5. ~ (c[j] < c[i]) /\ c[i] # c[j]
        BY <1>4, <2>1, <2>4, Zenon
    <2>6. QED
        BY <2>2, <2>5
<1>7. QED
    BY <1>1, <1>2, <1>5, <1>6 DEF c, n

\* The first j rows of a set
FirstOf(S, j) == {InOrder(S)[i] : i \in 1..j}

LEMMA FirstRows ==
    ASSUME NEW S \in SUBSET Nat, IsFiniteSet(S), NEW j \in 0..Cardinality(S)
    PROVE  /\ FirstOf(S, j) \subseteq S
           /\ \A q \in S, r \in FirstOf(S, j) : q <= r => q \in FirstOf(S, j)
           /\ j = 0 => FirstOf(S, j) = {}
           /\ j < Cardinality(S) =>
                /\ InOrder(S)[j + 1] \in S \ FirstOf(S, j)
                /\ FirstOf(S, j + 1) = FirstOf(S, j) \cup {InOrder(S)[j + 1]}
<1> DEFINE n == Cardinality(S)
           c == InOrder(S)
<1>1. /\ n \in Nat
      /\ \A i \in 1..n : c[i] \in S
      /\ \A q \in S : \E i \in 1..n : c[i] = q
      /\ \A i, k \in 1..n : i < k => c[i] < c[k]
    BY Enumerated
<1>2. \A i \in 1..n : c[i] \in Nat
    BY <1>1
<1>3. 1..j \subseteq 1..n
    BY <1>1
<1> HIDE DEF c, n
<1>4. FirstOf(S, j) \subseteq S
    BY <1>1, <1>3 DEF FirstOf, c
<1>5. ASSUME NEW q \in S, NEW r \in FirstOf(S, j), q <= r PROVE q \in FirstOf(S, j)
    <2>1. PICK k \in 1..j : c[k] = r
        BY DEF FirstOf, c
    <2>2. PICK i \in 1..n : c[i] = q
        BY <1>1
    <2>3. k \in 1..n /\ ~ (c[k] < c[i])
        BY <1>2, <1>3, <1>5, <2>1, <2>2
    <2>4. ~ (k < i)
        BY <1>1, <2>3
    <2>5. i \in 1..j
        BY <1>1, <2>1, <2>2, <2>4
    <2>6. QED
        BY <2>2, <2>5 DEF FirstOf, c
<1>6. j = 0 => FirstOf(S, j) = {}
    BY DEF FirstOf
<1>7. ASSUME j < n
      PROVE  /\ c[j + 1] \in S \ FirstOf(S, j)
             /\ FirstOf(S, j + 1) = FirstOf(S, j) \cup {c[j + 1]}
    <2>1. j + 1 \in 1..n /\ 1..(j + 1) = (1..j) \cup {j + 1}
        BY <1>1, <1>7
    <2>2. \A i \in 1..j : c[i] # c[j + 1]
        <3>1. \A i \in 1..j : i \in 1..n /\ i < j + 1
            BY <1>1, <1>3
        <3>2. \A i \in 1..j : c[i] < c[j + 1]
            BY <1>1, <2>1, <3>1
        <3>3. QED
            BY <1>2, <2>1, <3>1, <3>2
    <2>3. c[j + 1] \in S /\ c[j + 1] \notin FirstOf(S, j)
        BY <1>1, <2>1, <2>2 DEF FirstOf, c
    <2>4. FirstOf(S, j + 1) = FirstOf(S, j) \cup {c[j + 1]}
        BY <2>1 DEF FirstOf, c
    <2>5. QED
        BY <2>3, <2>4
<1>8. QED
    BY <1>4, <1>5, <1>6, <1>7 DEF c, n

LEMMA FirstCount ==
    ASSUME NEW S \in SUBSET Nat, IsFiniteSet(S), NEW j \in 0..Cardinality(S)
    PROVE  Cardinality(FirstOf(S, j)) <= j
<1> DEFINE f == [i \in 1..j |-> InOrder(S)[i]]
<1>1. j \in Nat
    BY FS_CardinalityType
<1>2. j \in Int /\ 1 \in Int
    BY <1>1
<1>3. IsFiniteSet(1..j) /\ Cardinality(1..j) = IF 1 > j THEN 0 ELSE j - 1 + 1
    BY <1>2, FS_Interval, Zenon
<1>4. f \in Surjection(1..j, FirstOf(S, j))
    BY DEF Surjection, FirstOf
<1>5. Cardinality(FirstOf(S, j)) <= Cardinality(1..j)
    BY <1>3, <1>4, FS_Surjection
<1>6. Cardinality(1..j) = j
    BY <1>1, <1>3
<1>7. QED
    BY <1>5, <1>6

----------------------------------------------------------------------------
(* A turn of fillHole.                                                     *)

Descending ==
    \A d \in Disks : \A i, k \in DOMAIN size[d] : i <= k => size[d][k] <= size[d][i]

\* What a turn may assume
Filling ==
    /\ Sized /\ Descending
    /\ nextDisk \in Disks /\ marked[nextDisk] \subseteq DOMAIN size[nextDisk]
    /\ holeSize \in Nat /\ cnt[nextDisk] \in Nat /\ cnt[nextDisk] < MaxFiles

Fitting == {q \in Free(nextDisk) : size[nextDisk][q] <= holeSize}

LEMMA FittingRows ==
    ASSUME Filling
    PROVE  /\ Fitting \in SUBSET Nat /\ IsFiniteSet(Fitting)
           /\ Fitting \subseteq Free(nextDisk) /\ Free(nextDisk) \subseteq DOMAIN size[nextDisk]
           /\ Candidates = InOrder(Fitting)
<1>1. Sized /\ nextDisk \in Disks
    BY DEF Filling
<1>2. Fitting \subseteq Free(nextDisk) /\ Free(nextDisk) \subseteq DOMAIN size[nextDisk]
    BY DEF Fitting, Free
<1>3. IsFiniteSet(DOMAIN size[nextDisk]) /\ DOMAIN size[nextDisk] \subseteq Nat
    BY <1>1, Files
<1>4. Fitting \in SUBSET Nat /\ IsFiniteSet(Fitting)
    BY <1>2, <1>3, FS_Subset
<1>5. Candidates = InOrder(Fitting)
    BY DEF Candidates, InOrder, Fitting
<1>6. QED
    BY <1>2, <1>4, <1>5

LEMMA FittingCount ==
    ASSUME Filling
    PROVE  /\ Cardinality(Fitting) \in Nat /\ Len(Candidates) = Cardinality(Fitting)
           /\ Candidates = InOrder(Fitting)
<1>1. PICK S \in SUBSET Nat : S = Fitting /\ IsFiniteSet(S)
    BY FittingRows
<1>2. Cardinality(S) \in Nat /\ Len(InOrder(S)) = Cardinality(S)
    BY <1>1, Enumerated
<1>3. Candidates = InOrder(Fitting)
    BY FittingRows
<1>4. QED
    BY <1>1, <1>2, <1>3

\* The bytes of the first j candidates
LEMMA BytesTaken ==
    ASSUME Filling, NEW j \in 0..Cardinality(Fitting)
    PROVE  /\ Bytes(nextDisk, FirstOf(Fitting, j)) \in Nat
           /\ j = 0 => Bytes(nextDisk, FirstOf(Fitting, j)) = 0
           /\ j < Cardinality(Fitting) =>
                /\ size[nextDisk][Candidates[j + 1]] \in Nat
                /\ Bytes(nextDisk, FirstOf(Fitting, j + 1)) =
                       Bytes(nextDisk, FirstOf(Fitting, j)) + size[nextDisk][Candidates[j + 1]]
<1>1. Sized /\ nextDisk \in Disks
    BY DEF Filling
<1>2. /\ FirstOf(Fitting, j) \subseteq Fitting
      /\ j = 0 => FirstOf(Fitting, j) = {}
      /\ j < Cardinality(Fitting) =>
           /\ Candidates[j + 1] \in Fitting \ FirstOf(Fitting, j)
           /\ FirstOf(Fitting, j + 1) = FirstOf(Fitting, j) \cup {Candidates[j + 1]}
    BY FittingRows, FirstRows
<1>3. Fitting \subseteq DOMAIN size[nextDisk]
    BY FittingRows
<1>4. Bytes(nextDisk, FirstOf(Fitting, j)) \in Nat
    BY <1>1, <1>2, <1>3, RowsOf
<1>5. j = 0 => Bytes(nextDisk, FirstOf(Fitting, j)) = 0
    BY <1>2, SumEmpty DEF Bytes
<1>6. ASSUME j < Cardinality(Fitting)
      PROVE  /\ size[nextDisk][Candidates[j + 1]] \in Nat
             /\ Bytes(nextDisk, FirstOf(Fitting, j + 1)) =
                    Bytes(nextDisk, FirstOf(Fitting, j)) + size[nextDisk][Candidates[j + 1]]
    <2> DEFINE c == Candidates[j + 1]
               f == FirstOf(Fitting, j)
    <2>1. /\ c \in DOMAIN size[nextDisk] /\ f \in SUBSET DOMAIN size[nextDisk] /\ c \notin f
          /\ FirstOf(Fitting, j + 1) = f \cup {c}
        BY <1>2, <1>3, <1>6
    <2> HIDE DEF c, f
    <2>2. size[nextDisk][c] \in Nat
        BY <1>1, <2>1, Files
    <2>3. Bytes(nextDisk, f \cup {c}) = Bytes(nextDisk, f) + size[nextDisk][c]
        BY <1>1, <2>1, RowMore
    <2>4. QED
        BY <2>1, <2>2, <2>3 DEF c, f
<1>7. QED
    BY <1>4, <1>5, <1>6

LEMMA FirstEnd ==
    ASSUME NEW n \in Nat, NEW ends \in SUBSET (0..n), n \in ends
    PROVE  least(ends) \in ends /\ \A j \in 0..n : j < least(ends) => j \notin ends
<1>1. ends \in SUBSET Nat
    OBVIOUS
<1>2. least(ends) \in ends /\ \A j \in ends : least(ends) <= j
    BY <1>1, LeastOf
<1>3. PICK k \in ends : k = least(ends)
    BY <1>2
<1>4. k \in Nat
    BY <1>1
<1>5. \A j \in 0..n : j < k => ~ (k <= j)
    BY <1>4
<1>6. QED
    BY <1>2, <1>3, <1>5, Zenon

LEMMA TurnFacts ==
    ASSUME Filling
    PROVE  /\ Turn.files \subseteq Free(nextDisk)
           /\ cnt[nextDisk] + Cardinality(Turn.files) <= MaxFiles
           /\ Turn.hole \in Nat
           /\ Turn.hole > 0 => Turn.hole = holeSize - Bytes(nextDisk, Turn.files)
           /\ Turn.finished \in BOOLEAN
           /\ Turn.finished => /\ Turn.files = {}
                               /\ \A q \in Free(nextDisk) : size[nextDisk][q] > holeSize
           /\ \A q \in Free(nextDisk), p, r \in Turn.files :
                  p <= q /\ q <= r => q \in Turn.files
<1> DEFINE n        == Cardinality(Fitting)
           taken(j) == FirstOf(Fitting, j)
           bytes(j) == Bytes(nextDisk, taken(j))
           hole(j)  == holeSize - bytes(j)
           next(j)  == size[nextDisk][Candidates[j + 1]]
           full(j)  == cnt[nextDisk] + j >= MaxFiles
           none(j)  == j = n
           fits(j)  == ~none(j) /\ percentDiff(next(j), hole(j)) = 0
           big(j)   == ~none(j) /\ next(j) > hole(j)
           ends     == {j \in 0..n : full(j) \/ none(j) \/ fits(j) \/ big(j)}
           stop     == least(ends)
           last     == ~full(stop) /\ fits(stop)
           k        == IF last THEN stop + 1 ELSE stop
<1>1. n \in Nat /\ Len(Candidates) = n /\ Candidates = InOrder(Fitting)
    BY FittingCount
<1>2. Turn = [files    |-> taken(k),
              hole     |-> IF full(stop) \/ last THEN 0 ELSE hole(stop),
              finished |-> ~full(0) /\ none(0)]
    BY <1>1 DEF Turn, FirstOf
<1>3. /\ holeSize \in Nat /\ cnt[nextDisk] \in Nat /\ cnt[nextDisk] < MaxFiles
      /\ MaxFiles \in Nat /\ Sized /\ nextDisk \in Disks /\ Descending
    BY MaxFilesAssumption DEF Filling
<1>4. /\ \A j \in 0..n : bytes(j) \in Nat
      /\ bytes(0) = 0
      /\ \A j \in 0..n : j < n => next(j) \in Nat /\ bytes(j + 1) = bytes(j) + next(j)
    BY <1>1, BytesTaken
<1>5. ends \in SUBSET (0..n) /\ n \in ends
    BY <1>1
<1>6. /\ stop \in 0..n
      /\ \A j \in 0..n : j < stop => ~full(j) /\ ~none(j) /\ ~big(j)
      /\ k = IF last THEN stop + 1 ELSE stop
      /\ last => stop # n /\ ~full(stop)
    <2>1. \A j \in 0..n : j \notin ends => ~full(j) /\ ~none(j) /\ ~big(j)
        OBVIOUS
    <2> HIDE DEF ends
    <2>2. stop \in ends /\ \A j \in 0..n : j < stop => j \notin ends
        BY <1>1, <1>5, FirstEnd
    <2> HIDE DEF full, big, stop
    <2>3. QED
        BY <1>5, <2>1, <2>2
<1> HIDE DEF n, taken, stop, last, k
<1>7. k \in 0..n /\ stop \in Nat /\ k \in Nat
    BY <1>1, <1>6
<1>8. cnt[nextDisk] + k <= MaxFiles
    <2>1. CASE full(stop)
        <3>1. stop > 0 /\ k = stop
            BY <1>3, <1>6, <1>7, <2>1
        <3>2. stop - 1 \in 0..n /\ stop - 1 < stop
            BY <1>1, <1>6, <3>1
        <3>3. ~full(stop - 1)
            BY <1>6, <3>2
        <3>4. QED
            BY <1>3, <1>7, <3>1, <3>3
    <2>2. CASE ~full(stop)
        BY <1>3, <1>6, <1>7, <2>2
    <2>3. QED
        BY <2>1, <2>2
<1>9. hole(stop) \in Nat
    <2> DEFINE Good == {j \in Nat : j <= stop => hole(j) >= 0}
    <2>1. 0 \in Good
        BY <1>3, <1>4
    <2>2. ASSUME NEW j \in Nat, j \in Good PROVE j + 1 \in Good
        <3>1. SUFFICES ASSUME j + 1 <= stop PROVE hole(j + 1) >= 0
            OBVIOUS
        <3>2. j \in 0..n /\ j < stop /\ j < n /\ j + 1 \in 0..n
            BY <1>1, <1>6, <1>7, <3>1
        <3>3. hole(j) >= 0 /\ ~none(j) /\ ~big(j)
            BY <1>6, <1>7, <2>2, <3>2
        <3>4. next(j) <= hole(j)
            BY <1>3, <1>4, <3>2, <3>3
        <3>5. QED
            BY <1>3, <1>4, <3>2, <3>4
    <2>3. stop \in Good
        BY <1>7, <2>1, <2>2, NatInduct
    <2>4. QED
        BY <1>3, <1>4, <1>6, <1>7, <2>3
<1>10. /\ taken(k) \subseteq Fitting
       /\ \A q \in Fitting, r \in taken(k) : q <= r => q \in taken(k)
       /\ Cardinality(taken(k)) <= k
       /\ k = 0 => taken(k) = {}
    BY <1>7, FittingRows, FirstRows, FirstCount DEF taken, n
<1>11. /\ IsFiniteSet(taken(k)) /\ Cardinality(taken(k)) \in Nat
       /\ Fitting \subseteq Free(nextDisk) /\ Free(nextDisk) \subseteq DOMAIN size[nextDisk]
    BY <1>10, FittingRows, FS_Subset, FS_CardinalityType
<1>12. cnt[nextDisk] + Cardinality(taken(k)) <= MaxFiles
    BY <1>3, <1>7, <1>8, <1>10, <1>11
<1>13. /\ Turn.hole \in Nat
       /\ Turn.hole > 0 => Turn.hole = holeSize - Bytes(nextDisk, taken(k))
    <2>1. Turn.hole = IF full(stop) \/ last THEN 0 ELSE hole(stop)
        BY <1>2
    <2>2. ~last => k = stop
        BY <1>6
    <2>3. QED
        BY <1>9, <2>1, <2>2
<1>14. ASSUME Turn.finished
       PROVE  taken(k) = {} /\ \A q \in Free(nextDisk) : size[nextDisk][q] > holeSize
    <2>1. n = 0
        BY <1>2, <1>14
    <2>2. Fitting = {}
        BY <1>1, <2>1, FittingRows, FS_EmptySet DEF n
    <2>3. taken(k) = {}
        BY <1>10, <2>2
    <2>4. \A q \in Free(nextDisk) : size[nextDisk][q] \in Nat
        BY <1>3, <1>11, Files
    <2>5. QED
        BY <1>3, <2>2, <2>3, <2>4 DEF Fitting
<1>15. ASSUME NEW q \in Free(nextDisk), NEW p \in taken(k), NEW r \in taken(k), p <= q, q <= r
       PROVE  q \in taken(k)
    <2>1. size[nextDisk][p] <= holeSize /\ p \in DOMAIN size[nextDisk] /\ q \in DOMAIN size[nextDisk]
        BY <1>10, <1>11 DEF Fitting
    <2>2. size[nextDisk][q] <= size[nextDisk][p]
        BY <1>3, <1>15, <2>1 DEF Descending
    <2>3. size[nextDisk][q] \in Nat /\ size[nextDisk][p] \in Nat
        BY <1>3, <2>1, Files
    <2>4. q \in Fitting
        BY <1>3, <2>1, <2>2, <2>3 DEF Fitting
    <2>5. QED
        BY <1>10, <1>15, <2>4
<1>16. Turn.files = taken(k) /\ Turn.finished \in BOOLEAN
    BY <1>2
<1>17. QED
    BY <1>10, <1>11, <1>12, <1>13, <1>14, <1>15, <1>16

----------------------------------------------------------------------------
(* Positions of a slice.                                                   *)

LEMMA PositionsOf ==
    ASSUME Sized, NEW d \in Disks, NEW base \in Nat, NEW rows \in SUBSET DOMAIN size[d]
    PROVE  /\ Positions(d, base, rows) \subseteq Position
           /\ \A p \in Positions(d, base, rows) : p.disk = d /\ p.seq \in rows
           /\ \A q \in rows : \E p \in Positions(d, base, rows) : p.disk = d /\ p.seq = q
           /\ \A p, q \in Positions(d, base, rows) : p.seq = q.seq => p = q
<1>1. ASSUME NEW q \in rows PROVE q \in Nat \ {0} /\ startOf(d, base, rows, q) \in Nat
    <2>1. q \in 1..Len(size[d])
        BY Files
    <2>2. {p \in rows : p < q} \in SUBSET DOMAIN size[d]
        OBVIOUS
    <2>3. Bytes(d, {p \in rows : p < q}) \in Nat
        BY <2>2, RowsOf
    <2>4. QED
        BY <2>1, <2>3 DEF startOf
<1>2. Positions(d, base, rows) \subseteq Position
    BY <1>1 DEF Positions, Position
<1> DEFINE at(q) == [disk |-> d, seq |-> q, start |-> startOf(d, base, rows, q)]
<1>3. /\ \A p \in Positions(d, base, rows) :
             p.disk = d /\ p.seq \in rows /\ p = at(p.seq)
      /\ \A q \in rows : \E p \in Positions(d, base, rows) : p.disk = d /\ p.seq = q
    <2>1. Positions(d, base, rows) = {at(q) : q \in rows}
        BY DEF Positions
    <2>2. \A q \in rows : at(q).disk = d /\ at(q).seq = q
        OBVIOUS
    <2> HIDE DEF at
    <2>3. QED
        BY <2>1, <2>2, Zenon
<1>4. ASSUME NEW p \in Positions(d, base, rows), NEW q \in Positions(d, base, rows),
             p.seq = q.seq
      PROVE  p = q
    <2>1. p = at(p.seq) /\ q = at(q.seq)
        BY <1>3
    <2> HIDE DEF at
    <2>2. QED
        BY <1>4, <2>1
<1>5. QED
    BY <1>2, <1>3, <1>4

\* The places of a slice are those of the rows it marks, and no row has two.
GoodSlice(pos, m) ==
    /\ pos \subseteq Position
    /\ \A p \in pos : p.seq \in m[p.disk] \ committed[p.disk]
    /\ \A d \in Disks : \A q \in m[d] \ committed[d] : \E p \in pos : p.disk = d /\ p.seq = q
    /\ \A p, q \in pos : p.disk = q.disk /\ p.seq = q.seq => p = q

LEMMA SliceRows ==
    ASSUME NEW sl, NEW m, GoodSlice(sl.pos, m), NEW d \in Disks, IsFiniteSet(m[d] \ committed[d])
    PROVE  /\ Rows(sl, d) = m[d] \ committed[d]
           /\ Cardinality(Of(sl, d)) = Cardinality(m[d] \ committed[d])
<1> DEFINE rows == m[d] \ committed[d]
           f == [p \in Of(sl, d) |-> p.seq]
<1>1. \A p \in Of(sl, d) : p \in sl.pos /\ p.disk = d /\ p.seq \in rows
    BY DEF Of, GoodSlice
<1>2. \A q \in rows : \E p \in Of(sl, d) : p.seq = q
    BY DEF Of, GoodSlice
<1>3. Rows(sl, d) = rows
    BY <1>1, <1>2 DEF Rows
<1>4. \A p, q \in Of(sl, d) : p.seq = q.seq => p = q
    BY <1>1 DEF GoodSlice
<1>5. f \in [Of(sl, d) -> rows]
    BY <1>1
<1>6. f \in Surjection(Of(sl, d), rows)
    BY <1>2, <1>5 DEF Surjection
<1>7. f \in Injection(Of(sl, d), rows)
    BY <1>4, <1>5 DEF Injection, IsInjective
<1>8. Cardinality(Of(sl, d)) = Cardinality(rows)
    BY <1>6, <1>7, FS_Injection
<1>9. QED
    BY <1>3, <1>8

----------------------------------------------------------------------------
(* freshSliceStat.                                                         *)

\* Types of the statistics
Counted == sum \in [Disks -> Nat] /\ cnt \in [Disks -> Nat] /\ sliceSize \in Nat
           /\ maxFilledDisk \in Disks

LEMMA StatStep ==
    ASSUME Sized, Counted, NEW add, \A d \in Disks : add[d] \in SUBSET DOMAIN size[d],
           freshSliceStat(add)
    PROVE  /\ Counted'
           /\ \A d \in Disks : /\ sum'[d] = sum[d] + Bytes(d, add[d])
                               /\ cnt'[d] = cnt[d] + Cardinality(add[d])
                               /\ sum'[d] <= sliceSize'
           /\ \E d \in Disks : sum'[d] = sliceSize'
           /\ sliceSize' > sliceSize => sum'[maxFilledDisk'] = sliceSize'
           /\ sliceSize' <= sliceSize => maxFilledDisk' = maxFilledDisk
<1>1. \A d \in Disks : Bytes(d, add[d]) \in Nat /\ Cardinality(add[d]) \in Nat
    BY RowsOf
<1>2. /\ sum' = [d \in Disks |-> sum[d] + Bytes(d, add[d])]
      /\ cnt' = [d \in Disks |-> cnt[d] + Cardinality(add[d])]
      /\ sliceSize' = largest({sum'[d] : d \in Disks})
      /\ maxFilledDisk' = IF sliceSize' > sliceSize THEN least({d \in Disks : sum'[d] = sliceSize'})
                                                    ELSE maxFilledDisk
    BY DEF freshSliceStat
<1>3. sum' \in [Disks -> Nat] /\ cnt' \in [Disks -> Nat]
    BY <1>1, <1>2 DEF Counted
<1>4. (\E d \in Disks : sliceSize' = sum'[d]) /\ \A d \in Disks : sum'[d] <= sliceSize'
    BY <1>2, <1>3, LargestSum
<1>5. sliceSize' \in Nat
    BY <1>3, <1>4
<1>6. {d \in Disks : sum'[d] = sliceSize'} # {} /\ {d \in Disks : sum'[d] = sliceSize'} \in SUBSET Nat
    BY <1>4 DEF Disks
<1>7. least({d \in Disks : sum'[d] = sliceSize'}) \in {d \in Disks : sum'[d] = sliceSize'}
    BY <1>6, LeastOf
<1>8. maxFilledDisk' \in Disks /\ (sliceSize' > sliceSize => sum'[maxFilledDisk'] = sliceSize')
    BY <1>2, <1>7 DEF Counted
<1>9. sliceSize' <= sliceSize => maxFilledDisk' = maxFilledDisk
    BY <1>2, <1>5 DEF Counted
<1>10. QED
    BY <1>1, <1>2, <1>3, <1>4, <1>5, <1>8, <1>9 DEF Counted

LEMMA RowsBound ==
    ASSUME Sized, NEW d \in Disks, NEW rows \in SUBSET DOMAIN size[d], NEW some \in SUBSET rows
    PROVE  /\ Bytes(d, rows) \in Nat /\ FilesSize(d) \in Nat
           /\ Bytes(d, rows) <= FilesSize(d)
           /\ Bytes(d, rows) = Bytes(d, some) + Bytes(d, rows \ some)
<1>1. /\ IsFiniteSet(DOMAIN size[d]) /\ \A q \in DOMAIN size[d] : size[d][q] \in Nat
      /\ IsFiniteSet(rows) /\ \A q \in rows : size[d][q] \in Nat
    BY Files, FS_Subset
<1>2. /\ SumFunctionOnSet(size[d], DOMAIN size[d]) \in Nat
      /\ SumFunctionOnSet(size[d], rows) <= SumFunctionOnSet(size[d], DOMAIN size[d])
    BY <1>1, SumSubset, SumType
<1>3. Bytes(d, rows) \in Nat
    BY <1>1, SumType DEF Bytes
<1>4. Bytes(d, rows) = Bytes(d, some) + Bytes(d, rows \ some)
    BY <1>1, SumSubset DEF Bytes
<1>5. QED
    BY <1>2, <1>3, <1>4 DEF Bytes, FilesSize, SumFunction

----------------------------------------------------------------------------
(* The inductive invariant.                                                *)

\* Rows the slice under way has marked
Planned(d) == marked[d] \ committed[d]

\* The slice under way: its places, and the statistics of its disks
SliceInv ==
    pc \in {"start", "select", "fill"} =>
        /\ GoodSlice(cur, marked)
        /\ \A d \in Disks : /\ sum[d] = Bytes(d, Planned(d))
                            /\ cnt[d] = Cardinality(Planned(d)) /\ cnt[d] <= MaxFiles

\* Nothing is left of the slice before
StartInv ==
    pc = "start" => /\ marked = committed /\ cur = {} /\ sliceSize = 0
                    /\ \A d \in Disks : sum[d] = 0 /\ cnt[d] = 0 /\ fin[d] = FALSE

\* consumedSize never claims more than the rows committed
ConsumedInv == \A d \in Disks : consumed[d] <= Bytes(d, committed[d])

InSlice == pc \in {"select", "fill"}

\* maxFilledDisk has the most bytes in the slice
LeadInv == InSlice => /\ cur # {} /\ sliceSize = sum[maxFilledDisk]
                      /\ \A d \in Disks : sum[d] <= sliceSize

\* The hole is what its disk lags behind
HoleInv == pc = "fill" => /\ holeSize = sum[maxFilledDisk] - sum[nextDisk] /\ holeSize > 0
                          /\ ~fin[nextDisk] /\ diskInUse(nextDisk)

\* A disk in use has its largest free file in the slice
FirstInv ==
    InSlice => \A d \in Disks : FilesSize(d) > consumed[d] =>
                   \A q \in Free(d) : \E p \in cur : p.disk = d /\ p.seq < q

\* Each free file of a disk finished early would pass every file of the slice
FinInv ==
    InSlice => \A d \in Disks : fin[d] =>
                   \A q \in Free(d) : \A p \in cur : size[d][q] > size[p.disk][p.seq] - sum[d]

PlanInv ==
    /\ TypeOK /\ Descending /\ SliceInv /\ StartInv /\ ConsumedInv /\ LeadInv /\ HoleInv
    /\ FirstInv /\ FinInv /\ FilesLimit /\ FatalForEmptyOnly

\* What MarkedWithSlice says of a step
MarkedStep ==
    IF slices' = slices
    THEN committed' = committed
    ELSE \A d \in Disks : LET last == LastSlice(slices') IN
            /\ Rows(last, d) = committed'[d] \ committed[d]
            /\ Cardinality(Of(last, d)) = Cardinality(Rows(last, d))

LEMMA Typed ==
    ASSUME TypeOK
    PROVE  /\ Sized /\ Counted
           /\ \A d \in Disks : /\ committed[d] \subseteq marked[d]
                               /\ marked[d] \subseteq DOMAIN size[d]
                               /\ committed[d] \subseteq DOMAIN size[d]
                               /\ Planned(d) \subseteq DOMAIN size[d]
                               /\ Free(d) \subseteq DOMAIN size[d]
                               /\ fin[d] \in BOOLEAN /\ consumed[d] \in Nat
                               /\ sum[d] \in Nat /\ cnt[d] \in Nat
BY DEF TypeOK, Sized, Counted, Planned, Free

\* What FilesLimit says of a slice
Limit(sl, d) ==
    Cardinality(Of(sl, d)) <=
        IF \A e \in Disks \ {d} : Bytes(e, Rows(sl, e)) = 0 THEN MaxFiles + 2 ELSE MaxFiles

LEMMA LimitOf ==
    ASSUME size' = size
    PROVE  /\ FilesLimit <=> \A i \in DOMAIN slices : \A d \in Disks : Limit(slices[i], d)
           /\ FilesLimit' <=> \A i \in DOMAIN slices' : \A d \in Disks : Limit(slices'[i], d)
BY DEF FilesLimit, Limit, Bytes, Rows, Of

----------------------------------------------------------------------------
(* commitSlice.                                                            *)

\* What the callers of commitSlice hand over
Handed(pos, s, m) ==
    /\ s \in [Disks -> Nat] /\ m \in [Disks -> SUBSET Nat]
    /\ \A d \in Disks : /\ marked[d] \subseteq m[d] /\ m[d] \subseteq DOMAIN size[d]
                        /\ s[d] = Bytes(d, m[d] \ committed[d])
                        /\ \/ Cardinality(m[d] \ committed[d]) <= MaxFiles
                           \/ /\ Cardinality(m[d] \ committed[d]) <= MaxFiles + 2
                              /\ \A e \in Disks \ {d} : Bytes(e, m[e] \ committed[e]) = 0
    /\ GoodSlice(pos, m)

\* The account of consumed bytes cannot exceed the files.
LEMMA NoProgramBug ==
    ASSUME PlanInv, NEW pos, NEW s, NEW m, Handed(pos, s, m), commitSlice(pos, s, m)
    PROVE  /\ consumed' \in [Disks -> Nat]
           /\ \A d \in Disks : consumed'[d] <= Bytes(d, m[d])
           /\ pc' = "start"
<1>1. Sized /\ consumed \in [Disks -> Nat] /\ s \in [Disks -> Nat]
      /\ consumed' = [d \in Disks |-> consumed[d] + s[d]]
    BY Typed DEF PlanInv, TypeOK, commitSlice, Handed
<1>2. ASSUME NEW d \in Disks PROVE consumed'[d] <= Bytes(d, m[d]) /\ consumed'[d] <= FilesSize(d)
    <2>1. m[d] \in SUBSET DOMAIN size[d] /\ committed[d] \in SUBSET m[d]
        BY Typed DEF PlanInv, Handed
    <2>2. /\ Bytes(d, m[d]) \in Nat /\ FilesSize(d) \in Nat
          /\ Bytes(d, m[d]) <= FilesSize(d)
          /\ Bytes(d, m[d]) = Bytes(d, committed[d]) + Bytes(d, m[d] \ committed[d])
        <3>1. \A rows \in SUBSET DOMAIN size[d] : \A some \in SUBSET rows :
                  /\ Bytes(d, rows) \in Nat /\ FilesSize(d) \in Nat
                  /\ Bytes(d, rows) <= FilesSize(d)
                  /\ Bytes(d, rows) = Bytes(d, some) + Bytes(d, rows \ some)
            BY <1>1, RowsBound, Zenon
        <3>2. QED
            BY <2>1, <3>1, Zenon
    <2>3. committed[d] \in SUBSET DOMAIN size[d] /\ m[d] \ committed[d] \in SUBSET DOMAIN size[d]
        BY <2>1
    <2>4. Bytes(d, committed[d]) \in Nat /\ Bytes(d, m[d] \ committed[d]) \in Nat
        BY <1>1, <2>3, RowsOf
    <2>5. consumed[d] <= Bytes(d, committed[d]) /\ s[d] = Bytes(d, m[d] \ committed[d])
        BY DEF PlanInv, ConsumedInv, Handed
    <2>6. consumed'[d] = consumed[d] + s[d] /\ consumed[d] \in Nat
        BY <1>1
    <2>7. QED
        BY <2>2, <2>4, <2>5, <2>6
<1>3. consumed' \in [Disks -> Nat]
    BY <1>1
<1>4. \A d \in Disks : ~ (consumed'[d] > FilesSize(d))
    <2>1. \A d \in Disks : FilesSize(d) \in Nat /\ consumed'[d] \in Nat
        BY <1>1, <1>3, RowsBound
    <2>2. QED
        BY <1>2, <2>1
<1>5. pc' = "start"
    BY <1>4 DEF commitSlice
<1>6. QED
    BY <1>2, <1>3, <1>5

LEMMA Committed ==
    ASSUME PlanInv, NEW pos, NEW s, NEW m, Handed(pos, s, m), commitSlice(pos, s, m),
           size' = size, UNCHANGED fillVars
    PROVE  PlanInv' /\ MarkedStep
<1> DEFINE sl == [pos |-> pos, ssize |-> largest({s[d] : d \in Disks})]
<1>1. /\ slices' = Append(slices, sl) /\ marked' = m /\ committed' = m
      /\ cur' = {} /\ sum' = Zeros /\ cnt' = Zeros /\ fin' = [d \in Disks |-> FALSE]
      /\ sliceSize' = 0 /\ maxFilledDisk' = 1
    BY DEF commitSlice
<1>2. /\ consumed' \in [Disks -> Nat] /\ pc' = "start"
      /\ \A d \in Disks : consumed'[d] <= Bytes(d, m[d])
    BY NoProgramBug
<1>3. TypeOK /\ Sized
    BY Typed DEF PlanInv
<1>4. /\ s \in [Disks -> Nat] /\ m \in [Disks -> SUBSET Nat] /\ pos \subseteq Position
      /\ \A d \in Disks : m[d] \subseteq DOMAIN size[d]
    BY DEF Handed, GoodSlice
<1>5. sl \in [pos : SUBSET Position, ssize : Nat] /\ slices \in Seq([pos : SUBSET Position, ssize : Nat])
    <2>1. largest({s[d] : d \in Disks}) \in Nat
        BY <1>4, LargestSum
    <2>2. QED
        BY <1>3, <1>4, <2>1 DEF TypeOK
<1>6. slices' \in Seq([pos : SUBSET Position, ssize : Nat])
    BY <1>1, <1>5
<1>7. TypeOK'
    <2>1. 1 \in Disks /\ Zeros \in [Disks -> Nat]
        BY NDisksAssumption DEF Disks, Zeros
    <2>2. nextDisk' \in Disks /\ holeSize' \in Nat /\ size' \in [Disks -> Seq(Nat)]
        BY <1>3 DEF TypeOK, fillVars
    <2>3. \A d \in Disks : marked'[d] \subseteq DOMAIN size'[d] /\ committed'[d] \subseteq marked'[d]
        BY <1>1, <1>4
    <2>4. QED
        BY <1>1, <1>2, <1>4, <1>6, <2>1, <2>2, <2>3 DEF TypeOK
<1>8. Descending'
    BY DEF PlanInv, Descending
<1>9. SliceInv'
    <2>1. \A d \in Disks : Bytes(d, {}) = 0
        BY SumEmpty DEF Bytes
    <2>2. GoodSlice(cur, marked)'
        BY <1>1 DEF GoodSlice
    <2>3. \A d \in Disks : Planned(d)' = {} /\ sum'[d] = 0 /\ cnt'[d] = 0
        BY <1>1 DEF Planned, Zeros
    <2>4. \A d \in Disks : Bytes(d, Planned(d))' = 0
        BY <2>3, SumEmpty DEF Bytes
    <2>5. QED
        BY <2>2, <2>3, <2>4, FS_EmptySet, MaxFilesAssumption DEF SliceInv
<1>10. StartInv'
    BY <1>1, <1>2 DEF StartInv, Zeros
<1>11. ConsumedInv'
    BY <1>1, <1>2 DEF ConsumedInv, Bytes
<1>12. LeadInv' /\ HoleInv' /\ FirstInv' /\ FinInv' /\ FatalForEmptyOnly'
    BY <1>2 DEF InSlice, LeadInv, HoleInv, FirstInv, FinInv, FatalForEmptyOnly
<1>13. ASSUME NEW d \in Disks
       PROVE  /\ Rows(sl, d) = m[d] \ committed[d]
              /\ Cardinality(Of(sl, d)) = Cardinality(m[d] \ committed[d])
    <2>1. GoodSlice(sl.pos, m)
        BY DEF Handed
    <2>2. IsFiniteSet(m[d] \ committed[d])
        BY <1>3, <1>4, RowsOf
    <2> HIDE DEF sl
    <2>3. QED
        BY <2>1, <2>2, SliceRows
<1>14. FilesLimit'
    <2>1. ASSUME NEW d \in Disks PROVE Limit(sl, d)
        <3> DEFINE n == Cardinality(m[d] \ committed[d])
        <3>1. IsFiniteSet(m[d] \ committed[d])
            BY <1>3, <1>4, RowsOf
        <3>2. n \in Nat /\ MaxFiles \in Nat
            BY <3>1, FS_CardinalityType, MaxFilesAssumption
        <3>3. \/ n <= MaxFiles
              \/ /\ n <= MaxFiles + 2
                 /\ \A e \in Disks \ {d} : Bytes(e, m[e] \ committed[e]) = 0
            BY DEF Handed
        <3> HIDE DEF sl
        <3> DEFINE alone == \A e \in Disks \ {d} : Bytes(e, Rows(sl, e)) = 0
        <3>4. n <= MaxFiles \/ (n <= MaxFiles + 2 /\ alone)
            BY <1>13, <3>3
        <3>5. Cardinality(Of(sl, d)) = n
            BY <1>13
        <3> HIDE DEF n, alone
        <3>6. n <= IF alone THEN MaxFiles + 2 ELSE MaxFiles
            BY <3>2, <3>4
        <3>7. QED
            BY <3>5, <3>6 DEF alone, Limit
    <2> HIDE DEF sl
    <2>2. ASSUME NEW i \in DOMAIN slices'
          PROVE  (i \in DOMAIN slices /\ slices'[i] = slices[i]) \/ slices'[i] = sl
        BY <1>1, <1>5, <2>2
    <2>3. QED
        BY <2>1, <2>2, LimitOf DEF PlanInv
<1>15. MarkedStep
    <2>1. LastSlice(slices') = sl /\ slices' # slices
        BY <1>1, <1>5 DEF LastSlice
    <2> HIDE DEF sl
    <2>2. QED
        BY <1>1, <1>13, <2>1 DEF MarkedStep
<1>16. QED
    BY <1>7, <1>8, <1>9, <1>10, <1>11, <1>12, <1>14, <1>15 DEF PlanInv

----------------------------------------------------------------------------
(* The initial states, and the steps that end createSlices.                *)

LEMMA PlanInit == Init => PlanInv
<1> SUFFICES ASSUME Init PROVE PlanInv
    OBVIOUS
<1>1. /\ size \in [Disks -> Seq(Nat)] /\ marked \in [Disks -> SUBSET Nat]
      /\ \A d \in Disks : marked[d] \subseteq DOMAIN size[d]
      /\ committed = marked /\ pc = "start" /\ cur = {}
      /\ sum = Zeros /\ cnt = Zeros /\ fin = [d \in Disks |-> FALSE]
      /\ sliceSize = 0 /\ maxFilledDisk = 1 /\ consumed = Zeros
      /\ nextDisk = 1 /\ holeSize = 0 /\ slices = <<>>
    BY DEF Init
<1>2. TypeOK
    <2>1. 1 \in Disks /\ Zeros \in [Disks -> Nat] /\ <<>> \in Seq([pos : SUBSET Position, ssize : Nat])
        BY NDisksAssumption DEF Disks, Zeros
    <2>2. QED
        BY <1>1, <2>1 DEF TypeOK
<1>3. Sized
    BY <1>1 DEF Sized
<1>4. \A d \in Disks : Planned(d) = {} /\ sum[d] = 0 /\ cnt[d] = 0 /\ fin[d] = FALSE
    BY <1>1 DEF Planned, Zeros
<1>5. SliceInv
    <2>1. GoodSlice(cur, marked)
        BY <1>1 DEF GoodSlice
    <2>2. \A d \in Disks : Bytes(d, Planned(d)) = 0
        BY <1>4, SumEmpty DEF Bytes
    <2>3. QED
        BY <1>4, <2>1, <2>2, FS_EmptySet, MaxFilesAssumption DEF SliceInv
<1>6. ConsumedInv
    <2>1. \A d \in Disks : Bytes(d, committed[d]) \in Nat
        BY <1>1, <1>3, RowsOf
    <2>2. \A d \in Disks : consumed[d] = 0
        BY <1>1 DEF Zeros
    <2>3. QED
        BY <2>1, <2>2 DEF ConsumedInv
<1>7. Descending
    BY DEF Init, Descending
<1>8. StartInv /\ LeadInv /\ HoleInv /\ FirstInv /\ FinInv /\ FatalForEmptyOnly
    BY <1>1, <1>4 DEF StartInv, InSlice, LeadInv, HoleInv, FirstInv, FinInv, FatalForEmptyOnly
<1>9. FilesLimit
    BY <1>1 DEF FilesLimit
<1>10. QED
    BY <1>2, <1>5, <1>6, <1>7, <1>8, <1>9 DEF PlanInv

\* A step to the end with nothing committed
LEMMA Stopped ==
    ASSUME PlanInv, pc' \in {"done", "fatal"},
           UNCHANGED <<size, committed, statVars, consumed, fillVars, slices>>,
           \/ marked' = marked /\ cur' = cur
           \/ marked' = committed /\ cur' = {},
           pc' = "fatal" => \E d \in Disks : \E q \in Free(d)' : size'[d][q] = 0
    PROVE  PlanInv' /\ MarkedStep
<1>1. TypeOK'
    BY DEF PlanInv, TypeOK, statVars, fillVars
<1>2. Descending' /\ ConsumedInv' /\ FilesLimit'
    <2>1. Descending'
        BY DEF PlanInv, Descending
    <2>2. ConsumedInv'
        BY DEF PlanInv, ConsumedInv, Bytes
    <2>3. FilesLimit'
        <3>1. size' = size /\ slices' = slices
            OBVIOUS
        <3>2. QED
            BY <3>1, LimitOf DEF PlanInv
    <2>4. QED
        BY <2>1, <2>2, <2>3
<1>3. SliceInv' /\ StartInv' /\ LeadInv' /\ HoleInv' /\ FirstInv' /\ FinInv'
    BY DEF SliceInv, StartInv, InSlice, LeadInv, HoleInv, FirstInv, FinInv
<1>4. FatalForEmptyOnly'
    BY DEF FatalForEmptyOnly
<1>5. QED
    BY <1>1, <1>2, <1>3, <1>4 DEF PlanInv, MarkedStep

LEMMA NoSliceStep == ASSUME PlanInv, noSlice PROVE PlanInv' /\ MarkedStep
BY Stopped DEF noSlice

LEMMA CancelStep == ASSUME PlanInv, cancelRequest PROVE PlanInv' /\ MarkedStep
BY Stopped DEF cancelRequest

LEMMA SliceReadyStep == ASSUME PlanInv, sliceReady PROVE PlanInv' /\ MarkedStep
<1>1. pc = "select" /\ commitSlice(cur, sum, marked) /\ UNCHANGED <<size, fillVars>>
    BY DEF sliceReady
<1>2. /\ sum \in [Disks -> Nat] /\ marked \in [Disks -> SUBSET Nat]
      /\ \A d \in Disks : marked[d] \subseteq DOMAIN size[d]
    BY DEF PlanInv, TypeOK
<1>3. /\ GoodSlice(cur, marked)
      /\ \A d \in Disks : /\ sum[d] = Bytes(d, marked[d] \ committed[d])
                          /\ Cardinality(marked[d] \ committed[d]) <= MaxFiles
    BY <1>1 DEF PlanInv, SliceInv, Planned
<1>4. Handed(cur, sum, marked)
    BY <1>2, <1>3 DEF Handed
<1>5. QED
    BY <1>1, <1>4, Committed

----------------------------------------------------------------------------
(* The first files of a slice.                                             *)

LEMMA FirstsOf ==
    ASSUME PlanInv, pc = "start", NEW d \in Disks
    PROVE  /\ Firsts[d] \in SUBSET Free(d) /\ IsFiniteSet(Firsts[d]) /\ Cardinality(Firsts[d]) <= 1
           /\ FilesSize(d) > consumed[d] => \A q \in Free(d) : \E f \in Firsts[d] : f <= q
           /\ Bytes(d, Firsts[d]) = 0 => Bytes(d, Free(d)) = 0
<1>1. TypeOK /\ Sized /\ Free(d) \in SUBSET DOMAIN size[d] /\ marked[d] \in SUBSET DOMAIN size[d]
    BY Typed DEF PlanInv
<1>2. Free(d) \in SUBSET Nat
    BY <1>1, Files
<1>3. Firsts[d] = IF Usable(d) /\ Free(d) # {} THEN {least(Free(d))} ELSE {}
    BY DEF Firsts
<1>4. Free(d) # {} => least(Free(d)) \in Free(d) /\ \A q \in Free(d) : least(Free(d)) <= q
    BY <1>2, LeastOf
<1>5. Usable(d) <=> FilesSize(d) > consumed[d]
    <2>1. cnt[d] = 0 /\ fin[d] = FALSE
        BY DEF PlanInv, StartInv
    <2>2. QED
        BY <2>1, MaxFilesAssumption DEF Usable, diskInUse
<1>6. Firsts[d] \in SUBSET Free(d) /\ IsFiniteSet(Firsts[d]) /\ Cardinality(Firsts[d]) <= 1
    <2>1. \A q : IsFiniteSet({q}) /\ Cardinality({q}) = 1
        BY FS_Singleton
    <2>2. IsFiniteSet({}) /\ Cardinality({}) = 0
        BY FS_EmptySet
    <2>3. Firsts[d] = {} \/ \E q \in Free(d) : Firsts[d] = {q}
        BY <1>3, <1>4
    <2>4. Cardinality(Firsts[d]) = 0 \/ Cardinality(Firsts[d]) = 1
        BY <2>1, <2>2, <2>3, Zenon
    <2>5. Firsts[d] \in SUBSET Free(d) /\ IsFiniteSet(Firsts[d])
        BY <2>1, <2>2, <2>3, Zenon
    <2>6. QED
        BY <2>4, <2>5
<1>7. FilesSize(d) > consumed[d] => \A q \in Free(d) : \E f \in Firsts[d] : f <= q
    BY <1>3, <1>4, <1>5
<1>8. ASSUME Bytes(d, Firsts[d]) = 0 PROVE Bytes(d, Free(d)) = 0
    <2>1. CASE Free(d) = {}
        BY <2>1, SumEmpty DEF Bytes
    <2>2. CASE ~ (FilesSize(d) > consumed[d])
        <3>1. marked[d] = committed[d] /\ consumed[d] <= Bytes(d, committed[d]) /\ consumed[d] \in Nat
            BY <1>1, Typed DEF PlanInv, StartInv, ConsumedInv
        <3>2. FilesSize(d) = Bytes(d, marked[d]) + Bytes(d, Free(d))
            BY <1>1, AllRows
        <3>3. Bytes(d, marked[d]) \in Nat /\ Bytes(d, Free(d)) \in Nat
            BY <1>1, RowsOf
        <3>4. QED
            BY <2>2, <3>1, <3>2, <3>3
    <2>3. CASE Free(d) # {} /\ FilesSize(d) > consumed[d]
        <3> DEFINE f == least(Free(d))
        <3>1. Firsts[d] = {f} /\ f \in Free(d) /\ \A q \in Free(d) : f <= q
            BY <1>3, <1>4, <1>5, <2>3
        <3>2. Firsts[d] \in SUBSET DOMAIN size[d]
            BY <1>1, <1>6
        <3>3. size[d][f] = 0
            BY <1>1, <1>8, <3>1, <3>2, RowsOf
        <3>4. ASSUME NEW q \in Free(d) PROVE size[d][q] = 0
            <4>1. size[d][q] <= size[d][f]
                BY <1>1, <3>1 DEF PlanInv, Descending
            <4>2. size[d][q] \in Nat
                BY <1>1, Files
            <4>3. QED
                BY <3>3, <4>1, <4>2
        <3>5. QED
            BY <1>1, <3>4, RowsOf
    <2>4. QED
        BY <2>1, <2>2, <2>3
<1>9. QED
    BY <1>6, <1>7, <1>8

----------------------------------------------------------------------------
(* soloSlice.                                                              *)

\* The rows of a solo slice are the first of those left, and few.
LEMMA SoloRows ==
    ASSUME Sized, NEW d \in Disks, NEW rows \in SUBSET DOMAIN size[d]
    PROVE  /\ soloRows(d, rows) \in SUBSET rows
           /\ markUpTo(rows, soloRows(d, rows)) = soloRows(d, rows)
           /\ Cardinality(soloRows(d, rows)) <= MaxFiles + 1
<1> DEFINE before(q) == {p \in rows : p < q}
           rest == soloRows(d, rows)
<1>1. rows \in SUBSET Nat /\ rest \in SUBSET rows /\ rest \in SUBSET DOMAIN size[d]
    BY RowsOf DEF soloRows
<1>2. \A q \in rest : Cardinality(before(q)) <= MaxFiles /\ Bytes(d, before(q)) <= SoloBytes
    BY DEF soloRows
<1>3. ASSUME NEW r \in rest, NEW q \in rows, q <= r PROVE q \in rest
    <2>1. before(r) \in SUBSET DOMAIN size[d] /\ before(q) \in SUBSET DOMAIN size[d]
        OBVIOUS
    <2>2. before(q) \subseteq before(r)
        <3>1. r \in Nat /\ q \in Nat /\ \A p \in rows : p \in Nat
            BY <1>1
        <3>2. \A p \in rows : p < q => p < r
            BY <1>3, <3>1
        <3>3. QED
            BY <3>2
    <2>3. /\ Bytes(d, before(q)) \in Nat /\ Bytes(d, before(r)) \in Nat
          /\ Bytes(d, before(r)) = Bytes(d, before(q)) + Bytes(d, before(r) \ before(q))
          /\ Bytes(d, before(r) \ before(q)) \in Nat
        <3> HIDE DEF before
        <3>1. before(r) \ before(q) \in SUBSET DOMAIN size[d] /\ before(q) \in SUBSET before(r)
            BY <2>1, <2>2
        <3>2. /\ Bytes(d, before(q)) \in Nat /\ Bytes(d, before(r)) \in Nat
              /\ Bytes(d, before(r) \ before(q)) \in Nat
            BY <2>1, <3>1, RowsOf
        <3>3. Bytes(d, before(r)) = Bytes(d, before(q)) + Bytes(d, before(r) \ before(q))
            BY <2>1, <3>1, RowsBound
        <3>4. QED
            BY <3>2, <3>3
    <2>4. /\ Cardinality(before(q)) \in Nat /\ Cardinality(before(r)) \in Nat
          /\ Cardinality(before(q)) <= Cardinality(before(r))
        BY <2>1, <2>2, RowsOf, FS_Subset
    <2>5. Cardinality(before(r)) <= MaxFiles /\ Bytes(d, before(r)) <= SoloBytes
        BY <1>2
    <2> HIDE DEF before
    <2>6. Cardinality(before(q)) <= MaxFiles
        BY <2>4, <2>5, MaxFilesAssumption
    <2>7. Bytes(d, before(q)) <= SoloBytes
        BY <2>3, <2>5, SizesAssumption
    <2>8. QED
        BY <2>6, <2>7 DEF soloRows, before
<1>4. markUpTo(rows, rest) = rest
    <2>1. \A q \in rest : q <= q
        BY <1>1
    <2>2. QED
        BY <1>1, <1>3, <2>1 DEF markUpTo
<1>5. Cardinality(rest) <= MaxFiles + 1
    <2>1. CASE rest = {}
        BY <2>1, FS_EmptySet, MaxFilesAssumption
    <2>2. CASE rest # {}
        <3>1. PICK r \in rest : \A q \in rest : q <= r
            BY <1>1, <2>2, LastRow
        <3>2. rest \subseteq before(r) \cup {r}
            BY <1>1, <3>1
        <3>3. before(r) \in SUBSET DOMAIN size[d]
            OBVIOUS
        <3>4. IsFiniteSet(before(r)) /\ Cardinality(before(r)) \in Nat /\ r \notin before(r)
            BY <1>1, <3>3, RowsOf
        <3>5. /\ IsFiniteSet(before(r) \cup {r})
              /\ Cardinality(before(r) \cup {r}) = Cardinality(before(r)) + 1
            BY <3>4, FS_AddElement
        <3>6. /\ Cardinality(rest) <= Cardinality(before(r) \cup {r})
              /\ Cardinality(rest) \in Nat
            BY <3>2, <3>5, FS_Subset, FS_CardinalityType
        <3>7. Cardinality(before(r)) <= MaxFiles
            BY <1>2
        <3> HIDE DEF before, rest
        <3>8. QED
            BY <3>4, <3>5, <3>6, <3>7, MaxFilesAssumption
    <2>3. QED
        BY <2>1, <2>2
<1>6. QED
    BY <1>1, <1>4, <1>5

LEMMA SoloSliceStep == ASSUME PlanInv, soloSlice PROVE PlanInv' /\ MarkedStep
<1> DEFINE left == [e \in Disks |-> Free(e) \ Firsts[e]]
<1>1. PICK d \in Disks :
         /\ Active = {d}
         /\ LET rest == soloRows(d, left[d]) IN
            IF \E e, f \in Disks : e # f /\ left[e] # {} /\ left[f] # {}
            THEN pc' = "fatal"
                 /\ UNCHANGED <<marked, committed, cur, statVars, consumed, slices>>
            ELSE commitSlice((UNION {Positions(e, 0, Firsts[e]) : e \in Disks})
                                 \cup Positions(d, Bytes(d, Firsts[d]), rest),
                             [e \in Disks |-> Bytes(e, Firsts[e])
                                                + IF e = d THEN Bytes(d, rest) ELSE 0],
                             [e \in Disks |-> marked[e] \cup Firsts[e] \cup
                                  IF e = d THEN markUpTo(left[d], rest) ELSE {}])
    BY DEF soloSlice
<1>2. pc = "start" /\ UNCHANGED <<size, fillVars>>
    BY DEF soloSlice
<1>3. TypeOK /\ Sized
    BY Typed DEF PlanInv
<1>4. ASSUME NEW e \in Disks
      PROVE  /\ Firsts[e] \in SUBSET Free(e) /\ Cardinality(Firsts[e]) <= 1
             /\ Bytes(e, Firsts[e]) = 0 => Bytes(e, Free(e)) = 0
             /\ Free(e) \in SUBSET DOMAIN size[e] /\ Firsts[e] \in SUBSET DOMAIN size[e]
             /\ Bytes(e, Firsts[e]) \in Nat
    <2>1. Firsts[e] \in SUBSET Free(e) /\ Free(e) \in SUBSET DOMAIN size[e]
        BY <1>2, <1>3, FirstsOf, Typed
    <2>2. Bytes(e, Firsts[e]) \in Nat
        BY <1>3, <2>1, RowsOf
    <2>3. QED
        BY <1>2, <2>1, <2>2, FirstsOf
<1>5. \A e \in Disks \ {d} : Bytes(e, Firsts[e]) = 0
    <2>1. \A e \in Disks \ {d} : ~ (Bytes(e, Firsts[e]) > 0)
        BY <1>1 DEF Active
    <2>2. \A e \in Disks \ {d} : Bytes(e, Firsts[e]) \in Nat
        BY <1>4
    <2>3. QED
        BY <2>1, <2>2
<1>6. CASE \E e, f \in Disks : e # f /\ left[e] # {} /\ left[f] # {}
    <2>1. pc' = "fatal" /\ UNCHANGED <<size, marked, committed, cur, statVars, consumed, fillVars, slices>>
        BY <1>1, <1>2, <1>6
    <2>2. PICK e \in Disks \ {d} : left[e] # {}
        BY <1>6
    <2>3. PICK q \in Free(e) : TRUE
        BY <2>2
    <2>4. size[e][q] = 0
        BY <1>3, <1>4, <1>5, RowsOf
    <2>5. \E f \in Disks : \E r \in Free(f)' : size'[f][r] = 0
        BY <2>1, <2>3, <2>4 DEF Free
    <2>6. QED
        BY <2>1, <2>5, Stopped
<1>7. CASE ~ (\E e, f \in Disks : e # f /\ left[e] # {} /\ left[f] # {})
    <2> DEFINE rest == soloRows(d, left[d])
               first(e) == Positions(e, 0, Firsts[e])
               more == Positions(d, Bytes(d, Firsts[d]), rest)
               pos == (UNION {first(e) : e \in Disks}) \cup more
               s == [e \in Disks |-> Bytes(e, Firsts[e]) + IF e = d THEN Bytes(d, rest) ELSE 0]
               m == [e \in Disks |-> marked[e] \cup Firsts[e] \cup
                                        IF e = d THEN markUpTo(left[d], rest) ELSE {}]
    <2>1. commitSlice(pos, s, m)
        BY <1>1, <1>7
    <2>2. left[d] \in SUBSET DOMAIN size[d] /\ left[d] \in SUBSET Free(d) /\ left[d] \cap Firsts[d] = {}
        BY <1>4
    <2>3. /\ rest \in SUBSET left[d] /\ markUpTo(left[d], rest) = rest
          /\ Cardinality(rest) <= MaxFiles + 1
        BY <1>3, <2>2, SoloRows
    <2>4. /\ rest \in SUBSET DOMAIN size[d] /\ rest \in SUBSET Free(d) /\ rest \cap Firsts[d] = {}
          /\ Bytes(d, rest) \in Nat
        BY <1>3, <2>2, <2>3, RowsOf
    <2> HIDE DEF left, rest
    <2>5. marked = committed
        BY <1>2 DEF PlanInv, StartInv
    <2>6. ASSUME NEW e \in Disks
          PROVE  /\ marked[e] \subseteq m[e] /\ m[e] \subseteq DOMAIN size[e]
                 /\ m[e] \ committed[e] = Firsts[e] \cup IF e = d THEN rest ELSE {}
        <3>1. marked[e] \subseteq DOMAIN size[e]
            BY <1>3, Typed
        <3>2. m[e] = marked[e] \cup Firsts[e] \cup IF e = d THEN rest ELSE {}
            BY <2>3
        <3>3. QED
            BY <1>4, <2>4, <2>5, <3>1, <3>2 DEF Free
    <2>7. s \in [Disks -> Nat] /\ m \in [Disks -> SUBSET Nat]
        <3>1. \A e \in Disks : DOMAIN size[e] \subseteq Nat
            BY <1>3, Files
        <3>2. ASSUME NEW e \in Disks
              PROVE  Bytes(e, Firsts[e]) + (IF e = d THEN Bytes(d, rest) ELSE 0) \in Nat
            <4>1. Bytes(e, Firsts[e]) \in Nat /\ (IF e = d THEN Bytes(d, rest) ELSE 0) \in Nat
                BY <1>4, <2>4
            <4>2. QED
                BY <4>1
        <3>3. s \in [Disks -> Nat]
            BY <3>2
        <3>4. \A e \in Disks : m[e] \in SUBSET Nat
            BY <2>6, <3>1
        <3>5. m \in [Disks -> SUBSET Nat]
            BY <3>4
        <3>6. QED
            BY <3>3, <3>5
    <2>8. /\ Bytes(d, Firsts[d] \cup rest) = Bytes(d, Firsts[d]) + Bytes(d, rest)
          /\ Cardinality(Firsts[d] \cup rest) = Cardinality(Firsts[d]) + Cardinality(rest)
        <3>1. Firsts[d] \cap rest = {} /\ Firsts[d] \in SUBSET DOMAIN size[d]
            BY <1>4, <2>4
        <3>2. QED
            BY <1>3, <2>4, <3>1, RowsUnion
    <2>9. \A e \in Disks \ {d} : m[e] \ committed[e] = Firsts[e]
        BY <2>6
    <2>10. m[d] \ committed[d] = Firsts[d] \cup rest
        BY <2>6
    <2>11. ASSUME NEW e \in Disks PROVE s[e] = Bytes(e, m[e] \ committed[e])
        <3>1. CASE e = d
            BY <2>8, <2>10, <3>1
        <3>2. CASE e # d
            <4>1. s[e] = Bytes(e, Firsts[e]) + 0 /\ Bytes(e, Firsts[e]) \in Nat
                BY <1>4, <3>2
            <4>2. s[e] = Bytes(e, Firsts[e])
                BY <4>1
            <4>3. QED
                BY <2>9, <3>2, <4>2
        <3>3. QED
            BY <3>1, <3>2
    <2>12. ASSUME NEW e \in Disks
           PROVE  \/ Cardinality(m[e] \ committed[e]) <= MaxFiles
                  \/ /\ Cardinality(m[e] \ committed[e]) <= MaxFiles + 2
                     /\ \A f \in Disks \ {e} : Bytes(f, m[f] \ committed[f]) = 0
        <3>1. CASE e = d
            <4>1. Cardinality(Firsts[d]) \in Nat /\ Cardinality(rest) \in Nat
                BY <1>3, <1>4, <2>4, RowsOf
            <4>2. Cardinality(Firsts[d]) <= 1
                BY <1>4
            <4>3. Cardinality(Firsts[d] \cup rest) <= MaxFiles + 2
                BY <2>3, <2>8, <4>1, <4>2, MaxFilesAssumption
            <4>4. QED
                BY <1>5, <2>9, <2>10, <3>1, <4>3
        <3>2. CASE e # d
            <4>1. Cardinality(m[e] \ committed[e]) = Cardinality(Firsts[e])
                BY <2>9, <3>2
            <4>2. Cardinality(Firsts[e]) \in Nat /\ Cardinality(Firsts[e]) <= 1
                BY <1>3, <1>4, RowsOf
            <4>3. Cardinality(Firsts[e]) <= MaxFiles
                BY <4>2, MaxFilesAssumption
            <4>4. QED
                BY <4>1, <4>3
        <3>3. QED
            BY <3>1, <3>2
    <2>13. GoodSlice(pos, m)
        <3>1. ASSUME NEW e \in Disks
              PROVE  /\ first(e) \subseteq Position
                     /\ \A p \in first(e) : p.disk = e /\ p.seq \in Firsts[e]
                     /\ \A q \in Firsts[e] : \E p \in first(e) : p.disk = e /\ p.seq = q
                     /\ \A p, q \in first(e) : p.seq = q.seq => p = q
            <4>1. 0 \in Nat
                OBVIOUS
            <4>2. QED
                BY <1>3, <1>4, <4>1, PositionsOf
        <3>2. /\ more \subseteq Position
              /\ \A p \in more : p.disk = d /\ p.seq \in rest
              /\ \A q \in rest : \E p \in more : p.disk = d /\ p.seq = q
              /\ \A p, q \in more : p.seq = q.seq => p = q
            BY <1>3, <1>4, <2>4, PositionsOf
        <3> HIDE DEF first, more, m
        <3>3. pos = (UNION {first(e) : e \in Disks}) \cup more
            OBVIOUS
        <3> HIDE DEF pos
        <3>4. \A p \in pos : (\E e \in Disks : p \in first(e)) \/ p \in more
            BY <3>3
        <3>5. \A e \in Disks : first(e) \subseteq pos
            BY <3>3
        <3>6. more \subseteq pos
            BY <3>3
        <3>7. pos \subseteq Position
            BY <3>1, <3>2, <3>4
        <3>8. \A p \in pos : p.seq \in m[p.disk] \ committed[p.disk]
            BY <2>9, <2>10, <3>1, <3>2, <3>4
        <3>9. ASSUME NEW e \in Disks, NEW q \in m[e] \ committed[e]
              PROVE  \E p \in pos : p.disk = e /\ p.seq = q
            <4>1. q \in Firsts[e] \/ (e = d /\ q \in rest)
                BY <2>9, <2>10, <3>9
            <4>2. QED
                BY <3>1, <3>2, <3>5, <3>6, <4>1
        <3>10. ASSUME NEW p \in pos, NEW q \in pos, p.disk = q.disk, p.seq = q.seq PROVE p = q
            <4>1. \A e \in Disks : p \in first(e) /\ q \in first(e) => p = q
                BY <3>1, <3>10
            <4>2. p \in more /\ q \in more => p = q
                BY <3>2, <3>10
            <4>3. ~ (p \in more /\ \E e \in Disks : q \in first(e))
                BY <2>4, <3>1, <3>2, <3>10
            <4>4. ~ (q \in more /\ \E e \in Disks : p \in first(e))
                BY <2>4, <3>1, <3>2, <3>10
            <4>5. \A e, f \in Disks : p \in first(e) /\ q \in first(f) => e = f
                BY <3>1, <3>10
            <4>6. QED
                BY <3>4, <4>1, <4>2, <4>3, <4>4, <4>5
        <3>11. QED
            BY <3>7, <3>8, <3>9, <3>10 DEF GoodSlice
    <2>14. Handed(pos, s, m)
        <3> HIDE DEF pos, s, m
        <3>1. QED
            BY <2>6, <2>7, <2>11, <2>12, <2>13 DEF Handed
    <2> HIDE DEF pos, s, m
    <2>15. QED
        BY <1>2, <2>1, <2>14, Committed
<1>8. QED
    BY <1>6, <1>7

----------------------------------------------------------------------------
(* startSlice.                                                             *)

LEMMA StartSliceStep == ASSUME PlanInv, startSlice PROVE PlanInv' /\ MarkedStep
<1>1. /\ pc = "start" /\ Cardinality(Active) > 1
      /\ cur' = UNION {Positions(d, 0, Firsts[d]) : d \in Disks}
      /\ marked' = [d \in Disks |-> marked[d] \cup Firsts[d]]
      /\ freshSliceStat(Firsts)
      /\ pc' = "select"
      /\ UNCHANGED <<size, committed, fin, consumed, fillVars, slices>>
    BY DEF startSlice
<1>2. TypeOK /\ Sized /\ Counted
    BY Typed DEF PlanInv
<1>3. ASSUME NEW d \in Disks
      PROVE  /\ Firsts[d] \in SUBSET Free(d) /\ Free(d) \in SUBSET DOMAIN size[d]
             /\ Firsts[d] \in SUBSET DOMAIN size[d]
             /\ marked[d] \in SUBSET DOMAIN size[d] /\ Cardinality(Firsts[d]) <= 1
             /\ FilesSize(d) > consumed[d] => \A q \in Free(d) : \E f \in Firsts[d] : f <= q
             /\ Bytes(d, Firsts[d]) \in Nat /\ Cardinality(Firsts[d]) \in Nat
    <2>1. Firsts[d] \in SUBSET Free(d) /\ Free(d) \in SUBSET DOMAIN size[d]
        BY <1>1, <1>2, FirstsOf, Typed
    <2>2. Bytes(d, Firsts[d]) \in Nat /\ Cardinality(Firsts[d]) \in Nat
        BY <1>2, <2>1, RowsOf
    <2>3. QED
        BY <1>1, <1>2, <2>1, <2>2, FirstsOf, Typed
<1>4. /\ marked = committed /\ sliceSize = 0
      /\ \A d \in Disks : sum[d] = 0 /\ cnt[d] = 0 /\ fin[d] = FALSE
    BY <1>1 DEF PlanInv, StartInv
<1>5. /\ Counted'
      /\ \A d \in Disks : /\ sum'[d] = Bytes(d, Firsts[d]) /\ cnt'[d] = Cardinality(Firsts[d])
                          /\ sum'[d] <= sliceSize'
      /\ sliceSize' > sliceSize => sum'[maxFilledDisk'] = sliceSize'
    <2>1. /\ Counted'
          /\ \A d \in Disks : /\ sum'[d] = sum[d] + Bytes(d, Firsts[d])
                              /\ cnt'[d] = cnt[d] + Cardinality(Firsts[d])
                              /\ sum'[d] <= sliceSize'
          /\ sliceSize' > sliceSize => sum'[maxFilledDisk'] = sliceSize'
        BY <1>1, <1>2, <1>3, StatStep
    <2>2. ASSUME NEW d \in Disks
          PROVE  sum'[d] = Bytes(d, Firsts[d]) /\ cnt'[d] = Cardinality(Firsts[d])
        <3>1. Bytes(d, Firsts[d]) \in Nat /\ Cardinality(Firsts[d]) \in Nat
            BY <1>3
        <3>2. QED
            BY <1>4, <2>1, <3>1
    <2>3. QED
        BY <2>1, <2>2
<1>6. PICK d \in Disks : Bytes(d, Firsts[d]) > 0
    <2>1. Active # {}
        BY <1>1, FS_EmptySet
    <2>2. QED
        BY <2>1 DEF Active
<1>7. \A e \in Disks : marked'[e] \ committed'[e] = Firsts[e]
    BY <1>1, <1>3, <1>4 DEF Free
<1> DEFINE first(e) == Positions(e, 0, Firsts[e])
<1>8. ASSUME NEW e \in Disks
      PROVE  /\ first(e) \subseteq Position
             /\ \A p \in first(e) : p.disk = e /\ p.seq \in Firsts[e]
             /\ \A q \in Firsts[e] : \E p \in first(e) : p.disk = e /\ p.seq = q
             /\ \A p, q \in first(e) : p.seq = q.seq => p = q
    <2>1. 0 \in Nat
        OBVIOUS
    <2>2. QED
        BY <1>2, <1>3, <2>1, PositionsOf
<1>9. /\ \A p \in cur' : \E e \in Disks : p \in first(e)
      /\ \A e \in Disks : first(e) \subseteq cur'
    BY <1>1
<1> HIDE DEF first
<1>10. GoodSlice(cur, marked)'
    <2>1. cur' \subseteq Position
        BY <1>8, <1>9
    <2>2. \A p \in cur' : p.seq \in marked'[p.disk] \ committed'[p.disk]
        BY <1>7, <1>8, <1>9
    <2>3. ASSUME NEW e \in Disks, NEW q \in marked'[e] \ committed'[e]
          PROVE  \E p \in cur' : p.disk = e /\ p.seq = q
        BY <1>7, <1>8, <1>9, <2>3
    <2>4. ASSUME NEW p \in cur', NEW q \in cur', p.disk = q.disk, p.seq = q.seq PROVE p = q
        BY <1>8, <1>9, <2>4
    <2>5. QED
        BY <2>1, <2>2, <2>3, <2>4 DEF GoodSlice
<1>11. SliceInv'
    <2>1. ASSUME NEW e \in Disks
          PROVE  /\ sum'[e] = Bytes(e, Planned(e))'
                 /\ cnt'[e] = Cardinality(Planned(e)') /\ cnt'[e] <= MaxFiles
        <3>1. Planned(e)' = Firsts[e]
            BY <1>7 DEF Planned
        <3>2. cnt'[e] <= MaxFiles
            <4>1. cnt'[e] \in Nat /\ cnt'[e] <= 1
                BY <1>3, <1>5
            <4>2. QED
                BY <4>1, MaxFilesAssumption
        <3>3. size' = size /\ sum'[e] = SumFunctionOnSet(size[e], Firsts[e])
            BY <1>1, <1>5 DEF Bytes
        <3>4. sum'[e] = Bytes(e, Planned(e))'
            BY <3>1, <3>3 DEF Bytes
        <3>5. QED
            BY <1>5, <3>1, <3>2, <3>4
    <2>2. QED
        BY <1>10, <2>1 DEF SliceInv
<1>12. LeadInv'
    <2>1. cur' # {}
        <3>1. Firsts[d] # {}
            BY <1>6, SumEmpty DEF Bytes
        <3>2. QED
            BY <1>8, <1>9, <3>1
    <2>2. sliceSize' > sliceSize
        <3>1. sum'[d] > 0 /\ sum'[d] <= sliceSize' /\ sum'[d] \in Nat /\ sliceSize' \in Nat
            BY <1>5, <1>6 DEF Counted
        <3>2. QED
            BY <1>4, <3>1
    <2>3. QED
        BY <1>5, <2>1, <2>2 DEF LeadInv
<1>13. FirstInv'
    <2>1. ASSUME NEW e \in Disks, FilesSize(e) > consumed[e], NEW q \in Free(e) \ Firsts[e]
          PROVE  \E p \in cur' : p.disk = e /\ p.seq < q
        <3>1. PICK f \in Firsts[e] : f <= q
            BY <1>3, <2>1
        <3>2. f \in Nat /\ q \in Nat /\ f # q
            <4>1. f \in DOMAIN size[e] /\ q \in DOMAIN size[e] /\ f # q
                BY <1>3
            <4>2. QED
                BY <1>2, <4>1, Files
        <3>3. f < q
            BY <3>1, <3>2
        <3>4. QED
            BY <1>8, <1>9, <3>3
    <2>2. \A e \in Disks : FilesSize(e)' = FilesSize(e) /\ consumed'[e] = consumed[e]
                            /\ Free(e)' = Free(e) \ Firsts[e]
        BY <1>1 DEF FilesSize, Free
    <2>3. QED
        BY <2>1, <2>2 DEF FirstInv
<1>14. FinInv'
    <2>1. \A e \in Disks : fin'[e] = FALSE
        BY <1>1, <1>4
    <2>2. QED
        BY <2>1 DEF FinInv
<1>15. TypeOK'
    <2>1. marked' \in [Disks -> SUBSET Nat]
        <3>1. \A e \in Disks : Firsts[e] \in SUBSET Nat /\ marked[e] \in SUBSET Nat
            BY <1>2, <1>3, Files
        <3>2. QED
            BY <1>1, <3>1
    <2>2. \A e \in Disks : marked'[e] \subseteq DOMAIN size'[e] /\ committed'[e] \subseteq marked'[e]
        BY <1>1, <1>3, <1>4
    <2>3. cur' \subseteq Position
        BY <1>10 DEF GoodSlice
    <2>4. QED
        BY <1>1, <1>2, <1>5, <2>1, <2>2, <2>3 DEF TypeOK, Counted, fillVars
<1>16. Descending' /\ StartInv' /\ HoleInv' /\ FatalForEmptyOnly'
    BY <1>1 DEF PlanInv, Descending, StartInv, HoleInv, FatalForEmptyOnly
<1>17. ConsumedInv'
    BY <1>1 DEF PlanInv, ConsumedInv, Bytes
<1>18. FilesLimit'
    <2>1. size' = size /\ slices' = slices
        BY <1>1
    <2>2. QED
        BY <2>1, LimitOf DEF PlanInv
<1>19. MarkedStep
    BY <1>1 DEF MarkedStep
<1>20. QED
    BY <1>11, <1>12, <1>13, <1>14, <1>15, <1>16, <1>17, <1>18, <1>19 DEF PlanInv

----------------------------------------------------------------------------
(* addFile2slice.                                                          *)

LEMMA PercentOf ==
    ASSUME NEW a \in Nat, NEW b \in Nat
    PROVE  percentDiff(a, b) \in Int /\ (percentDiff(a, b) < 0 => a < b)
<1> DEFINE diff == IF a < b THEN b - a ELSE a - b
           big  == IF a < b THEN b ELSE a
           prc  == (200 * diff + big) \div (2 * big)
           zero == diff <= SameSize \/ prc <= Tolerance
<1>1. percentDiff(a, b) = IF zero THEN 0 ELSE IF a < b THEN -prc ELSE prc
    BY DEF percentDiff
<1>2. diff \in Nat /\ big \in Nat /\ (big = 0 => diff = 0)
    OBVIOUS
<1> HIDE DEF diff, big
<1>3. ASSUME ~zero PROVE prc \in Int /\ prc >= 0
    <2>1. ~ (diff <= SameSize)
        BY <1>3
    <2>2. big > 0
        BY <1>2, <2>1, SizesAssumption
    <2> DEFINE x == 200 * diff + big
               y == 2 * big
    <2>3. x \in Nat /\ y \in Nat \ {0}
        BY <1>2, <2>2
    <2> HIDE DEF x, y
    <2>4. x \div y \in Nat
        BY <2>3
    <2>5. prc = x \div y
        BY DEF x, y
    <2> HIDE DEF prc
    <2>6. QED
        BY <2>4, <2>5
<1> HIDE DEF prc, zero
<1>4. CASE zero
    BY <1>1, <1>4
<1>5. CASE ~zero
    BY <1>1, <1>3, <1>5
<1>6. QED
    BY <1>4, <1>5

LEMMA LaggingDisk ==
    ASSUME TypeOK, Lagging # {}
    PROVE  /\ selectNextDisk \in Lagging
           /\ \A d \in Lagging : d \in Disks /\ Usable(d) /\ sum[d] < sum[maxFilledDisk]
<1> DEFINE F == [d \in Disks |-> IF d \in Lagging THEN Lag(d) ELSE 0]
           most == {d \in Lagging : \A e \in Lagging : Lag(e) <= Lag(d)}
<1>1. /\ Lagging \in SUBSET Disks
      /\ \A d \in Lagging : Usable(d) /\ Lag(d) > 0
    BY DEF Lagging
<1>2. \A d \in Disks : sum[d] \in Nat /\ sum[maxFilledDisk] \in Nat
    BY DEF TypeOK
<1>3. ASSUME NEW d \in Lagging PROVE Lag(d) \in Nat /\ sum[d] < sum[maxFilledDisk]
    <2> DEFINE z == percentDiff(sum[d], sum[maxFilledDisk])
    <2>1. z \in Int /\ (z < 0 => sum[d] < sum[maxFilledDisk])
        BY <1>1, <1>2, PercentOf
    <2>2. -z > 0 /\ Lag(d) = -z
        BY <1>1 DEF Lag
    <2> HIDE DEF z
    <2>3. QED
        BY <2>1, <2>2
<1>4. \A d \in Disks : /\ F[d] \in Nat
                        /\ F[d] = IF d \in Lagging THEN Lag(d) ELSE 0
    BY <1>3
<1> HIDE DEF F
<1>5. PICK d \in Disks : \A e \in Disks : F[e] <= F[d]
    BY <1>4, LargestOf, NDisksAssumption DEF Disks
<1>6. PICK e \in Lagging : TRUE
    OBVIOUS
<1>7. d \in Lagging
    <2>1. F[e] <= F[d] /\ F[e] > 0
        BY <1>1, <1>4, <1>5, <1>6
    <2>2. F[d] # 0
        BY <1>1, <1>4, <1>6, <2>1
    <2>3. QED
        BY <1>4, <2>2
<1>8. d \in most
    BY <1>1, <1>4, <1>5, <1>7
<1>9. most \in SUBSET Nat
    <2>1. Lagging \in SUBSET Nat
        BY <1>1 DEF Disks
    <2>2. QED
        BY <2>1
<1>10. Furthest \in Lagging
    BY <1>8, <1>9, LeastOf DEF Furthest
<1>11. selectNextDisk \in Lagging
    BY <1>10 DEF selectNextDisk
<1>12. QED
    BY <1>1, <1>3, <1>11

LEMMA AddFileStep == ASSUME PlanInv, addFile2slice PROVE PlanInv' /\ MarkedStep
<1>1. /\ pc = "select" /\ Lagging # {} /\ nextDisk' = selectNextDisk
      /\ holeSize' = sum[maxFilledDisk] - sum[nextDisk'] /\ pc' = "fill"
      /\ size' = size /\ marked' = marked /\ committed' = committed /\ cur' = cur
      /\ sum' = sum /\ cnt' = cnt /\ fin' = fin /\ sliceSize' = sliceSize
      /\ maxFilledDisk' = maxFilledDisk /\ consumed' = consumed /\ slices' = slices
    BY DEF addFile2slice, statVars
<1>2. TypeOK
    BY DEF PlanInv
<1>3. nextDisk' \in Disks /\ Usable(nextDisk') /\ sum[nextDisk'] < sum[maxFilledDisk]
    BY <1>1, <1>2, LaggingDisk
<1>4. holeSize' \in Nat /\ holeSize' > 0
    <2>1. sum[nextDisk'] \in Nat /\ sum[maxFilledDisk] \in Nat
        BY <1>2, <1>3 DEF TypeOK
    <2>2. QED
        BY <1>1, <1>3, <2>1
<1>5. TypeOK'
    BY <1>1, <1>2, <1>3, <1>4 DEF TypeOK
<1>6. Descending' /\ StartInv' /\ FatalForEmptyOnly'
    BY <1>1 DEF PlanInv, Descending, StartInv, FatalForEmptyOnly
<1>7. SliceInv'
    BY <1>1 DEF PlanInv, SliceInv, GoodSlice, Planned, Bytes
<1>8. ConsumedInv'
    BY <1>1 DEF PlanInv, ConsumedInv, Bytes
<1>9. LeadInv'
    BY <1>1 DEF PlanInv, LeadInv, InSlice
<1>10. HoleInv'
    BY <1>1, <1>3, <1>4 DEF HoleInv, Usable, diskInUse, FilesSize
<1>11. FirstInv'
    BY <1>1 DEF PlanInv, FirstInv, InSlice, Free, FilesSize
<1>12. FinInv'
    BY <1>1 DEF PlanInv, FinInv, InSlice, Free
<1>13. FilesLimit'
    BY <1>1, LimitOf DEF PlanInv
<1>14. MarkedStep
    BY <1>1 DEF MarkedStep
<1>15. QED
    BY <1>5, <1>6, <1>7, <1>8, <1>9, <1>10, <1>11, <1>12, <1>13, <1>14 DEF PlanInv

----------------------------------------------------------------------------
(* fillHole.                                                               *)

\* The numbers of a turn of fillHole
Turned(files) ==
    /\ files \in SUBSET Free(nextDisk) /\ Bytes(nextDisk, files) \in Nat
    /\ cnt'[nextDisk] <= MaxFiles
    /\ cur' = cur \cup Positions(nextDisk, sum[nextDisk], files)
    /\ marked' = [marked EXCEPT ![nextDisk] = @ \cup files]
    /\ fin' = [fin EXCEPT ![nextDisk] = @ \/ Turn.finished]
    /\ sum'[nextDisk] = sum[nextDisk] + Bytes(nextDisk, files)
    /\ cnt'[nextDisk] = cnt[nextDisk] + Cardinality(files)
    /\ \A d \in Disks \ {nextDisk} : sum'[d] = sum[d] /\ cnt'[d] = cnt[d]
    /\ \A d \in Disks : sum'[d] <= sliceSize'
    /\ \E d \in Disks : sum'[d] = sliceSize'
    /\ sliceSize' > sliceSize => sum'[maxFilledDisk'] = sliceSize'
    /\ sliceSize' <= sliceSize => maxFilledDisk' = maxFilledDisk
    /\ holeSize' = IF Turn.finished \/ cnt'[nextDisk] >= MaxFiles THEN 0 ELSE Turn.hole
    /\ pc' = IF holeSize' > 0 THEN "fill" ELSE "select"
    /\ UNCHANGED <<size, committed, consumed, nextDisk, slices>>

\* The files between the first and the last of a turn are those of the turn, so their
\* sums agree and the step is not the fatal one.
LEMMA NoIncorrectSum ==
    ASSUME PlanInv, fillHole
    PROVE  Filling /\ Counted' /\ Turned(Turn.files)
<1>1. TypeOK /\ Sized /\ Counted /\ nextDisk \in Disks /\ pc = "fill"
    BY Typed DEF PlanInv, TypeOK, fillHole
<1>2. Filling
    BY <1>1 DEF PlanInv, TypeOK, HoleInv, diskInUse, Filling
<1>3. /\ Turn.files \subseteq Free(nextDisk)
      /\ cnt[nextDisk] + Cardinality(Turn.files) <= MaxFiles
      /\ \A q \in Free(nextDisk), p, r \in Turn.files : p <= q /\ q <= r => q \in Turn.files
    BY <1>2, TurnFacts
<1>4. Free(nextDisk) \subseteq DOMAIN size[nextDisk] /\ Turn.files \in SUBSET DOMAIN size[nextDisk]
    BY <1>1, <1>3, Typed
<1>5. Bytes(nextDisk, Turn.files) \in Nat /\ \A q \in Turn.files : q \in Nat
    BY <1>1, <1>4, RowsOf
<1>6. {q \in Free(nextDisk) : \E p, r \in Turn.files : p <= q /\ q <= r} = Turn.files
    <2>1. \A q \in Turn.files : q <= q
        BY <1>5
    <2>2. QED
        BY <1>3, <2>1
<1> DEFINE add == [None EXCEPT ![nextDisk] = Turn.files]
<1>7. /\ cur' = cur \cup Positions(nextDisk, sum[nextDisk], Turn.files)
      /\ marked' = [marked EXCEPT ![nextDisk] = @ \cup Turn.files]
      /\ freshSliceStat(add)
      /\ fin' = [fin EXCEPT ![nextDisk] = @ \/ Turn.finished]
      /\ holeSize' = IF Turn.finished \/ cnt'[nextDisk] >= MaxFiles THEN 0 ELSE Turn.hole
      /\ pc' = IF holeSize' > 0 THEN "fill" ELSE "select"
      /\ UNCHANGED <<size, committed, consumed, nextDisk, slices>>
    <2> DEFINE between == {q \in Free(nextDisk) : \E p, r \in Turn.files : p <= q /\ q <= r}
               Added(rows) == /\ cur' = cur \cup Positions(nextDisk, sum[nextDisk], rows)
                              /\ marked' = [marked EXCEPT ![nextDisk] = @ \cup rows]
                              /\ freshSliceStat([None EXCEPT ![nextDisk] = rows])
    <2>1. /\ IF \/ Cardinality(between) # Cardinality(Turn.files)
                \/ Bytes(nextDisk, between) # Bytes(nextDisk, Turn.files)
             THEN TRUE
             ELSE /\ Added(between)
                  /\ fin' = [fin EXCEPT ![nextDisk] = @ \/ Turn.finished]
                  /\ holeSize' = IF Turn.finished \/ cnt'[nextDisk] >= MaxFiles THEN 0 ELSE Turn.hole
                  /\ pc' = IF holeSize' > 0 THEN "fill" ELSE "select"
          /\ UNCHANGED <<size, committed, consumed, nextDisk, slices>>
        BY DEF fillHole
    <2>2. between = Turn.files
        BY <1>6
    <2> HIDE DEF between, Added
    <2>3. Added(Turn.files)
        BY <2>1, <2>2
    <2>4. QED
        BY <2>1, <2>2, <2>3 DEF Added
<1>8. /\ add[nextDisk] = Turn.files
      /\ \A d \in Disks \ {nextDisk} : add[d] = {}
      /\ \A d \in Disks : add[d] \in SUBSET DOMAIN size[d]
    BY <1>1, <1>4 DEF None
<1> HIDE DEF add
<1>9. /\ Counted'
      /\ \A d \in Disks : /\ sum'[d] = sum[d] + Bytes(d, add[d])
                          /\ cnt'[d] = cnt[d] + Cardinality(add[d])
                          /\ sum'[d] <= sliceSize'
      /\ \E d \in Disks : sum'[d] = sliceSize'
      /\ sliceSize' > sliceSize => sum'[maxFilledDisk'] = sliceSize'
      /\ sliceSize' <= sliceSize => maxFilledDisk' = maxFilledDisk
    BY <1>1, <1>7, <1>8, StatStep
<1>10. ASSUME NEW d \in Disks \ {nextDisk} PROVE sum'[d] = sum[d] /\ cnt'[d] = cnt[d]
    <2>1. Bytes(d, add[d]) = 0 /\ Cardinality(add[d]) = 0
        BY <1>8, SumEmpty, FS_EmptySet DEF Bytes
    <2>2. sum[d] \in Nat /\ cnt[d] \in Nat
        BY <1>1 DEF TypeOK
    <2>3. QED
        BY <1>9, <2>1, <2>2
<1>11. /\ sum'[nextDisk] = sum[nextDisk] + Bytes(nextDisk, Turn.files)
       /\ cnt'[nextDisk] = cnt[nextDisk] + Cardinality(Turn.files)
    BY <1>1, <1>8, <1>9
<1>12. cnt'[nextDisk] <= MaxFiles
    BY <1>3, <1>11
<1>13. QED
    BY <1>2, <1>3, <1>5, <1>7, <1>9, <1>10, <1>11, <1>12 DEF Turned

LEMMA FillHoleStep == ASSUME PlanInv, fillHole PROVE PlanInv' /\ MarkedStep
<1> DEFINE files == Turn.files
           new == Positions(nextDisk, sum[nextDisk], files)
           wide == Turn.finished
           left == Turn.hole
           planned(d) == marked'[d] \ committed'[d]
<1>1. TypeOK /\ Sized /\ pc = "fill" /\ nextDisk \in Disks /\ holeSize \in Nat
    BY Typed DEF PlanInv, TypeOK, fillHole
<1>2. Filling /\ Turned(files) /\ Counted'
    BY NoIncorrectSum
<1>3. /\ left \in Nat /\ (left > 0 => left = holeSize - Bytes(nextDisk, files))
      /\ wide \in BOOLEAN
      /\ wide => files = {} /\ \A q \in Free(nextDisk) : size[nextDisk][q] > holeSize
    BY <1>2, TurnFacts
<1> HIDE DEF files, wide, left
<1>4. /\ files \in SUBSET Free(nextDisk) /\ Bytes(nextDisk, files) \in Nat
      /\ cnt'[nextDisk] <= MaxFiles
      /\ cur' = cur \cup new
      /\ marked' = [marked EXCEPT ![nextDisk] = @ \cup files]
      /\ fin' = [fin EXCEPT ![nextDisk] = @ \/ wide]
      /\ sum'[nextDisk] = sum[nextDisk] + Bytes(nextDisk, files)
      /\ cnt'[nextDisk] = cnt[nextDisk] + Cardinality(files)
      /\ \A d \in Disks \ {nextDisk} : sum'[d] = sum[d] /\ cnt'[d] = cnt[d]
      /\ \A d \in Disks : sum'[d] <= sliceSize'
      /\ \E d \in Disks : sum'[d] = sliceSize'
      /\ sliceSize' > sliceSize => sum'[maxFilledDisk'] = sliceSize'
      /\ sliceSize' <= sliceSize => maxFilledDisk' = maxFilledDisk
      /\ holeSize' = IF wide \/ cnt'[nextDisk] >= MaxFiles THEN 0 ELSE left
      /\ pc' = IF holeSize' > 0 THEN "fill" ELSE "select"
      /\ UNCHANGED <<size, committed, consumed, nextDisk, slices>>
    BY <1>2 DEF Turned, files, wide, left
<1>5. /\ marked[nextDisk] \in SUBSET DOMAIN size[nextDisk] /\ files \cap marked[nextDisk] = {}
      /\ files \in SUBSET DOMAIN size[nextDisk] /\ committed[nextDisk] \in SUBSET marked[nextDisk]
    BY <1>1, <1>4, Typed DEF Free
<1>6. /\ marked' \in [Disks -> SUBSET Nat] /\ fin' \in [Disks -> BOOLEAN]
      /\ marked'[nextDisk] = marked[nextDisk] \cup files
      /\ \A d \in Disks \ {nextDisk} : marked'[d] = marked[d] /\ fin'[d] = fin[d]
      /\ fin'[nextDisk] = (fin[nextDisk] \/ wide)
    <2>1. files \in SUBSET Nat
        BY <1>1, <1>5, RowsOf
    <2>2. marked \in [Disks -> SUBSET Nat] /\ fin \in [Disks -> BOOLEAN]
        BY <1>1 DEF TypeOK
    <2>3. /\ marked' \in [Disks -> SUBSET Nat] /\ marked'[nextDisk] = marked[nextDisk] \cup files
          /\ \A d \in Disks \ {nextDisk} : marked'[d] = marked[d]
        BY <1>1, <1>4, <2>1, <2>2
    <2>4. /\ fin' \in [Disks -> BOOLEAN] /\ \A d \in Disks \ {nextDisk} : fin'[d] = fin[d]
        BY <1>1, <1>3, <1>4, <2>2
    <2>5. fin'[nextDisk] = (fin[nextDisk] \/ wide)
        BY <1>1, <1>4, <2>2
    <2>6. QED
        BY <2>3, <2>4, <2>5
<1>7. /\ planned(nextDisk) = Planned(nextDisk) \cup files
      /\ \A d \in Disks \ {nextDisk} : planned(d) = Planned(d)
      /\ Planned(nextDisk) \cap files = {} /\ Planned(nextDisk) \in SUBSET DOMAIN size[nextDisk]
    BY <1>4, <1>5, <1>6 DEF Planned
<1> HIDE DEF planned
<1>8. /\ Free(nextDisk)' = Free(nextDisk) \ files
      /\ \A d \in Disks \ {nextDisk} : Free(d)' = Free(d)
    BY <1>4, <1>6 DEF Free
<1>9. /\ cur # {} /\ sliceSize = sum[maxFilledDisk] /\ \A d \in Disks : sum[d] <= sliceSize
      /\ holeSize = sum[maxFilledDisk] - sum[nextDisk] /\ holeSize > 0 /\ ~fin[nextDisk]
      /\ cnt[nextDisk] < MaxFiles /\ FilesSize(nextDisk) > consumed[nextDisk]
    BY <1>1 DEF PlanInv, LeadInv, HoleInv, InSlice, diskInUse
<1>10. /\ GoodSlice(cur, marked)
       /\ \A d \in Disks : /\ sum[d] = Bytes(d, Planned(d))
                           /\ cnt[d] = Cardinality(Planned(d)) /\ cnt[d] <= MaxFiles
    BY <1>1 DEF PlanInv, SliceInv
<1>11. /\ new \subseteq Position
       /\ \A p \in new : p.disk = nextDisk /\ p.seq \in files
       /\ \A q \in files : \E p \in new : p.disk = nextDisk /\ p.seq = q
       /\ \A p, q \in new : p.seq = q.seq => p = q
    <2>1. sum[nextDisk] \in Nat
        BY <1>1 DEF TypeOK
    <2>2. QED
        BY <1>1, <1>5, <2>1, PositionsOf
<1> HIDE DEF new
<1>12. /\ \A d \in Disks : sum[d] \in Nat /\ sum'[d] \in Nat
       /\ maxFilledDisk \in Disks /\ maxFilledDisk' \in Disks
       /\ sliceSize \in Nat /\ sliceSize' \in Nat
    BY <1>1, <1>2 DEF TypeOK, Counted
<1>13. GoodSlice(cur, marked)'
    <2>1. /\ cur \subseteq Position
          /\ \A p \in cur : p.seq \in Planned(p.disk)
          /\ \A d \in Disks : \A q \in Planned(d) : \E p \in cur : p.disk = d /\ p.seq = q
          /\ \A p, q \in cur : p.disk = q.disk /\ p.seq = q.seq => p = q
        BY <1>10 DEF GoodSlice, Planned
    <2>2. \A p \in cur : p.disk \in Disks
        BY <2>1 DEF Position
    <2>3. cur' \subseteq Position
        BY <1>4, <1>11, <2>1
    <2>4. \A p \in cur' : p.seq \in planned(p.disk)
        <3>1. \A p \in cur : p.seq \in planned(p.disk)
            BY <1>7, <2>1, <2>2
        <3>2. \A p \in new : p.seq \in planned(p.disk)
            BY <1>7, <1>11
        <3>3. QED
            BY <1>4, <3>1, <3>2
    <2>5. ASSUME NEW d \in Disks, NEW q \in planned(d)
          PROVE  \E p \in cur' : p.disk = d /\ p.seq = q
        <3>1. q \in Planned(d) \/ (d = nextDisk /\ q \in files)
            BY <1>7, <2>5
        <3>2. QED
            BY <1>4, <1>11, <2>1, <3>1
    <2>6. ASSUME NEW p \in cur', NEW q \in cur', p.disk = q.disk, p.seq = q.seq PROVE p = q
        <3>1. (p \in cur \/ p \in new) /\ (q \in cur \/ q \in new)
            BY <1>4
        <3>2. ~ (p \in cur /\ q \in new)
            BY <1>7, <1>11, <2>1, <2>6
        <3>3. ~ (q \in cur /\ p \in new)
            BY <1>7, <1>11, <2>1, <2>6
        <3>4. QED
            BY <1>11, <2>1, <2>6, <3>1, <3>2, <3>3
    <2>7. QED
        BY <2>3, <2>4, <2>5, <2>6 DEF GoodSlice, planned
<1>14. SliceInv'
    <2>1. size' = size
        BY <1>4
    <2>2. /\ Bytes(nextDisk, Planned(nextDisk) \cup files) =
                 Bytes(nextDisk, Planned(nextDisk)) + Bytes(nextDisk, files)
          /\ Cardinality(Planned(nextDisk) \cup files) =
                 Cardinality(Planned(nextDisk)) + Cardinality(files)
        BY <1>1, <1>5, <1>7, RowsUnion
    <2>3. /\ sum'[nextDisk] = Bytes(nextDisk, planned(nextDisk))
          /\ cnt'[nextDisk] = Cardinality(planned(nextDisk)) /\ cnt'[nextDisk] <= MaxFiles
        BY <1>1, <1>4, <1>7, <1>10, <2>2
    <2>4. ASSUME NEW d \in Disks
          PROVE  /\ sum'[d] = Bytes(d, planned(d))
                 /\ cnt'[d] = Cardinality(planned(d)) /\ cnt'[d] <= MaxFiles
        <3>1. CASE d = nextDisk
            BY <2>3, <3>1
        <3>2. CASE d # nextDisk
            BY <1>4, <1>7, <1>10, <3>2
        <3>3. QED
            BY <3>1, <3>2
    <2>5. \A d \in Disks : planned(d) = Planned(d)' /\ Bytes(d, planned(d)) = Bytes(d, Planned(d))'
        BY <2>1 DEF Bytes, Planned, planned
    <2>6. QED
        BY <1>13, <2>4, <2>5 DEF SliceInv
<1>15. LeadInv'
    <2>1. cur' # {}
        BY <1>4, <1>9
    <2>2. \A d \in Disks : sum[d] <= sum'[d]
        <3>1. sum[nextDisk] <= sum'[nextDisk]
            BY <1>1, <1>4, <1>12
        <3>2. QED
            BY <1>4, <1>12, <3>1
    <2>3. CASE sliceSize' <= sliceSize
        <3>1. maxFilledDisk' = maxFilledDisk
            BY <1>4, <2>3
        <3>2. sum[maxFilledDisk] <= sum'[maxFilledDisk] /\ sum'[maxFilledDisk] <= sliceSize'
            BY <1>4, <1>12, <2>2
        <3>3. sliceSize' = sum'[maxFilledDisk']
            BY <1>9, <1>12, <2>3, <3>1, <3>2
        <3>4. QED
            BY <1>4, <2>1, <3>3 DEF LeadInv
    <2>4. CASE sliceSize' > sliceSize
        BY <1>4, <2>1, <2>4 DEF LeadInv
    <2>5. QED
        BY <1>12, <2>3, <2>4
<1>16. HoleInv'
    <2>1. SUFFICES ASSUME holeSize' > 0
                   PROVE  /\ holeSize' = sum'[maxFilledDisk'] - sum'[nextDisk']
                          /\ ~fin'[nextDisk'] /\ diskInUse(nextDisk)'
        BY <1>4 DEF HoleInv
    <2>2. ~wide /\ ~ (cnt'[nextDisk] >= MaxFiles) /\ holeSize' = left /\ left > 0
        BY <1>4, <2>1
    <2>3. holeSize' = holeSize - Bytes(nextDisk, files)
        BY <1>3, <2>2
    <2>4. sum'[nextDisk] < sum[maxFilledDisk] /\ maxFilledDisk # nextDisk
          /\ holeSize' = sum[maxFilledDisk] - sum'[nextDisk]
        BY <1>1, <1>4, <1>9, <1>12, <2>1, <2>3
    <2>5. \A d \in Disks : sum'[d] <= sliceSize
        <3>1. sum'[nextDisk] <= sliceSize
            BY <1>1, <1>9, <1>12, <2>4
        <3>2. QED
            BY <1>4, <1>9, <3>1
    <2>6. sliceSize' <= sliceSize
        BY <1>4, <2>5
    <2>7. maxFilledDisk' = maxFilledDisk /\ sum'[maxFilledDisk] = sum[maxFilledDisk]
        BY <1>4, <1>12, <2>4, <2>6
    <2>8. nextDisk' = nextDisk /\ ~fin'[nextDisk]
        BY <1>4, <1>6, <1>9, <2>2
    <2>9. diskInUse(nextDisk)'
        <3>1. cnt'[nextDisk] < MaxFiles
            <4>1. cnt'[nextDisk] \in Nat
                BY <1>1, <1>2 DEF Counted
            <4>2. QED
                BY <2>2, <4>1, MaxFilesAssumption
        <3>2. FilesSize(nextDisk)' > consumed'[nextDisk]
            BY <1>4, <1>9 DEF FilesSize
        <3>3. QED
            BY <2>8, <3>1, <3>2 DEF diskInUse
    <2>10. QED
        BY <2>4, <2>7, <2>8, <2>9
<1>17. FirstInv'
    <2>1. \A d \in Disks : FilesSize(d) > consumed[d] =>
              \A q \in Free(d) : \E p \in cur : p.disk = d /\ p.seq < q
        BY <1>1 DEF PlanInv, FirstInv, InSlice
    <2>2. \A d \in Disks : Free(d)' \subseteq Free(d) /\ FilesSize(d)' = FilesSize(d)
                           /\ consumed'[d] = consumed[d]
        BY <1>4, <1>8 DEF FilesSize
    <2>3. cur \subseteq cur'
        BY <1>4
    <2>4. QED
        BY <2>1, <2>2, <2>3 DEF FirstInv
<1>18. ASSUME NEW p \in cur
       PROVE  /\ p.disk \in Disks /\ p.seq \in DOMAIN size[p.disk]
              /\ size[p.disk][p.seq] \in Nat /\ size[p.disk][p.seq] <= sum[p.disk]
    <2>1. p.disk \in Disks /\ p.seq \in Planned(p.disk)
        BY <1>10 DEF GoodSlice, Position, Planned
    <2>2. Planned(p.disk) \in SUBSET DOMAIN size[p.disk]
        BY <1>1, <2>1, Typed
    <2>3. /\ size[p.disk][p.seq] \in Nat
          /\ size[p.disk][p.seq] <= Bytes(p.disk, Planned(p.disk))
        BY <1>1, <2>1, <2>2, RowsOf
    <2>4. QED
        BY <1>10, <2>1, <2>2, <2>3
<1>19. FinInv'
    <2>1. \A d \in Disks : fin[d] =>
              \A q \in Free(d) : \A p \in cur : size[d][q] > size[p.disk][p.seq] - sum[d]
        BY <1>1 DEF PlanInv, FinInv, InSlice
    <2>2. ASSUME NEW d \in Disks, fin'[d], NEW q \in Free(d)', NEW p \in cur'
          PROVE  size[d][q] > size[p.disk][p.seq] - sum'[d]
        <3>1. CASE d = nextDisk
            <4>1. wide /\ files = {} /\ \A r \in Free(nextDisk) : size[nextDisk][r] > holeSize
                BY <1>3, <1>6, <1>9, <2>2, <3>1
            <4>2. p \in cur /\ q \in Free(nextDisk)
                BY <1>4, <1>8, <1>11, <2>2, <3>1, <4>1
            <4>3. sum'[nextDisk] = sum[nextDisk]
                <5>1. Bytes(nextDisk, files) = 0
                    BY <4>1, SumEmpty DEF Bytes
                <5>2. QED
                    BY <1>1, <1>4, <1>12, <5>1
            <4>4. size[p.disk][p.seq] \in Nat /\ size[p.disk][p.seq] <= sliceSize
                BY <1>9, <1>12, <1>18, <4>2
            <4>5. size[nextDisk][q] > holeSize /\ size[nextDisk][q] \in Nat
                <5>1. q \in DOMAIN size[nextDisk]
                    BY <4>2 DEF Free
                <5>2. QED
                    BY <1>1, <4>1, <4>2, <5>1, Files
            <4>6. QED
                BY <1>1, <1>9, <1>12, <3>1, <4>3, <4>4, <4>5
        <3>2. CASE d # nextDisk
            <4>1. fin[d] /\ sum'[d] = sum[d] /\ q \in Free(d)
                BY <1>4, <1>6, <1>8, <2>2, <3>2
            <4>2. CASE p \in cur
                BY <2>1, <4>1, <4>2
            <4>3. CASE p \in new
                <5>1. p.disk = nextDisk /\ p.seq \in files /\ p.seq \in Free(nextDisk)
                      /\ p.seq \in DOMAIN size[nextDisk]
                    BY <1>4, <1>5, <1>11, <4>3
                <5>2. PICK o \in cur : o.disk = nextDisk /\ o.seq < p.seq
                    BY <1>1, <1>9, <5>1 DEF PlanInv, FirstInv, InSlice
                <5>3. o.seq \in DOMAIN size[nextDisk] /\ o.seq <= p.seq
                    <6>1. o.seq \in DOMAIN size[nextDisk]
                        BY <1>18, <5>2
                    <6>2. o.seq \in Nat /\ p.seq \in Nat
                        BY <1>1, <5>1, <6>1, Files
                    <6>3. QED
                        BY <5>2, <6>1, <6>2
                <5>4. size[nextDisk][p.seq] <= size[nextDisk][o.seq]
                    BY <1>1, <5>1, <5>3 DEF PlanInv, Descending
                <5>5. size[d][q] > size[nextDisk][o.seq] - sum[d]
                    BY <2>1, <4>1, <5>2
                <5>6. /\ size[nextDisk][p.seq] \in Nat /\ size[nextDisk][o.seq] \in Nat
                      /\ size[d][q] \in Nat
                    <6>1. q \in DOMAIN size[d]
                        BY <4>1 DEF Free
                    <6>2. QED
                        BY <1>1, <5>1, <5>3, <6>1, Files
                <5>7. QED
                    BY <1>12, <4>1, <5>1, <5>4, <5>5, <5>6
            <4>4. QED
                BY <1>4, <4>2, <4>3
        <3>3. QED
            BY <3>1, <3>2
    <2>3. size' = size
        BY <1>4
    <2>4. QED
        BY <2>2, <2>3 DEF FinInv
<1>20. TypeOK'
    <2>1. \A d \in Disks : marked'[d] \subseteq DOMAIN size'[d] /\ committed'[d] \subseteq marked'[d]
        <3>1. \A d \in Disks : marked[d] \subseteq DOMAIN size[d] /\ committed[d] \subseteq marked[d]
            BY <1>1 DEF TypeOK
        <3>2. QED
            BY <1>4, <1>5, <1>6, <3>1
    <2>2. cur' \subseteq Position
        BY <1>13 DEF GoodSlice
    <2>3. holeSize' \in Nat
        BY <1>3, <1>4
    <2>4. pc' \in {"start", "select", "fill", "done", "fatal"}
        BY <1>4
    <2>5. QED
        BY <1>1, <1>2, <1>4, <1>6, <2>1, <2>2, <2>3, <2>4 DEF TypeOK, Counted
<1>21. Descending' /\ StartInv' /\ FatalForEmptyOnly'
    BY <1>4 DEF PlanInv, Descending, StartInv, FatalForEmptyOnly
<1>22. ConsumedInv'
    BY <1>4 DEF PlanInv, ConsumedInv, Bytes
<1>23. FilesLimit'
    BY <1>4, LimitOf DEF PlanInv
<1>24. MarkedStep
    BY <1>4 DEF MarkedStep
<1>25. QED
    BY <1>14, <1>15, <1>16, <1>17, <1>19, <1>20, <1>21, <1>22, <1>23, <1>24 DEF PlanInv

----------------------------------------------------------------------------
(* The theorems.                                                           *)

LEMMA PlanStep == ASSUME PlanInv, [Next]_vars PROVE PlanInv' /\ MarkedStep
<1>1. CASE startSlice
    BY <1>1, StartSliceStep
<1>2. CASE soloSlice
    BY <1>2, SoloSliceStep
<1>3. CASE noSlice
    BY <1>3, NoSliceStep
<1>4. CASE addFile2slice
    BY <1>4, AddFileStep
<1>5. CASE sliceReady
    BY <1>5, SliceReadyStep
<1>6. CASE fillHole
    BY <1>6, FillHoleStep
<1>7. CASE cancelRequest
    BY <1>7, CancelStep
<1>8. CASE UNCHANGED vars
    <2>1. /\ size' = size /\ marked' = marked /\ committed' = committed /\ pc' = pc /\ cur' = cur
          /\ sum' = sum /\ cnt' = cnt /\ fin' = fin /\ sliceSize' = sliceSize
          /\ maxFilledDisk' = maxFilledDisk /\ consumed' = consumed /\ nextDisk' = nextDisk
          /\ holeSize' = holeSize /\ slices' = slices
        BY <1>8 DEF vars
    <2>2. TypeOK' /\ Descending' /\ StartInv'
        BY <2>1 DEF PlanInv, TypeOK, Descending, StartInv
    <2>3. SliceInv'
        BY <2>1 DEF PlanInv, SliceInv, GoodSlice, Planned, Bytes
    <2>4. ConsumedInv'
        BY <2>1 DEF PlanInv, ConsumedInv, Bytes
    <2>5. LeadInv'
        BY <2>1 DEF PlanInv, LeadInv, InSlice
    <2>6. HoleInv'
        BY <2>1 DEF PlanInv, HoleInv, diskInUse, FilesSize
    <2>7. FirstInv'
        BY <2>1 DEF PlanInv, FirstInv, InSlice, Free, FilesSize
    <2>8. FinInv'
        BY <2>1 DEF PlanInv, FinInv, InSlice, Free
    <2>9. FilesLimit'
        BY <2>1, LimitOf DEF PlanInv
    <2>10. FatalForEmptyOnly'
        BY <2>1 DEF PlanInv, FatalForEmptyOnly, Free
    <2>11. QED
        BY <2>1, <2>2, <2>3, <2>4, <2>5, <2>6, <2>7, <2>8, <2>9, <2>10 DEF PlanInv, MarkedStep
<1>9. QED
    BY <1>1, <1>2, <1>3, <1>4, <1>5, <1>6, <1>7, <1>8 DEF Next, CreateSlices

\* The statistics of a slice are those of its rows, and nothing is consumed twice: the
\* inductive invariant of createSlices (planer.cpp:131-155 and the loop that calls it).
THEOREM PlanInvariant == Spec => []PlanInv
<1>1. Init => PlanInv
    BY PlanInit
<1>2. PlanInv /\ [Next]_vars => PlanInv'
    BY PlanStep
<1>3. QED
    BY <1>1, <1>2, PTL DEF Spec

\* The variables have their types.
THEOREM TypeCorrect == Spec => []TypeOK
<1>1. PlanInv => TypeOK
    BY DEF PlanInv
<1>2. QED
    BY <1>1, PlanInvariant, PTL

\* No disk has more files in a slice than its limit, or the limit and two in a slice of one
\* disk: the chunks of fillHole count the files they add, and the rest of insert2slice stops
\* one file late (planer.cpp:184).
THEOREM FilesLimitHolds == Spec => []FilesLimit
<1>1. PlanInv => FilesLimit
    BY DEF PlanInv
<1>2. QED
    BY <1>1, PlanInvariant, PTL

\* "Program BUG" and "Incorrect sum" (planer.cpp:150 and 189) never fire, and "Not processed
\* files" only when empty files are left.
THEOREM FatalForEmptyOnlyHolds == Spec => []FatalForEmptyOnly
<1>1. PlanInv => FatalForEmptyOnly
    BY DEF PlanInv
<1>2. QED
    BY <1>1, PlanInvariant, PTL

\* A file leaves the list of files to plan in the transaction that commits the slice holding
\* it, and that slice holds it once.
THEOREM MarkedWithSliceHolds == Spec => MarkedWithSlice
<1>1. PlanInv /\ [Next]_vars => [MarkedStep]_vars
    BY PlanStep
<1>2. QED
    BY <1>1, PlanInvariant, PTL DEF Spec, MarkedWithSlice, MarkedStep

LEMMA NothingLeft ==
    ASSUME PlanInv, noSlice PROVE \A d \in Disks : Bytes(d, Free(d)) = 0
<1>1. pc = "start" /\ Active = {}
    BY DEF noSlice
<1>2. ASSUME NEW d \in Disks PROVE Bytes(d, Free(d)) = 0
    <2>1. Firsts[d] \in SUBSET DOMAIN size[d] /\ Sized
        BY <1>1, FirstsOf, Typed DEF PlanInv
    <2>2. Bytes(d, Firsts[d]) \in Nat
        BY <2>1, RowsOf
    <2>3. ~ (Bytes(d, Firsts[d]) > 0)
        BY <1>1 DEF Active
    <2>4. Bytes(d, Firsts[d]) = 0
        BY <2>2, <2>3
    <2>5. QED
        BY <1>1, <2>4, FirstsOf
<1>3. QED
    BY <1>2

\* Planning ends by itself only when no file with data is left: consumedSize is never ahead
\* of the rows committed, so a disk is out of use only when its files are planned.
THEOREM AllPlannedHolds == Spec => AllPlanned
<1>1. PlanInv /\ [Next]_vars => [noSlice => \A d \in Disks : Bytes(d, Free(d)) = 0]_vars
    BY NothingLeft
<1>2. QED
    BY <1>1, PlanInvariant, PTL DEF Spec, AllPlanned

LEMMA LargestBounded ==
    ASSUME NEW S \in SUBSET Nat, S # {}, NEW n \in Nat, \A x \in S : x <= n
    PROVE  largest(S) \in S /\ \A x \in S : x <= largest(S)
<1> DEFINE above == {m \in Nat : \A x \in S : x <= m}
<1>1. PICK m \in above : \A k \in above : m <= k
    <2>1. n \in above
        OBVIOUS
    <2>2. QED
        BY <2>1, LeastNat
<1>2. m \in Nat /\ \A x \in S : x \in Nat /\ x <= m
    BY <1>1
<1>3. m \in S
    <2>1. SUFFICES ASSUME m \notin S PROVE FALSE
        OBVIOUS
    <2>2. \A x \in S : x <= m - 1
        BY <1>2, <2>1
    <2>3. m - 1 \in Nat
        <3>1. PICK x \in S : TRUE
            OBVIOUS
        <3>2. x \in Nat /\ m \in Nat /\ x <= m - 1
            BY <1>2, <2>2, <3>1
        <3>3. QED
            BY <3>2
    <2>4. m - 1 \in above
        BY <2>2, <2>3
    <2>5. QED
        BY <1>1, <1>2, <2>4
<1>4. \A x \in S : m >= x
    BY <1>2
<1>5. largest(S) \in S /\ \A y \in S : largest(S) >= y
    BY <1>3, <1>4 DEF largest
<1>6. QED
    BY <1>2, <1>5

\* What FilledToLargest says of a committed slice
FilledStep ==
    sliceReady =>
        LET largestFile == largest({size[p.disk][p.seq] : p \in cur}) IN
        \A d \in Disks : Lag(d) > 0 =>
            \/ cnt[d] >= MaxFiles
            \/ \A q \in Free(d) : size[d][q] \notin 1..(largestFile - sum[d])

LEMMA Filled == ASSUME PlanInv PROVE FilledStep
<1> SUFFICES ASSUME sliceReady PROVE FilledStep
    BY DEF FilledStep
<1>1. pc = "select" /\ Lagging = {}
    BY DEF sliceReady
<1>2. TypeOK /\ Sized
    BY Typed DEF PlanInv
<1> DEFINE sizes == {size[p.disk][p.seq] : p \in cur}
<1>3. ASSUME NEW p \in cur
      PROVE  /\ p.disk \in Disks /\ size[p.disk][p.seq] \in Nat
             /\ size[p.disk][p.seq] <= sliceSize
    <2>1. p.disk \in Disks /\ p.seq \in Planned(p.disk)
        BY <1>1 DEF PlanInv, SliceInv, GoodSlice, Position, Planned
    <2>2. Planned(p.disk) \in SUBSET DOMAIN size[p.disk]
        BY <1>2, <2>1, Typed
    <2>3. /\ size[p.disk][p.seq] \in Nat /\ Bytes(p.disk, Planned(p.disk)) \in Nat
          /\ size[p.disk][p.seq] <= Bytes(p.disk, Planned(p.disk))
        BY <1>2, <2>1, <2>2, RowsOf
    <2>4. Bytes(p.disk, Planned(p.disk)) <= sliceSize
        BY <1>1, <2>1 DEF PlanInv, SliceInv, LeadInv, InSlice
    <2>5. sliceSize \in Nat
        BY <1>2 DEF TypeOK
    <2>6. size[p.disk][p.seq] <= sliceSize
        BY <2>3, <2>4, <2>5
    <2>7. QED
        BY <2>1, <2>3, <2>6
<1>4. PICK p \in cur : largest(sizes) = size[p.disk][p.seq]
    <2>1. sizes \in SUBSET Nat /\ \A x \in sizes : x <= sliceSize
        BY <1>3
    <2>2. sizes # {}
        BY <1>1 DEF PlanInv, LeadInv, InSlice
    <2>3. sliceSize \in Nat
        BY <1>2 DEF TypeOK
    <2>4. largest(sizes) \in sizes
        BY <2>1, <2>2, <2>3, LargestBounded
    <2>5. QED
        BY <2>4
<1>5. ASSUME NEW d \in Disks, Lag(d) > 0, ~ (cnt[d] >= MaxFiles), NEW q \in Free(d)
      PROVE  size[d][q] \notin 1..(size[p.disk][p.seq] - sum[d])
    <2>1. /\ Free(d) \in SUBSET DOMAIN size[d] /\ marked[d] \in SUBSET DOMAIN size[d]
          /\ committed[d] \in SUBSET DOMAIN size[d] /\ committed[d] \in SUBSET marked[d]
          /\ cnt[d] \in Nat /\ sum[d] \in Nat /\ consumed[d] \in Nat /\ fin[d] \in BOOLEAN
        BY <1>2, Typed
    <2>2. size[d][q] \in Nat /\ size[p.disk][p.seq] \in Nat
        BY <1>2, <1>3, <2>1, Files
    <2>3. ~Usable(d)
        BY <1>1, <1>5 DEF Lagging
    <2>4. fin[d] \/ ~ (FilesSize(d) > consumed[d])
        BY <1>5, <2>1, <2>3, MaxFilesAssumption DEF Usable, diskInUse
    <2>5. CASE fin[d]
        <3>1. size[d][q] > size[p.disk][p.seq] - sum[d]
            BY <1>1, <2>5 DEF PlanInv, FinInv, InSlice
        <3>2. QED
            BY <2>1, <2>2, <3>1
    <2>6. CASE ~ (FilesSize(d) > consumed[d])
        <3>1. FilesSize(d) = Bytes(d, marked[d]) + Bytes(d, Free(d))
            BY <1>2, <2>1, AllRows
        <3>2. /\ Bytes(d, marked[d]) \in Nat /\ Bytes(d, Free(d)) \in Nat
              /\ Bytes(d, committed[d]) \in Nat
              /\ Bytes(d, marked[d]) = Bytes(d, committed[d]) + Bytes(d, marked[d] \ committed[d])
              /\ Bytes(d, marked[d] \ committed[d]) \in Nat
            BY <1>2, <2>1, RowsBound, RowsOf
        <3>3. consumed[d] <= Bytes(d, committed[d])
            BY DEF PlanInv, ConsumedInv
        <3>4. Bytes(d, Free(d)) = 0
            BY <2>1, <2>6, <3>1, <3>2, <3>3
        <3>5. size[d][q] = 0
            BY <1>2, <2>1, <3>4, RowsOf
        <3>6. QED
            BY <3>5
    <2>7. QED
        BY <2>4, <2>5, <2>6
<1>6. QED
    BY <1>4, <1>5 DEF FilledStep

\* A disk is left behind the largest file of a slice only at its limit of files or when its
\* free files with data would pass that file: a disk finished early has no file that fits,
\* and later files of the slice are no larger than those it already has.
THEOREM FilledToLargestHolds == Spec => FilledToLargest
<1>1. PlanInv /\ [Next]_vars => [FilledStep]_vars
    BY Filled
<1>2. QED
    BY <1>1, PlanInvariant, PTL DEF Spec, FilledToLargest, FilledStep
=============================================================================

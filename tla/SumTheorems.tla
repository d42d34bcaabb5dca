---------------------------- MODULE SumTheorems ----------------------------
(***************************************************************************)
(* Facts about SumFunctionOnSet and SumFunction, by which the modules add  *)
(* up file sizes.  Induction is over a set Good of what is to be shown: it *)
(* holds everything, or there is a smallest thing it does not hold.        *)
(***************************************************************************)
EXTENDS Integers, Sequences, FiniteSets, Functions, FiniteSetTheorems, WellFoundedInduction, TLAPS

\* A set of numbers has a least one.
LEMMA LeastNat ==
    ASSUME NEW T \in SUBSET Nat, T # {} PROVE \E x \in T : \A y \in T : x <= y
<1> DEFINE R == {ss \in Nat \X Nat : ss[1] < ss[2]}
<1>1. IsWellFoundedOn(R, Nat)
    BY NatLessThanWellFounded DEF OpToRel
<1> HIDE DEF R
<1>2. PICK x \in T : \A y \in T : ~ (<<y, x>> \in R)
    BY <1>1, WFMin
<1>3. ASSUME NEW y \in T PROVE x <= y
    <2>1. <<y, x>> \notin R
        BY <1>2
    <2>2. x \in Nat /\ y \in Nat
        OBVIOUS
    <2>3. ~(y < x)
        BY <2>1, <2>2 DEF R
    <2>4. QED
        BY <2>2, <2>3
<1>4. QED
    BY <1>3

\* Induction on numbers.
LEMMA NatInduct ==
    ASSUME NEW Good, 0 \in Good, \A n \in Nat : n \in Good => n + 1 \in Good
    PROVE  Nat \subseteq Good
<1> DEFINE Bad == {n \in Nat : n \notin Good}
<1>1. CASE Bad = {}
    BY <1>1
<1>2. CASE Bad # {}
    <2>1. PICK n \in Bad : \A m \in Bad : n <= m
        BY <1>2, LeastNat
    <2>2. n \in Nat /\ n # 0
        OBVIOUS
    <2>3. n - 1 \in Nat /\ n - 1 \notin Bad
        BY <2>1, <2>2
    <2>4. (n - 1) + 1 \in Good
        BY <2>3
    <2>5. QED
        BY <2>2, <2>4
<1>3. QED
    BY <1>1, <1>2

\* Induction on the subsets of a finite set.
LEMMA SubsetInduct ==
    ASSUME NEW S, IsFiniteSet(S), NEW Good, {} \in Good,
           \A s \in SUBSET S : s # {} /\ (\A x \in s : s \ {x} \in Good) => s \in Good
    PROVE  SUBSET S \subseteq Good
<1> DEFINE Small == {n \in Nat : \A s \in SUBSET S : Cardinality(s) = n => s \in Good}
<1>1. \A s \in SUBSET S : IsFiniteSet(s) /\ Cardinality(s) \in Nat
    BY FS_Subset, FS_CardinalityType
<1>2. 0 \in Small
    BY <1>1, FS_EmptySet
<1>3. ASSUME NEW n \in Nat, n \in Small PROVE n + 1 \in Small
    <2> SUFFICES ASSUME NEW s \in SUBSET S, Cardinality(s) = n + 1 PROVE s \in Good
        OBVIOUS
    <2>1. s # {}
        <3>1. Cardinality({}) # n + 1
            BY FS_EmptySet
        <3>2. QED
            BY <3>1
    <2>2. ASSUME NEW x \in s PROVE s \ {x} \in Good
        <3>1. Cardinality(s \ {x}) = n
            BY <1>1, FS_RemoveElement
        <3>2. QED
            BY <1>3, <3>1
    <2>3. QED
        BY <2>1, <2>2
<1> HIDE DEF Small
<1>4. Nat \subseteq Small
    BY <1>2, <1>3, NatInduct
<1>5. QED
    BY <1>1, <1>4 DEF Small

----------------------------------------------------------------------------
(* The sum is what its recursive definition says.                          *)

someOf(s) == CHOOSE x \in s : TRUE

Step(F, g, s) == IF s = {} THEN 0 ELSE F[someOf(s)] + g[s \ {someOf(s)}]

Unfolds(F, S, g) == g = [s \in SUBSET S |-> Step(F, g, s)]

LEMMA SumIsChosen ==
    ASSUME NEW F, NEW S
    PROVE  SumFunctionOnSet(F, S) = (CHOOSE g : Unfolds(F, S, g))[S]
BY DEF SumFunctionOnSet, FoldFunctionOnSet, MapThenFoldSet, Unfolds, Step, someOf

LEMMA SomeOf == ASSUME NEW s, s # {} PROVE someOf(s) \in s
BY DEF someOf

LEMMA UnfoldingExists ==
    ASSUME NEW F, NEW S, IsFiniteSet(S) PROVE \E g : Unfolds(F, S, g)
<1> DEFINE Good == {n \in Nat : \E g : \A s \in SUBSET S :
                                    Cardinality(s) <= n => g[s] = Step(F, g, s)}
<1>1. \A s \in SUBSET S : IsFiniteSet(s) /\ Cardinality(s) \in Nat
    BY FS_Subset, FS_CardinalityType
<1>2. 0 \in Good
    <2> DEFINE g == [s \in SUBSET S |-> 0]
    <2>1. \A s \in SUBSET S : Cardinality(s) <= 0 => s = {}
        BY <1>1, FS_EmptySet
    <2>2. \A s \in SUBSET S : Cardinality(s) <= 0 => g[s] = Step(F, g, s)
        BY <2>1 DEF Step
    <2>3. QED
        BY <2>2
<1>3. ASSUME NEW n \in Nat, n \in Good PROVE n + 1 \in Good
    <2>1. PICK h : \A s \in SUBSET S : Cardinality(s) <= n => h[s] = Step(F, h, s)
        BY <1>3
    <2> DEFINE g == [s \in SUBSET S |-> IF Cardinality(s) <= n THEN h[s] ELSE Step(F, h, s)]
    <2>2. ASSUME NEW s \in SUBSET S, Cardinality(s) <= n + 1 PROVE g[s] = Step(F, g, s)
        <3>1. CASE s = {}
            BY <2>1, <3>1 DEF Step
        <3>2. CASE s # {}
            <4> DEFINE t == s \ {someOf(s)}
            <4>1. t \in SUBSET S /\ Cardinality(t) <= n
                BY <1>1, <2>2, <3>2, SomeOf, FS_RemoveElement
            <4>2. g[t] = h[t]
                BY <4>1
            <4>3. g[s] = Step(F, h, s)
                BY <2>1
            <4>4. QED
                BY <3>2, <4>2, <4>3 DEF Step
        <3>3. QED
            BY <3>1, <3>2
    <2> HIDE DEF g
    <2>3. QED
        BY <2>2
<1> HIDE DEF Good
<1>4. Cardinality(S) \in Good
    BY <1>1, <1>2, <1>3, NatInduct
<1>5. PICK h : \A s \in SUBSET S : Cardinality(s) <= Cardinality(S) => h[s] = Step(F, h, s)
    BY <1>4 DEF Good
<1>6. \A s \in SUBSET S : h[s] = Step(F, h, s)
    BY <1>5, FS_Subset
<1> DEFINE g == [s \in SUBSET S |-> h[s]]
<1>7. ASSUME NEW s \in SUBSET S PROVE Step(F, h, s) = Step(F, g, s)
    <2>1. s # {} => s \ {someOf(s)} \in SUBSET S
        OBVIOUS
    <2>2. QED
        BY <2>1 DEF Step
<1>8. Unfolds(F, S, g)
    BY <1>6, <1>7 DEF Unfolds
<1>9. QED
    BY <1>8

LEMMA UnfoldingsAgree ==
    ASSUME NEW F, NEW S, IsFiniteSet(S), NEW g, NEW T \in SUBSET S, NEW h,
           Unfolds(F, S, g), Unfolds(F, T, h)
    PROVE  g[T] = h[T]
<1> DEFINE Good == {s \in SUBSET T : g[s] = h[s]}
<1>1. \A s \in SUBSET T : g[s] = Step(F, g, s) /\ h[s] = Step(F, h, s)
    BY DEF Unfolds
<1>2. IsFiniteSet(T)
    BY FS_Subset
<1>3. {} \in Good
    BY <1>1 DEF Step
<1>4. ASSUME NEW s \in SUBSET T, s # {}, \A x \in s : s \ {x} \in Good PROVE s \in Good
    BY <1>1, <1>4, SomeOf DEF Step
<1> HIDE DEF Good
<1>5. SUBSET T \subseteq Good
    BY <1>2, <1>3, <1>4, SubsetInduct
<1>6. QED
    BY <1>5 DEF Good

\* What the definition says: no element, or some element and the sum of the others.
LEMMA SumUnfold ==
    ASSUME NEW F, NEW S, IsFiniteSet(S)
    PROVE  SumFunctionOnSet(F, S) =
               IF S = {} THEN 0
               ELSE F[someOf(S)] + SumFunctionOnSet(F, S \ {someOf(S)})
<1> DEFINE Chosen(T) == CHOOSE g : Unfolds(F, T, g)
<1>1. ASSUME NEW T \in SUBSET S PROVE Unfolds(F, T, Chosen(T))
    BY UnfoldingExists, FS_Subset
<1>2. ASSUME NEW T \in SUBSET S PROVE SumFunctionOnSet(F, T) = Chosen(S)[T]
    <2>1. Unfolds(F, T, Chosen(T)) /\ Unfolds(F, S, Chosen(S))
        BY <1>1
    <2> HIDE DEF Chosen
    <2>2. Chosen(S)[T] = Chosen(T)[T]
        BY <2>1, UnfoldingsAgree
    <2>3. QED
        BY <2>2, SumIsChosen DEF Chosen
<1>3. Unfolds(F, S, Chosen(S))
    BY <1>1
<1> HIDE DEF Chosen
<1>4. Chosen(S)[S] = Step(F, Chosen(S), S)
    BY <1>3 DEF Unfolds
<1>5. CASE S = {}
    BY <1>2, <1>4, <1>5 DEF Step
<1>6. CASE S # {}
    BY <1>2, <1>4, <1>6 DEF Step
<1>7. QED
    BY <1>5, <1>6

----------------------------------------------------------------------------
(* Sums of natural numbers.                                                *)

LEMMA SumEmpty == \A F : SumFunctionOnSet(F, {}) = 0
BY SumUnfold, FS_EmptySet

LEMMA SumType ==
    ASSUME NEW F, NEW S, IsFiniteSet(S), \A x \in S : F[x] \in Nat
    PROVE  SumFunctionOnSet(F, S) \in Nat
<1> DEFINE Good == {s \in SUBSET S : SumFunctionOnSet(F, s) \in Nat}
<1>1. \A s \in SUBSET S : IsFiniteSet(s)
    BY FS_Subset
<1>2. {} \in Good
    BY SumEmpty
<1>3. ASSUME NEW s \in SUBSET S, s # {}, \A x \in s : s \ {x} \in Good PROVE s \in Good
    <2>1. someOf(s) \in s
        BY <1>3, SomeOf
    <2>2. F[someOf(s)] \in Nat /\ SumFunctionOnSet(F, s \ {someOf(s)}) \in Nat
        BY <1>3, <2>1
    <2>3. SumFunctionOnSet(F, s) = F[someOf(s)] + SumFunctionOnSet(F, s \ {someOf(s)})
        BY <1>1, <1>3, SumUnfold
    <2>4. QED
        BY <2>2, <2>3
<1> HIDE DEF Good
<1>4. SUBSET S \subseteq Good
    BY <1>2, <1>3, SubsetInduct
<1>5. QED
    BY <1>4 DEF Good

\* Whichever element is taken out.
LEMMA SumRemove ==
    ASSUME NEW F, NEW S, IsFiniteSet(S), \A x \in S : F[x] \in Nat, NEW e \in S
    PROVE  SumFunctionOnSet(F, S) = F[e] + SumFunctionOnSet(F, S \ {e})
<1> DEFINE Sum(s) == SumFunctionOnSet(F, s)
           Good == {s \in SUBSET S : \A x \in s : Sum(s) = F[x] + Sum(s \ {x})}
<1>1. \A s \in SUBSET S : IsFiniteSet(s) /\ Sum(s) \in Nat
    BY FS_Subset, SumType
<1>2. {} \in Good
    OBVIOUS
<1>3. ASSUME NEW s \in SUBSET S, s # {}, \A x \in s : s \ {x} \in Good PROVE s \in Good
    <2> SUFFICES ASSUME NEW x \in s PROVE Sum(s) = F[x] + Sum(s \ {x})
        OBVIOUS
    <2> DEFINE c == someOf(s)
               rest == (s \ {c}) \ {x}
    <2>1. c \in s /\ Sum(s) = F[c] + Sum(s \ {c})
        BY <1>1, <1>3, SomeOf, SumUnfold
    <2> HIDE DEF c, Sum
    <2>2. CASE x = c
        BY <2>1, <2>2
    <2>3. CASE x # c
        <3>1. Sum(s \ {c}) = F[x] + Sum(rest)
            BY <1>3, <2>1, <2>3
        <3>2. (s \ {x}) \ {c} = rest
            OBVIOUS
        <3>3. Sum(s \ {x}) = F[c] + Sum(rest)
            BY <1>3, <2>1, <2>3, <3>2
        <3>4. F[x] \in Nat /\ F[c] \in Nat /\ Sum(rest) \in Nat
            BY <1>1, <2>1
        <3>5. QED
            BY <2>1, <3>1, <3>3, <3>4
    <2>4. QED
        BY <2>2, <2>3
<1> HIDE DEF Good
<1>4. SUBSET S \subseteq Good
    BY <1>2, <1>3, SubsetInduct
<1>5. QED
    BY <1>4 DEF Good

LEMMA SumAdd ==
    ASSUME NEW F, NEW S, IsFiniteSet(S), NEW e, e \notin S,
           F[e] \in Nat, \A x \in S : F[x] \in Nat
    PROVE  SumFunctionOnSet(F, S \cup {e}) = SumFunctionOnSet(F, S) + F[e]
<1>1. IsFiniteSet(S \cup {e}) /\ (S \cup {e}) \ {e} = S
    BY FS_AddElement
<1>2. SumFunctionOnSet(F, S \cup {e}) = F[e] + SumFunctionOnSet(F, S)
    BY <1>1, SumRemove
<1>3. QED
    BY <1>2, SumType

\* Sets that have nothing in common.
LEMMA SumUnion ==
    ASSUME NEW F, NEW S, IsFiniteSet(S), NEW T, IsFiniteSet(T), S \cap T = {},
           \A x \in S \cup T : F[x] \in Nat
    PROVE  SumFunctionOnSet(F, S \cup T) = SumFunctionOnSet(F, S) + SumFunctionOnSet(F, T)
<1> DEFINE Sum(s) == SumFunctionOnSet(F, s)
           Good == {t \in SUBSET T : Sum(S \cup t) = Sum(S) + Sum(t)}
<1>1. \A t \in SUBSET T : IsFiniteSet(t) /\ IsFiniteSet(S \cup t)
    BY FS_Subset, FS_Union
<1>2. Sum(S) \in Nat /\ \A t \in SUBSET T : Sum(t) \in Nat
    BY <1>1, SumType
<1>3. {} \in Good
    <2>1. S \cup {} = S /\ Sum({}) = 0
        BY SumEmpty
    <2>2. QED
        BY <1>2, <2>1
<1>4. ASSUME NEW t \in SUBSET T, t # {}, \A x \in t : t \ {x} \in Good PROVE t \in Good
    <2>1. PICK x \in t : TRUE
        BY <1>4
    <2>2. Sum(t) = F[x] + Sum(t \ {x})
        <3>1. IsFiniteSet(t) /\ \A y \in t : F[y] \in Nat
            BY <1>1
        <3>2. SumFunctionOnSet(F, t) = F[x] + SumFunctionOnSet(F, t \ {x})
            BY <3>1, SumRemove
        <3>3. QED
            BY <3>2
    <2>3. Sum(S \cup t) = F[x] + Sum((S \cup t) \ {x})
        BY <1>1, SumRemove
    <2>4. (S \cup t) \ {x} = S \cup (t \ {x})
        OBVIOUS
    <2>5. Sum(S \cup (t \ {x})) = Sum(S) + Sum(t \ {x})
        BY <1>4
    <2>6. F[x] \in Nat /\ Sum(t \ {x}) \in Nat
        BY <1>2
    <2> HIDE DEF Sum
    <2>7. QED
        BY <1>2, <2>2, <2>3, <2>4, <2>5, <2>6
<1> HIDE DEF Good
<1>5. SUBSET T \subseteq Good
    BY <1>3, <1>4, SubsetInduct
<1>6. QED
    BY <1>5 DEF Good

LEMMA SumSubset ==
    ASSUME NEW F, NEW S, IsFiniteSet(S), \A x \in S : F[x] \in Nat, NEW T \in SUBSET S
    PROVE  /\ SumFunctionOnSet(F, T) \in Nat
           /\ SumFunctionOnSet(F, S) = SumFunctionOnSet(F, T) + SumFunctionOnSet(F, S \ T)
           /\ SumFunctionOnSet(F, T) <= SumFunctionOnSet(F, S)
<1>1. IsFiniteSet(T) /\ IsFiniteSet(S \ T)
    BY FS_Subset
<1>2. SumFunctionOnSet(F, T) \in Nat /\ SumFunctionOnSet(F, S \ T) \in Nat
    BY <1>1, SumType
<1>3. T \cup (S \ T) = S
    OBVIOUS
<1>4. SumFunctionOnSet(F, S) = SumFunctionOnSet(F, T) + SumFunctionOnSet(F, S \ T)
    BY <1>1, <1>3, SumUnion
<1>5. QED
    BY <1>2, <1>4

\* The sum is 0 only if everything added is.
LEMMA SumZero ==
    ASSUME NEW F, NEW S, IsFiniteSet(S), \A x \in S : F[x] \in Nat
    PROVE  SumFunctionOnSet(F, S) = 0 <=> \A x \in S : F[x] = 0
<1> DEFINE Sum(s) == SumFunctionOnSet(F, s)
<1>1. ASSUME Sum(S) = 0, NEW x \in S PROVE F[x] = 0
    <2>1. Sum(S) = F[x] + Sum(S \ {x})
        BY SumRemove
    <2>2. Sum(S \ {x}) \in Nat
        BY SumSubset
    <2> HIDE DEF Sum
    <2>3. QED
        BY <1>1, <2>1, <2>2
<1>2. ASSUME \A x \in S : F[x] = 0 PROVE Sum(S) = 0
    <2>1. CASE S = {}
        BY <2>1, SumEmpty
    <2>2. CASE S # {}
        <3> DEFINE Good == {s \in SUBSET S : Sum(s) = 0}
        <3>1. {} \in Good
            BY SumEmpty
        <3>2. ASSUME NEW s \in SUBSET S, s # {}, \A x \in s : s \ {x} \in Good
              PROVE  s \in Good
            <4>1. PICK x \in s : TRUE
                BY <3>2
            <4>2. Sum(s) = F[x] + Sum(s \ {x})
                BY FS_Subset, SumRemove
            <4>3. Sum(s \ {x}) = 0 /\ F[x] = 0
                BY <1>2, <3>2
            <4>4. QED
                BY <4>2, <4>3
        <3> HIDE DEF Good
        <3>3. SUBSET S \subseteq Good
            BY <3>1, <3>2, SubsetInduct
        <3>4. QED
            BY <3>3 DEF Good
    <2>3. QED
        BY <2>1, <2>2
<1>3. QED
    BY <1>1, <1>2

----------------------------------------------------------------------------
(* Sums over the start of a sequence.                                      *)

LEMMA SumOfFirst ==
    ASSUME NEW F, NEW n \in Nat, \A i \in 1..n : F[i] \in Nat, NEW k \in 0..n
    PROVE  /\ SumFunctionOnSet(F, 1..k) \in Nat
           /\ SumFunctionOnSet(F, 1..k) <= SumFunctionOnSet(F, 1..n)
           /\ k < n => SumFunctionOnSet(F, 1..(k + 1)) = SumFunctionOnSet(F, 1..k) + F[k + 1]
<1>1. IsFiniteSet(1..n) /\ IsFiniteSet(1..k)
    BY FS_Interval
<1>2. 1..k \in SUBSET (1..n)
    OBVIOUS
<1>3. SumFunctionOnSet(F, 1..k) \in Nat
      /\ SumFunctionOnSet(F, 1..k) <= SumFunctionOnSet(F, 1..n)
    BY <1>1, <1>2, SumSubset
<1>4. ASSUME k < n
      PROVE SumFunctionOnSet(F, 1..(k + 1)) = SumFunctionOnSet(F, 1..k) + F[k + 1]
    <2>1. 1..(k + 1) = (1..k) \cup {k + 1} /\ k + 1 \notin 1..k
        OBVIOUS
    <2>2. F[k + 1] \in Nat /\ \A i \in 1..k : F[i] \in Nat
        BY <1>4
    <2> DEFINE first == 1..k
               e == k + 1
    <2>3. SumFunctionOnSet(F, first \cup {e}) = SumFunctionOnSet(F, first) + F[e]
        <3>1. IsFiniteSet(first) /\ e \notin first /\ F[e] \in Nat /\ \A i \in first : F[i] \in Nat
            BY <1>1, <2>1, <2>2
        <3> HIDE DEF first, e
        <3>2. QED
            BY <3>1, SumAdd
    <2>4. QED
        BY <2>1, <2>3
<1>5. QED
    BY <1>3, <1>4

LEMMA SumOfStart ==
    ASSUME NEW s \in Seq(Nat), NEW k \in 0..Len(s)
    PROVE  /\ SumFunctionOnSet(s, 1..k) \in Nat
           /\ SumFunctionOnSet(s, 1..k) <= SumFunction(s)
           /\ k < Len(s) => SumFunctionOnSet(s, 1..(k + 1)) = SumFunctionOnSet(s, 1..k) + s[k + 1]
           /\ k = Len(s) => SumFunctionOnSet(s, 1..k) = SumFunction(s)
<1>1. DOMAIN s = 1..Len(s) /\ Len(s) \in Nat /\ \A i \in 1..Len(s) : s[i] \in Nat
    OBVIOUS
<1>2. SumFunction(s) = SumFunctionOnSet(s, 1..Len(s))
    BY <1>1 DEF SumFunction
<1>3. QED
    BY <1>1, <1>2, SumOfFirst

\* Behind a 0 in a descending sequence nothing is added.
LEMMA SumOfZeros ==
    ASSUME NEW F, NEW n \in Nat, \A i \in 1..n : F[i] \in Nat, NEW k \in 0..n,
           \A i \in (1..n) \ (1..k) : F[i] = 0
    PROVE  SumFunctionOnSet(F, 1..k) = SumFunctionOnSet(F, 1..n)
<1> DEFINE all == 1..n
           first == 1..k
           rest == all \ first
<1>1. IsFiniteSet(all) /\ first \in SUBSET all /\ \A i \in all : F[i] \in Nat
    BY FS_Interval
<1>2. IsFiniteSet(rest) /\ \A i \in rest : F[i] = 0 /\ F[i] \in Nat
    BY <1>1, FS_Subset
<1> HIDE DEF all, first
<1>3. SumFunctionOnSet(F, rest) = 0
    BY <1>2, SumZero
<1>4. /\ SumFunctionOnSet(F, first) \in Nat
      /\ SumFunctionOnSet(F, all) = SumFunctionOnSet(F, first) + SumFunctionOnSet(F, rest)
    BY <1>1, SumSubset
<1>5. SumFunctionOnSet(F, first) = SumFunctionOnSet(F, all)
    BY <1>3, <1>4
<1>6. QED
    BY <1>5 DEF all, first

LEMMA SumOfRest ==
    ASSUME NEW s \in Seq(Nat), NEW k \in 1..Len(s), s[k] = 0,
           \A i \in 1..Len(s) : \A j \in i..Len(s) : s[j] <= s[i]
    PROVE  SumFunctionOnSet(s, 1..k) = SumFunction(s)
<1>1. DOMAIN s = 1..Len(s) /\ Len(s) \in Nat /\ \A i \in 1..Len(s) : s[i] \in Nat
    OBVIOUS
<1>2. SumFunction(s) = SumFunctionOnSet(s, 1..Len(s))
    BY <1>1 DEF SumFunction
<1>3. \A i \in (1..Len(s)) \ (1..k) : s[i] = 0
    BY <1>1
<1>4. k \in 0..Len(s)
    BY <1>1
<1>5. QED
    BY <1>1, <1>2, <1>3, <1>4, SumOfZeros

\* Finitely many numbers have a largest.
LEMMA LargestOf ==
    ASSUME NEW k \in Nat \ {0}, NEW F, \A i \in 1..k : F[i] \in Nat
    PROVE  \E i \in 1..k : \A j \in 1..k : F[j] <= F[i]
<1> DEFINE Good == {m \in Nat : m + 1 <= k =>
                        \E i \in 1..(m + 1) : \A j \in 1..(m + 1) : F[j] <= F[i]}
<1>1. 0 \in Good
    <2>1. 1..(0 + 1) = {1}
        OBVIOUS
    <2>2. QED
        BY <2>1
<1>2. ASSUME NEW m \in Nat, m \in Good PROVE m + 1 \in Good
    <2> SUFFICES ASSUME m + 2 <= k
                 PROVE  \E i \in 1..(m + 2) : \A j \in 1..(m + 2) : F[j] <= F[i]
        OBVIOUS
    <2>1. PICK i \in 1..(m + 1) : \A j \in 1..(m + 1) : F[j] <= F[i]
        BY <1>2
    <2>2. 1..(m + 2) = (1..(m + 1)) \cup {m + 2}
        OBVIOUS
    <2>3. F[i] \in Nat /\ F[m + 2] \in Nat /\ \A j \in 1..(m + 1) : F[j] \in Nat
        OBVIOUS
    <2>4. CASE F[m + 2] <= F[i]
        BY <2>1, <2>2, <2>4
    <2>5. CASE F[i] < F[m + 2]
        <3>1. \A j \in 1..(m + 2) : F[j] <= F[m + 2]
            BY <2>1, <2>2, <2>3, <2>5
        <3>2. QED
            BY <3>1
    <2>6. QED
        BY <2>3, <2>4, <2>5
<1> HIDE DEF Good
<1>3. k - 1 \in Good
    BY <1>1, <1>2, NatInduct
<1>4. QED
    BY <1>3 DEF Good
=============================================================================

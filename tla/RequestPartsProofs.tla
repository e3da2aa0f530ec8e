-------------------------- MODULE RequestPartsProofs --------------------------
(***************************************************************************)
(* Proofs about the parts of a request, each for every behaviour of        *)
(* PartSpec.                                                               *)
(***************************************************************************)
EXTENDS RequestParts, FiniteSetTheorems, SequenceTheorems, WellFoundedInduction, TLAPS

-----------------------------------------------------------------------------
(* A step of one part leaves the others alone. *)
LEMMA PartSteps ==
    ASSUME [PartNext]_partVars
    PROVE  /\ [ChunkNext]_chunkVars
           /\ [CallNext]_callVars
           /\ [SearchNext]_searchVars
           /\ [ExecutionNext]_executionVars
           /\ [AdmissionNext]_admissionVars
<1>1. CASE UNCHANGED partVars
    BY <1>1 DEF partVars
<1>2. CASE PartNext
    BY <1>2 DEF PartNext
<1> QED
    BY <1>1, <1>2

(* Each part of a request is idle or begins in its own initial state. *)
LEMMA PartBegins ==
    ASSUME PartInit
    PROVE  /\ ChunkIdle \/ ChunkBegin
           /\ CallIdle \/ CallBegin
           /\ SearchIdle \/ SearchBegin
           /\ ExecutionIdle \/ ExecutionBegin
           /\ AdmissionIdle \/ AdmissionBegin
BY DEF PartInit

-----------------------------------------------------------------------------
(* Rows in order. *)

(* R puts the rows of S in a strict total order. *)
Orders(R, S) ==
    /\ IsFiniteSet(S)
    /\ \A x \in S : <<x, x>> \notin R
    /\ \A x, y, z \in S : <<x, y>> \in R /\ <<y, z>> \in R => <<x, z>> \in R
    /\ \A x, y \in S : x # y => <<x, y>> \in R \/ <<y, x>> \in R

RankIn(S, R) == [x \in S |-> Cardinality(Ahead(S, R, x))]

(* A row behind another has more rows ahead of it. *)
LEMMA RankGrows ==
    ASSUME NEW S, NEW R, Orders(R, S), NEW x \in S, NEW y \in S, <<x, y>> \in R
    PROVE  RankIn(S, R)[x] < RankIn(S, R)[y]
<1>1. Ahead(S, R, x) \in SUBSET Ahead(S, R, y)
    BY DEF Ahead, Orders
<1>2. x \in Ahead(S, R, y) /\ x \notin Ahead(S, R, x)
    BY DEF Ahead, Orders
<1>3. Ahead(S, R, y) \in SUBSET S /\ IsFiniteSet(S)
    BY DEF Ahead, Orders
<1>4. IsFiniteSet(Ahead(S, R, y))
    BY <1>3, FS_Subset
<1>5. /\ IsFiniteSet(Ahead(S, R, x))
      /\ Cardinality(Ahead(S, R, x)) <= Cardinality(Ahead(S, R, y))
      /\ Cardinality(Ahead(S, R, y)) # Cardinality(Ahead(S, R, x))
    BY <1>1, <1>2, <1>4, FS_Subset
<1>6. Cardinality(Ahead(S, R, x)) \in Nat /\ Cardinality(Ahead(S, R, y)) \in Nat
    BY <1>4, <1>5, FS_CardinalityType
<1> QED
    BY <1>5, <1>6 DEF RankIn

(* Ranks are the numbers from 0 on, each taken once. *)
LEMMA RankIsBijective ==
    ASSUME NEW S, NEW R, Orders(R, S)
    PROVE  /\ Cardinality(S) \in Nat
           /\ RankIn(S, R) \in Injection(S, 0..Cardinality(S) - 1)
           /\ RankIn(S, R) \in Surjection(S, 0..Cardinality(S) - 1)
<1>1. IsFiniteSet(S) /\ Cardinality(S) \in Nat
    BY FS_CardinalityType DEF Orders
<1>2. ASSUME NEW x \in S PROVE RankIn(S, R)[x] \in 0..Cardinality(S) - 1
    <2>1. Ahead(S, R, x) \in SUBSET S /\ x \notin Ahead(S, R, x)
        BY DEF Ahead, Orders
    <2>2. /\ IsFiniteSet(Ahead(S, R, x)) /\ Cardinality(Ahead(S, R, x)) <= Cardinality(S)
          /\ Cardinality(S) # Cardinality(Ahead(S, R, x))
        BY <1>1, <2>1, FS_Subset
    <2>3. Cardinality(Ahead(S, R, x)) \in Nat
        BY <2>2, FS_CardinalityType
    <2> QED
        BY <1>1, <2>2, <2>3 DEF RankIn
<1>3. ASSUME NEW x \in S, NEW y \in S, RankIn(S, R)[x] = RankIn(S, R)[y] PROVE x = y
    <2>1. RankIn(S, R)[x] \in Nat
        BY <1>1, <1>2
    <2>2. ~(RankIn(S, R)[x] < RankIn(S, R)[y]) /\ ~(RankIn(S, R)[y] < RankIn(S, R)[x])
        BY <1>3, <2>1
    <2>3. <<x, y>> \notin R
        BY <2>2, RankGrows
    <2>4. <<y, x>> \notin R
        BY <2>2, RankGrows
    <2> QED
        BY <2>3, <2>4 DEF Orders
<1>4. DOMAIN RankIn(S, R) = S /\ RankIn(S, R) \in [S -> 0..Cardinality(S) - 1]
    <2>1. RankIn(S, R) = [x \in S |-> RankIn(S, R)[x]]
        BY DEF RankIn
    <2> QED
        BY <1>2, <2>1
<1>5. RankIn(S, R) \in Injection(S, 0..Cardinality(S) - 1)
    BY <1>3, <1>4 DEF Injection, IsInjective
<1>6. /\ IsFiniteSet(0..Cardinality(S) - 1)
      /\ Cardinality(0..Cardinality(S) - 1) =
            IF 0 > Cardinality(S) - 1 THEN 0 ELSE Cardinality(S) - 1 - 0 + 1
    BY <1>1, FS_Interval
<1>7. Cardinality(0..Cardinality(S) - 1) = Cardinality(S)
    BY <1>1, <1>6
<1>8. RankIn(S, R) \in Surjection(S, 0..Cardinality(S) - 1)
    BY <1>5, <1>6, <1>7, FS_Injection
<1> QED
    BY <1>1, <1>5, <1>8

(* The same without the names of the theory of functions. *)
LEMMA Ranks ==
    ASSUME NEW S, NEW R, Orders(R, S)
    PROVE  /\ Cardinality(S) \in Nat /\ RankIn(S, R) \in [S -> 0..Cardinality(S) - 1]
           /\ \A x, y \in S : RankIn(S, R)[x] = RankIn(S, R)[y] => x = y
           /\ \A k \in 0..Cardinality(S) - 1 : \E x \in S : RankIn(S, R)[x] = k
BY RankIsBijective DEF Injection, Surjection, IsInjective

(* Rows in order are a sequence that has each row once, at its place. *)
LEMMA InOrderIsBijective ==
    ASSUME NEW S, NEW R, Orders(R, S)
    PROVE  /\ Cardinality(S) \in Nat
           /\ InOrder(S, R) \in [1..Cardinality(S) -> S]
           /\ \A i, j \in 1..Cardinality(S) : InOrder(S, R)[i] = InOrder(S, R)[j] => i = j
           /\ \A x \in S : \E i \in 1..Cardinality(S) : InOrder(S, R)[i] = x
           /\ \A i, j \in 1..Cardinality(S) :
                i < j => <<InOrder(S, R)[i], InOrder(S, R)[j]>> \in R
<1> DEFINE n == Cardinality(S)
           r == RankIn(S, R)
           o == InOrder(S, R)
<1>1. /\ n \in Nat /\ r \in [S -> 0..n - 1]
      /\ \A x, y \in S : r[x] = r[y] => x = y
      /\ \A k \in 0..n - 1 : \E x \in S : r[x] = k
    BY Ranks
<1>2. ASSUME NEW i \in 1..n PROVE o[i] \in S /\ r[o[i]] = i - 1
    <2>1. \E x \in S : r[x] = i - 1
        <3>1. i - 1 \in 0..n - 1
            BY <1>1
        <3> QED
            BY <1>1, <3>1
    <2>2. \A x \in S : r[x] = Cardinality(Ahead(S, R, x))
        BY DEF RankIn
    <2>3. o[i] = CHOOSE x \in S : Cardinality(Ahead(S, R, x)) = i - 1
        BY DEF InOrder
    <2>4. \E x \in S : Cardinality(Ahead(S, R, x)) = i - 1
        BY <2>1, <2>2
    <2> HIDE DEF r, o, n
    <2>5. o[i] \in S /\ Cardinality(Ahead(S, R, o[i])) = i - 1
        BY <2>3, <2>4
    <2> QED
        BY <2>2, <2>5
<1>3. n \in Nat /\ o = [i \in 1..n |-> o[i]]
    BY <1>1 DEF InOrder
<1> HIDE DEF r, o, n
<1>4. o \in [1..n -> S]
    BY <1>2, <1>3
<1>5. ASSUME NEW i \in 1..n, NEW j \in 1..n, o[i] = o[j] PROVE i = j
    BY <1>2, <1>5
<1>6. ASSUME NEW x \in S PROVE \E i \in 1..n : o[i] = x
    <2>1. r[x] \in 0..n - 1
        BY <1>1
    <2>2. r[x] + 1 \in 1..n /\ (r[x] + 1) - 1 = r[x]
        BY <1>3, <2>1
    <2> QED
        BY <1>1, <1>2, <2>2
<1>7. ASSUME NEW i \in 1..n, NEW j \in 1..n, i < j PROVE <<o[i], o[j]>> \in R
    <2>1. o[i] \in S /\ o[j] \in S /\ r[o[i]] = i - 1 /\ r[o[j]] = j - 1
        BY <1>2
    <2>2. o[i] # o[j]
        BY <1>5, <1>7
    <2>3. CASE <<o[j], o[i]>> \in R
        <3>1. r[o[j]] < r[o[i]]
            BY <2>1, <2>3, RankGrows DEF r
        <3> QED
            BY <1>7, <2>1, <3>1
    <2> QED
        BY <2>1, <2>2, <2>3 DEF Orders
<1> QED
    BY <1>3, <1>4, <1>5, <1>6, <1>7 DEF n, o

(* Numbers ascend. *)
LEMMA AscendingOrders ==
    ASSUME NEW S, S \subseteq Int, IsFiniteSet(S)
    PROVE  Orders(Ascending(S), S)
<1>1. ASSUME NEW x \in S, NEW y \in S PROVE <<x, y>> \in Ascending(S) <=> x < y
    BY DEF Ascending
<1> HIDE DEF Ascending
<1>2. ASSUME NEW x \in S PROVE <<x, x>> \notin Ascending(S)
    BY <1>1
<1>3. \A x, y, z \in S :
        <<x, y>> \in Ascending(S) /\ <<y, z>> \in Ascending(S) => <<x, z>> \in Ascending(S)
    BY <1>1
<1>4. \A x, y \in S : x # y => <<x, y>> \in Ascending(S) \/ <<y, x>> \in Ascending(S)
    BY <1>1
<1> QED
    BY <1>2, <1>3, <1>4, Zenon DEF Orders

(* The first n of a set are at most n, none only of an empty set. *)
LEMMA LowestIsBounded ==
    ASSUME NEW S, S \subseteq Int, IsFiniteSet(S), NEW n \in Nat
    PROVE  /\ Lowest(S, n) \subseteq S /\ IsFiniteSet(Lowest(S, n))
           /\ Cardinality(Lowest(S, n)) <= n
           /\ n > 0 /\ S # {} => Lowest(S, n) # {}
<1> DEFINE L == Lowest(S, n)
<1>0. PICK R : R = Ascending(S)
    OBVIOUS
<1> DEFINE r == RankIn(S, R)
<1>1. Orders(R, S)
    BY <1>0, AscendingOrders
<1>2. /\ Cardinality(S) \in Nat /\ r \in [S -> 0..Cardinality(S) - 1]
      /\ \A x, y \in S : r[x] = r[y] => x = y
      /\ \A k \in 0..Cardinality(S) - 1 : \E x \in S : r[x] = k
    BY <1>1, Ranks, ZenonT(40)
<1>3. L = {x \in S : r[x] < n}
    BY <1>0 DEF Lowest, RankIn
<1> HIDE DEF r, L
<1>4. L \subseteq S /\ IsFiniteSet(L)
    BY <1>3, FS_Subset
<1>5. [x \in L |-> r[x]] \in Injection(L, 0..n - 1)
    <2>1. \A x \in L : r[x] \in 0..n - 1
        BY <1>2, <1>3
    <2> QED
        BY <1>2, <1>4, <2>1 DEF Injection, IsInjective
<1>6. IsFiniteSet(0..n - 1) /\ Cardinality(0..n - 1) = IF 0 > n - 1 THEN 0 ELSE n - 1 - 0 + 1
    BY FS_Interval
<1>7. Cardinality(L) <= Cardinality(0..n - 1)
    BY <1>5, <1>6, FS_Injection
<1>8. Cardinality(L) <= n
    BY <1>6, <1>7
<1>9. ASSUME n > 0, S # {} PROVE L # {}
    <2>1. Cardinality(S) # 0
        BY <1>9, FS_EmptySet
    <2>2. 0 \in 0..Cardinality(S) - 1
        BY <1>2, <2>1
    <2> QED
        BY <1>2, <1>3, <1>9, <2>2
<1> QED
    BY <1>4, <1>8, <1>9 DEF L

(* A nonempty set of numbers has a least one. *)
LEMMA Smallest ==
    ASSUME NEW T, T \subseteq Nat, T # {}
    PROVE  \E n \in T : \A m \in T : n <= m
<1> DEFINE R == {ss \in Nat \X Nat : ss[1] < ss[2]}
<1>1. IsWellFoundedOn(R, Nat)
    BY NatLessThanWellFounded DEF OpToRel
<1>2. PICK x \in T : \A y \in T : ~(<<y, x>> \in R)
    BY <1>1, WFMin
<1>3. \A y \in T : <<y, x>> \in Nat \X Nat /\ <<y, x>>[1] = y /\ <<y, x>>[2] = x
    OBVIOUS
<1>4. \A y \in T : ~(y < x)
    BY <1>2, <1>3
<1> QED
    BY <1>4

(* Two sequences, one after the other. *)
LEMMA Joined ==
    ASSUME NEW n \in Nat, NEW m \in Nat, NEW S, NEW A \in [1..n -> S], NEW B \in [1..m -> S]
    PROVE  /\ A \o B \in [1..n + m -> S]
           /\ \A i \in 1..n : (A \o B)[i] = A[i]
           /\ \A i \in 1..m : (A \o B)[n + i] = B[i]
           /\ A \o B = <<>> <=> n = 0 /\ m = 0
<1>1. A \in Seq(S) /\ B \in Seq(S) /\ Len(A) = n /\ Len(B) = m
    OBVIOUS
<1>2. /\ A \o B \in Seq(S) /\ Len(A \o B) = Len(A) + Len(B)
      /\ \A i \in 1..Len(A) + Len(B) :
            (A \o B)[i] = IF i <= Len(A) THEN A[i] ELSE B[i - Len(A)]
    BY <1>1, ConcatProperties
<1>3. A \o B \in [1..n + m -> S] /\ Len(A \o B) = n + m
    <2>1. PICK c : c = A \o B
        OBVIOUS
    <2>2. c \in Seq(S) /\ Len(c) = n + m
        BY <1>1, <1>2, <2>1
    <2>3. c \in [1..Len(c) -> S]
        BY <2>2
    <2> QED
        BY <2>1, <2>2, <2>3
<1>4. \A i \in 1..n : (A \o B)[i] = A[i]
    BY <1>1, <1>2
<1>5. ASSUME NEW i \in 1..m PROVE (A \o B)[n + i] = B[i]
    <2>1. n + i \in 1..n + m /\ ~(n + i <= n) /\ (n + i) - n = i
        OBVIOUS
    <2> QED
        BY <1>1, <1>2, <2>1
<1>6. A \o B = <<>> <=> n = 0 /\ m = 0
    <2>1. A \o B = <<>> <=> n + m = 0
        BY <1>2, <1>3
    <2> QED
        BY <2>1
<1> QED
    BY <1>3, <1>4, <1>5, <1>6

-----------------------------------------------------------------------------
(* Chunks. *)

IsText(t) == t \in Seq(Range(t))

(* The length and the positions of a text. *)
LEMMA TextFacts ==
    ASSUME NEW t, IsText(t)
    PROVE  Len(t) \in Nat /\ DOMAIN t = 1..Len(t) /\ Solid(t) \subseteq 1..Len(t)
BY DEF IsText, Solid

(* The least of a set of numbers. *)
LEMMA LeastOf ==
    ASSUME NEW T, T \subseteq Nat, T # {}
    PROVE  Min(T) \in T /\ \A m \in T : Min(T) <= m
BY Smallest DEF Min

(* The largest of a bounded set of numbers. *)
LEMMA LargestOf ==
    ASSUME NEW N \in Nat, NEW T, T \subseteq 0..N, T # {}
    PROVE  Max(T) \in T /\ \A m \in T : m <= Max(T)
<1>1. PICK D : D = {k \in 0..N : N - k \in T}
    OBVIOUS
<1>2. D \subseteq Nat /\ D # {}
    <2>1. PICK x \in T : TRUE
        OBVIOUS
    <2>2. x \in 0..N
        BY <2>1
    <2>3. N - x \in 0..N /\ N - (N - x) = x
        BY <2>2
    <2>4. N - x \in D
        BY <1>1, <2>1, <2>3
    <2>5. D # {}
        BY <2>4, Zenon
    <2>6. D \subseteq Nat
        BY <1>1
    <2> QED
        BY <2>5, <2>6
<1>3. PICK k \in D : \A j \in D : k <= j
    BY <1>2, Smallest
<1>4. N - k \in T /\ k \in 0..N
    BY <1>1
<1>5. ASSUME NEW m \in T PROVE N - k >= m
    <2>1. N - m \in 0..N /\ N - (N - m) = m /\ m \in 0..N
        OBVIOUS
    <2>2. k <= N - m
        BY <1>1, <1>3, <2>1
    <2> QED
        BY <1>4, <2>1, <2>2
<1>6. \E x \in T : \A y \in T : x >= y
    BY <1>4, <1>5
<1>7. Max(T) \in T /\ \A y \in T : Max(T) >= y
    BY <1>6 DEF Max
<1>8. \A y \in T : y \in Int
    OBVIOUS
<1> QED
    BY <1>7, <1>8

(* The larger of two numbers. *)
LEMMA LargerOfTwo ==
    ASSUME NEW a \in Int, NEW b \in Int
    PROVE  Max({a, b}) = IF a >= b THEN a ELSE b
<1>1. \E x \in {a, b} : \A y \in {a, b} : x >= y
    OBVIOUS
<1>2. Max({a, b}) \in {a, b} /\ \A y \in {a, b} : Max({a, b}) >= y
    BY <1>1 DEF Max
<1> QED
    BY <1>2

(* The smaller of two numbers. *)
LEMMA SmallerOfTwo ==
    ASSUME NEW a \in Int, NEW b \in Int
    PROVE  Min({a, b}) = IF a <= b THEN a ELSE b
<1>1. \E x \in {a, b} : \A y \in {a, b} : x <= y
    OBVIOUS
<1>2. Min({a, b}) \in {a, b} /\ \A y \in {a, b} : Min({a, b}) <= y
    BY <1>1 DEF Min
<1> QED
    BY <1>2

(* The paragraphs, lines and words that end within [a, b). *)
Paragraphs(t, a, b) ==
    {o \in a..b - 2 : t[o + 1] = LineBreak /\ t[o + 2] = LineBreak}

Breaks(t, a, b) == {o \in a..b - 1 : t[o + 1] = LineBreak}

Spaces(t, a, b) == {o \in a..b - 1 : t[o + 1] = Space}

(* rfind of one character. *)
LEMMA OneCharacter ==
    ASSUME NEW t, IsText(t), NEW c, NEW a \in Nat, NEW b \in 0..Len(t)
    PROVE  Occurrences(t, <<c>>, a, b) = {o \in a..b - 1 : t[o + 1] = c}
<1>1. Len(<<c>>) = 1
    OBVIOUS
<1>2. ASSUME NEW o \in a..b - 1 PROVE SubSeq(t, o + 1, o + 1) = <<c>> <=> t[o + 1] = c
    <2>1. PICK u : u = SubSeq(t, o + 1, o + 1)
        OBVIOUS
    <2>2. PICK m : m = o + 1
        OBVIOUS
    <2>3. PICK S : S = {t[i] : i \in m..m}
        OBVIOUS
    <2>4. m \in Int /\ \A i \in m..m : t[i] \in S
        BY <2>2, <2>3, TextFacts
    <2>5. /\ u \in Seq(S) /\ Len(u) = IF m <= m THEN m - m + 1 ELSE 0
          /\ \A i \in 1..m - m + 1 : u[i] = t[m + i - 1]
        BY <2>1, <2>2, <2>4, SubSeqProperties
    <2>6. u \in Seq(S) /\ Len(u) = 1 /\ u[1] = t[o + 1]
        BY <2>2, <2>4, <2>5
    <2>7. u = <<u[1]>>
        BY <2>6
    <2>8. u = <<c>> <=> u[1] = c
        BY <2>7
    <2> QED
        BY <2>1, <2>6, <2>8, Zenon
<1> QED
    BY <1>1, <1>2 DEF Occurrences

(* rfind of two. *)
LEMMA TwoCharacters ==
    ASSUME NEW t, IsText(t), NEW c, NEW a \in Nat, NEW b \in 0..Len(t)
    PROVE  Occurrences(t, <<c, c>>, a, b) = {o \in a..b - 2 : t[o + 1] = c /\ t[o + 2] = c}
<1>1. Len(<<c, c>>) = 2
    OBVIOUS
<1>2. ASSUME NEW o \in a..b - 2
      PROVE  SubSeq(t, o + 1, o + 2) = <<c, c>> <=> t[o + 1] = c /\ t[o + 2] = c
    <2>1. PICK u : u = SubSeq(t, o + 1, o + 2)
        OBVIOUS
    <2>2. PICK m, n : m = o + 1 /\ n = o + 2
        OBVIOUS
    <2>3. PICK S : S = {t[i] : i \in m..n}
        OBVIOUS
    <2>4. o \in Int /\ m \in Int /\ n \in Int /\ \A i \in m..n : t[i] \in S
        BY <2>2, <2>3, TextFacts
    <2>5. /\ u \in Seq(S) /\ Len(u) = IF m <= n THEN n - m + 1 ELSE 0
          /\ \A i \in 1..n - m + 1 : u[i] = t[m + i - 1]
        BY <2>1, <2>2, <2>4, SubSeqProperties
    <2>6. m <= n /\ n - m + 1 = 2 /\ m + 1 - 1 = o + 1 /\ m + 2 - 1 = o + 2
        BY <2>2, <2>4
    <2>7. u \in Seq(S) /\ Len(u) = 2 /\ u[1] = t[o + 1] /\ u[2] = t[o + 2]
        BY <2>5, <2>6
    <2>8. u = <<u[1], u[2]>>
        BY <2>7
    <2>9. u = <<c, c>> <=> u[1] = c /\ u[2] = c
        BY <2>8
    <2> QED
        BY <2>1, <2>7, <2>9, Zenon
<1> QED
    BY <1>1, <1>2 DEF Occurrences

(* Which boundary is taken. *)
LEMMA BoundaryCases ==
    ASSUME NEW t, IsText(t), NEW a \in Nat, NEW b \in 0..Len(t), NEW q, q = Boundary(t, a, b)
    PROVE  \/ /\ q \in Paragraphs(t, a, b) /\ \A o \in Paragraphs(t, a, b) : o <= q
           \/ /\ Paragraphs(t, a, b) = {}
              /\ q \in Breaks(t, a, b) /\ \A o \in Breaks(t, a, b) : o <= q
           \/ /\ Paragraphs(t, a, b) = {} /\ Breaks(t, a, b) = {}
              /\ q \in Spaces(t, a, b) /\ \A o \in Spaces(t, a, b) : o <= q
           \/ /\ Breaks(t, a, b) = {} /\ Spaces(t, a, b) = {} /\ q = b
<1>1. PICK P : P = Paragraphs(t, a, b)
    OBVIOUS
<1>2. PICK L : L = Breaks(t, a, b)
    OBVIOUS
<1>3. PICK W : W = Spaces(t, a, b)
    OBVIOUS
<1>4. /\ Occurrences(t, <<LineBreak, LineBreak>>, a, b) = P
      /\ Occurrences(t, <<LineBreak>>, a, b) = L
      /\ Occurrences(t, <<Space>>, a, b) = W
    BY <1>1, <1>2, <1>3, OneCharacter, TwoCharacters DEF Paragraphs, Breaks, Spaces
<1>5. q = CASE P # {} -> Max(P)
            [] P = {} /\ L # {} -> Max(L)
            [] P = {} /\ L = {} /\ W # {} -> Max(W)
            [] OTHER -> b
    BY <1>4 DEF Boundary
<1>6. b \in Nat /\ P \subseteq 0..b /\ L \subseteq 0..b /\ W \subseteq 0..b
    BY <1>1, <1>2, <1>3, TextFacts DEF Paragraphs, Breaks, Spaces
<1>7. CASE P # {}
    <2>1. q = Max(P)
        BY <1>5, <1>7
    <2> QED
        BY <1>1, <1>6, <1>7, <2>1, LargestOf
<1>8. CASE P = {} /\ L # {}
    <2>1. q = Max(L)
        BY <1>5, <1>8
    <2> QED
        BY <1>1, <1>2, <1>6, <1>8, <2>1, LargestOf
<1>9. CASE P = {} /\ L = {} /\ W # {}
    <2>1. q = Max(W)
        BY <1>5, <1>9
    <2> QED
        BY <1>1, <1>2, <1>3, <1>6, <1>9, <2>1, LargestOf
<1>10. CASE P = {} /\ L = {} /\ W = {}
    BY <1>2, <1>3, <1>5, <1>10
<1> QED
    BY <1>7, <1>8, <1>9, <1>10

(* A boundary lies within the window, at white space unless there is none. *)
LEMMA BoundaryWithin ==
    ASSUME NEW t, IsText(t), NEW a \in Nat, NEW b \in 0..Len(t), a <= b, NEW q,
           q = Boundary(t, a, b)
    PROVE  q \in a..b /\ (q = b \/ t[q + 1] \in White)
<1>1. b \in Nat
    BY TextFacts
<1>2. CASE q \in Paragraphs(t, a, b)
    BY <1>1, <1>2 DEF Paragraphs, White
<1>3. CASE q \in Breaks(t, a, b)
    BY <1>1, <1>3 DEF Breaks, White
<1>4. CASE q \in Spaces(t, a, b)
    BY <1>1, <1>4 DEF Spaces, White
<1>5. CASE q = b
    BY <1>1, <1>5
<1> QED
    BY <1>2, <1>3, <1>4, <1>5, BoundaryCases

(* A later window has no earlier boundary. *)
LEMMA BoundaryGrows ==
    ASSUME NEW t, IsText(t), NEW a \in Nat, NEW b \in 0..Len(t), a <= b,
           NEW c \in Nat, NEW d \in 0..Len(t), c <= d, a <= c, b <= d
    PROVE  Boundary(t, a, b) <= Boundary(t, c, d)
<1>1. PICK q : q = Boundary(t, a, b)
    OBVIOUS
<1>2. PICK r : r = Boundary(t, c, d)
    OBVIOUS
<1>3. b \in Nat /\ d \in Nat /\ q \in a..b /\ r \in c..d
    BY <1>1, <1>2, TextFacts, BoundaryWithin
<1> SUFFICES ASSUME r < q PROVE FALSE
    BY <1>1, <1>2, <1>3
<1>4. r \in a..b - 1 /\ q \in c..d
    BY <1>3
<1>5. \/ /\ q \in Paragraphs(t, a, b) /\ \A o \in Paragraphs(t, a, b) : o <= q
      \/ /\ Paragraphs(t, a, b) = {}
         /\ q \in Breaks(t, a, b) /\ \A o \in Breaks(t, a, b) : o <= q
      \/ /\ Paragraphs(t, a, b) = {} /\ Breaks(t, a, b) = {}
         /\ q \in Spaces(t, a, b) /\ \A o \in Spaces(t, a, b) : o <= q
      \/ /\ Breaks(t, a, b) = {} /\ Spaces(t, a, b) = {} /\ q = b
    BY <1>1, BoundaryCases
<1>6. /\ q \in Paragraphs(t, a, b) => q \in Paragraphs(t, c, d)
      /\ q \in Breaks(t, a, b) => q \in Breaks(t, c, d)
      /\ q \in Spaces(t, a, b) => q \in Spaces(t, c, d)
    BY <1>3, <1>4 DEF Paragraphs, Breaks, Spaces
<1>7. /\ r \in Breaks(t, c, d) => r \in Breaks(t, a, b)
      /\ r \in Spaces(t, c, d) => r \in Spaces(t, a, b)
      /\ r \in Paragraphs(t, c, d) => r \in Breaks(t, a, b)
      /\ r \in Paragraphs(t, c, d) /\ q < b => r \in Paragraphs(t, a, b)
    BY <1>3, <1>4 DEF Paragraphs, Breaks, Spaces
<1>8. /\ q \in Breaks(t, a, b) => q < b
      /\ q \in Spaces(t, a, b) => q < b
      /\ q \in Paragraphs(t, a, b) => q < b
    BY <1>3 DEF Paragraphs, Breaks, Spaces
<1>9. CASE r \in Paragraphs(t, c, d) /\ \A o \in Paragraphs(t, c, d) : o <= r
    <2>1. q \notin Paragraphs(t, a, b)
        BY <1>3, <1>6, <1>9
    <2>2. q < b
        BY <1>5, <1>7, <1>8, <1>9
    <2> QED
        BY <1>5, <1>7, <1>9, <2>1, <2>2
<1>10. CASE /\ Paragraphs(t, c, d) = {}
            /\ r \in Breaks(t, c, d) /\ \A o \in Breaks(t, c, d) : o <= r
    <2>1. q \notin Paragraphs(t, a, b)
        BY <1>6, <1>10
    <2>2. q \notin Breaks(t, a, b)
        BY <1>3, <1>6, <1>10
    <2> QED
        BY <1>5, <1>7, <1>10, <2>1, <2>2
<1>11. CASE /\ Paragraphs(t, c, d) = {} /\ Breaks(t, c, d) = {}
            /\ r \in Spaces(t, c, d) /\ \A o \in Spaces(t, c, d) : o <= r
    <2>1. q \notin Paragraphs(t, a, b) /\ q \notin Breaks(t, a, b)
        BY <1>6, <1>11
    <2>2. q \notin Spaces(t, a, b)
        BY <1>3, <1>6, <1>11
    <2> QED
        BY <1>5, <1>7, <1>11, <2>1, <2>2
<1>12. r # d
    BY <1>3, <1>4
<1> QED
    BY <1>2, <1>9, <1>10, <1>11, <1>12, BoundaryCases

(* Where the slice that begins at a ends. *)
EndAt(t, size, a) ==
    LET end == Min({a + size, Len(t)})
    IN  IF end < Len(t) THEN Boundary(t, Min({a + size \div 2, end}), end) ELSE end

(* The slice that is not the last ends at a boundary of its second half. *)
LEMMA EndCases ==
    ASSUME NEW t, IsText(t), NEW size \in Nat \ {0}, NEW a \in Nat, a <= Len(t),
           NEW e, e = EndAt(t, size, a)
    PROVE  /\ a + size >= Len(t) => e = Len(t)
           /\ a + size < Len(t) => e = Boundary(t, a + size \div 2, a + size)
           /\ size \div 2 \in Nat /\ size \div 2 <= size
<1>1. Len(t) \in Nat /\ a + size \in Nat
    BY TextFacts
<1>2. size \div 2 \in Nat /\ size \div 2 <= size
    OBVIOUS
<1>3. PICK end : end = Min({a + size, Len(t)})
    OBVIOUS
<1>4. end = IF a + size <= Len(t) THEN a + size ELSE Len(t)
    BY <1>1, <1>3, SmallerOfTwo
<1>5. e = IF end < Len(t) THEN Boundary(t, Min({a + size \div 2, end}), end) ELSE end
    BY <1>3 DEF EndAt
<1>6. CASE a + size >= Len(t)
    BY <1>1, <1>2, <1>4, <1>5, <1>6
<1>7. CASE a + size < Len(t)
    <2>1. end = a + size /\ end < Len(t)
        BY <1>1, <1>4, <1>7
    <2>2. a + size \div 2 \in Int /\ a + size \in Int /\ a + size \div 2 <= a + size
        BY <1>2
    <2>3. Min({a + size \div 2, a + size}) = a + size \div 2
        BY <2>2, SmallerOfTwo
    <2>4. e = Boundary(t, Min({a + size \div 2, a + size}), a + size)
        BY <1>5, <2>1
    <2> QED
        BY <1>1, <1>2, <1>7, <2>3, <2>4
<1> QED
    BY <1>1, <1>6, <1>7

(* What a slice takes in: at least one character, unless it is white space. *)
LEMMA EndFacts ==
    ASSUME NEW t, IsText(t), NEW size \in Nat \ {0}, NEW a \in Nat, a <= Len(t),
           NEW e, e = EndAt(t, size, a)
    PROVE  /\ e \in a..Len(t) /\ e <= a + size
           /\ e = a /\ a < Len(t) => t[a + 1] \in White
<1>1. /\ Len(t) \in Nat
      /\ a + size >= Len(t) => e = Len(t)
      /\ a + size < Len(t) => e = Boundary(t, a + size \div 2, a + size)
      /\ size \div 2 \in Nat /\ size \div 2 <= size
    BY TextFacts, EndCases
<1>2. CASE a + size >= Len(t)
    BY <1>1, <1>2
<1>3. CASE a + size < Len(t)
    <2>1. PICK lower, upper : lower = a + size \div 2 /\ upper = a + size
        OBVIOUS
    <2>2. lower \in Nat /\ upper \in 0..Len(t) /\ lower <= upper /\ a <= lower /\ a < upper
        BY <1>1, <1>3, <2>1
    <2>3. e \in lower..upper /\ (e = upper \/ t[e + 1] \in White)
        BY <1>1, <1>3, <2>1, <2>2, BoundaryWithin
    <2> QED
        BY <1>1, <1>3, <2>1, <2>2, <2>3
<1> QED
    BY <1>1, <1>2, <1>3

(* A slice that begins later ends no earlier. *)
LEMMA EndRises ==
    ASSUME NEW t, IsText(t), NEW size \in Nat \ {0}, NEW a \in Nat, a + size < Len(t),
           NEW s \in Nat, a < s, s < Len(t)
    PROVE  EndAt(t, size, a) <= EndAt(t, size, s)
<1>0. PICK e : e = EndAt(t, size, a)
    OBVIOUS
<1>1. PICK f : f = EndAt(t, size, s)
    OBVIOUS
<1>2. /\ Len(t) \in Nat /\ a <= Len(t) /\ s <= Len(t)
      /\ size \div 2 \in Nat /\ size \div 2 <= size
    BY TextFacts
<1>3. e = Boundary(t, a + size \div 2, a + size)
    BY <1>0, <1>2, EndCases
<1>4. /\ s + size >= Len(t) => f = Len(t)
      /\ s + size < Len(t) => f = Boundary(t, s + size \div 2, s + size)
    BY <1>1, <1>2, EndCases
<1>5. e \in a..Len(t)
    BY <1>0, <1>2, EndFacts
<1>6. CASE s + size >= Len(t)
    BY <1>0, <1>1, <1>2, <1>4, <1>5, <1>6
<1>7. CASE s + size < Len(t)
    <2>1. PICK l, u, m, v : /\ l = a + size \div 2 /\ u = a + size
                            /\ m = s + size \div 2 /\ v = s + size
        OBVIOUS
    <2>2. l \in Nat /\ u \in 0..Len(t) /\ l <= u
        BY <1>2, <2>1
    <2>3. m \in Nat /\ v \in 0..Len(t) /\ m <= v
        BY <1>2, <1>7, <2>1
    <2>4. l <= m /\ u <= v
        BY <1>2, <2>1
    <2>5. Boundary(t, l, u) <= Boundary(t, m, v)
        BY <2>2, <2>3, <2>4, BoundaryGrows
    <2> QED
        BY <1>0, <1>1, <1>3, <1>4, <1>7, <2>1, <2>5
<1> QED
    BY <1>2, <1>6, <1>7

(* The slice after the one at a: it begins and ends later, and all that is  *)
(* solid before it has been taken in.                                       *)
LEMMA EndGrows ==
    ASSUME NEW t, IsText(t), NEW size \in Nat \ {0}, NEW overlap \in 0..size - 1,
           NEW a \in Nat, a < Len(t), NEW e, e = EndAt(t, size, a), e < Len(t),
           NEW s, s = Max({e - overlap, a + 1})
    PROVE  /\ s \in Nat /\ a < s /\ s < Len(t)
           /\ e <= EndAt(t, size, s)
           /\ \A p \in Solid(t) : a < p /\ p <= s => p <= e
<1>1. /\ Len(t) \in Nat
      /\ a + size < Len(t) /\ e = Boundary(t, a + size \div 2, a + size)
      /\ size \div 2 \in Nat /\ size \div 2 <= size
    BY TextFacts, EndCases
<1>2. /\ e \in a..Len(t) /\ e <= a + size
      /\ e = a => t[a + 1] \in White
    BY EndFacts
<1>3. s = IF e - overlap >= a + 1 THEN e - overlap ELSE a + 1
    BY <1>2, LargerOfTwo
<1>4. s \in Nat /\ a < s /\ s < Len(t) /\ s <= a + size
    BY <1>1, <1>2, <1>3
<1>5. e <= EndAt(t, size, s)
    <2>1. EndAt(t, size, a) <= EndAt(t, size, s)
        BY <1>1, <1>4, EndRises
    <2> QED
        BY <2>1
<1>6. ASSUME NEW p \in Solid(t), a < p, p <= s PROVE p <= e
    <2>1. p \in Int /\ t[p] \notin White
        BY <1>1, TextFacts DEF Solid
    <2>2. CASE e = a
        <3>1. s = a + 1
            BY <1>3, <2>2
        <3>2. p = a + 1
            BY <1>6, <2>1, <3>1
        <3> QED
            BY <1>2, <2>1, <2>2, <3>2
    <2>3. CASE e # a
        BY <1>2, <1>3, <1>6, <2>1, <2>3
    <2> QED
        BY <2>2, <2>3
<1> QED
    BY <1>4, <1>5, <1>6

(* What is left of a slice. *)
Cut(t, a, b) ==
    LET solid == {i \in Solid(t) : i > a /\ i <= b}
    IN  IF solid = {} THEN <<>>
        ELSE <<[start |-> Min(solid) - 1, end |-> Max(solid)]>>

(* A chunk begins and ends with solid characters and fits chunk_size. *)
IsSlice(x, t, size) ==
    /\ x.start \in Nat /\ x.end \in Nat
    /\ x.start + 1 \in Solid(t) /\ x.end \in Solid(t)
    /\ x.end - x.start \in 1..size

(* x is followed by y. *)
Before(x, y) == x.start <= y.start /\ x.end <= y.end

IsList(c) == Len(c) \in Nat /\ c = [i \in 1..Len(c) |-> c[i]]

Slices(c, t, size) ==
    /\ IsList(c)
    /\ \A i \in 1..Len(c) : IsSlice(c[i], t, size)
    /\ \A i \in 2..Len(c) : Before(c[i - 1], c[i])

Covers(c, p) == \E i \in 1..Len(c) : c[i].start < p /\ p <= c[i].end

(* What holds of the chunks c when the next slice begins at a: there are no *)
(* more than characters passed; none ends after the next slice or begins    *)
(* after its first solid character; what is passed is covered.              *)
Loop(c, t, size, a) ==
    /\ a \in Nat /\ (a < Len(t) \/ (a = 0 /\ Len(t) = 0))
    /\ Len(c) <= a
    /\ \A i \in 1..Len(c) : c[i].end <= EndAt(t, size, a)
    /\ \A i \in 1..Len(c), p \in Solid(t) : a < p => c[i].start < p
    /\ \A p \in Solid(t) : p <= a => Covers(c, p)

(* A slice that has solid characters. *)
LEMMA CutFacts ==
    ASSUME NEW t, IsText(t), NEW a \in Nat, NEW b \in a..Len(t),
           \E p \in Solid(t) : a < p /\ p <= b
    PROVE  \E x : /\ Cut(t, a, b) = <<x>>
                  /\ x.start \in Nat /\ x.end \in Nat
                  /\ x.start + 1 \in Solid(t) /\ x.end \in Solid(t)
                  /\ a <= x.start /\ x.start < x.end /\ x.end <= b
                  /\ \A p \in Solid(t) : a < p /\ p <= b => x.start < p /\ p <= x.end
<1>1. PICK S : S = {i \in Solid(t) : i > a /\ i <= b}
    OBVIOUS
<1>2. Len(t) \in Nat /\ Solid(t) \subseteq 1..Len(t) /\ b \in Nat
    BY TextFacts
<1>3. S # {} /\ S \subseteq 0..b /\ S \subseteq Nat
    BY <1>1, <1>2
<1>4. PICK l, u : l = Min(S) /\ u = Max(S)
    OBVIOUS
<1>5. l \in S /\ \A m \in S : l <= m
    BY <1>3, <1>4, LeastOf
<1>6. u \in S /\ \A m \in S : m <= u
    BY <1>2, <1>3, <1>4, LargestOf
<1>7. /\ l \in Nat /\ l \in Solid(t) /\ l > a /\ l <= b
      /\ u \in Nat /\ u \in Solid(t) /\ u > a /\ u <= b /\ l <= u
    BY <1>1, <1>3, <1>5, <1>6
<1>8. PICK x : x = [start |-> l - 1, end |-> u]
    OBVIOUS
<1>9. Cut(t, a, b) = <<x>>
    BY <1>1, <1>3, <1>4, <1>8 DEF Cut
<1>10. x.start = l - 1 /\ x.end = u /\ x.start + 1 = l
    BY <1>7, <1>8
<1>11. ASSUME NEW p \in Solid(t), a < p, p <= b PROVE x.start < p /\ p <= x.end
    <2>1. p \in S /\ p \in Int
        BY <1>1, <1>2, <1>11
    <2> QED
        BY <1>5, <1>6, <1>7, <1>10, <2>1
<1>12. /\ x.start \in Nat /\ x.end \in Nat
       /\ x.start + 1 \in Solid(t) /\ x.end \in Solid(t)
       /\ a <= x.start /\ x.start < x.end /\ x.end <= b
    BY <1>7, <1>10
<1> QED
    BY <1>9, <1>11, <1>12

(* One that has none. *)
LEMMA CutNothing ==
    ASSUME NEW t, NEW a, NEW b, ~\E p \in Solid(t) : p > a /\ p <= b
    PROVE  Cut(t, a, b) = <<>>
BY DEF Cut

(* d is the list c with one more. *)
Longer(d, c, x) ==
    /\ IsList(d) /\ Len(d) = Len(c) + 1 /\ d[Len(d)] = x
    /\ \A i \in 1..Len(c) : d[i] = c[i]

(* Appending one element to a list. *)
LEMMA OneMore ==
    ASSUME NEW c, IsList(c), NEW x
    PROVE  Longer(c \o <<x>>, c, x)
<1>0. PICK d : d = c \o <<x>>
    OBVIOUS
<1>1. PICK n \in Nat : n = Len(c)
    BY DEF IsList
<1>2. PICK S : S = {c[i] : i \in 1..n} \cup {x}
    OBVIOUS
<1>3. PICK y : y = <<x>>
    OBVIOUS
<1>4. c \in [1..n -> S]
    BY <1>1, <1>2 DEF IsList
<1>5. PICK m \in Nat : m = 1
    OBVIOUS
<1>6. y \in [1..m -> S] /\ y[1] = x
    BY <1>2, <1>3, <1>5
<1>7. c \o y \in [1..n + m -> S]
    BY <1>4, <1>6, Joined
<1>8. \A i \in 1..n : (c \o y)[i] = c[i]
    BY <1>4, <1>6, Joined
<1>9. \A i \in 1..m : (c \o y)[n + i] = y[i]
    BY <1>4, <1>6, Joined
<1>10. d \in [1..n + 1 -> S] /\ \A i \in 1..n : d[i] = c[i]
    BY <1>0, <1>3, <1>5, <1>7, <1>8
<1>11. d[n + 1] = x
    <2>1. 1 \in 1..m
        BY <1>5
    <2>2. (c \o y)[n + 1] = y[1]
        BY <1>9, <2>1, Zenon
    <2> QED
        BY <1>0, <1>3, <1>6, <2>2
<1>12. Len(d) = n + 1
    BY <1>10
<1>13. IsList(d)
    BY <1>10, <1>12 DEF IsList
<1>14. Longer(d, c, x)
    BY <1>1, <1>10, <1>11, <1>12, <1>13 DEF Longer
<1> QED
    BY <1>0, <1>14

(* A list with none more. *)
LEMMA NoMore ==
    ASSUME NEW c, IsList(c)
    PROVE  c \o <<>> = c
<1>1. c \in Seq({c[i] : i \in 1..Len(c)})
    BY DEF IsList
<1> QED
    BY <1>1

(* The chunks after one more slice, which begins at a and ends at e. *)
Cuts(d, t, size, a, e) ==
    /\ Slices(d, t, size) /\ Len(d) <= a + 1 /\ Len(d) <= Len(t)
    /\ \A i \in 1..Len(d) : d[i].end <= e
    /\ \A i \in 1..Len(d), p \in Solid(t) : a < p => d[i].start < p
    /\ \A p \in Solid(t) : p <= e => Covers(d, p)

(* The slice has nothing solid. *)
LEMMA CutsNothing ==
    ASSUME NEW t, IsText(t), NEW size \in Nat \ {0}, NEW c, Slices(c, t, size), NEW a,
           Loop(c, t, size, a), NEW e, e = EndAt(t, size, a),
           ~\E p \in Solid(t) : p > a /\ p <= e
    PROVE  Cuts(c, t, size, a, e)
<1>1. /\ Len(t) \in Nat /\ Solid(t) \subseteq 1..Len(t) /\ a \in Nat /\ a <= Len(t)
      /\ Len(c) \in Nat /\ Len(c) <= a
    BY TextFacts DEF Loop, Slices, IsList
<1>2. e \in a..Len(t)
    BY <1>1, EndFacts
<1>3. ASSUME NEW p \in Solid(t), p <= e PROVE Covers(c, p)
    <2>1. p <= a
        BY <1>1, <1>2, <1>3
    <2> QED
        BY <2>1 DEF Loop
<1>4. \A i \in 1..Len(c) : c[i].end <= e
    BY DEF Loop
<1>5. \A i \in 1..Len(c), p \in Solid(t) : a < p => c[i].start < p
    BY DEF Loop
<1>6. Len(c) <= a + 1 /\ Len(c) <= Len(t)
    BY <1>1
<1> QED
    BY <1>3, <1>4, <1>5, <1>6 DEF Cuts

(* The slice is one more chunk. *)
LEMMA CutsOne ==
    ASSUME NEW t, IsText(t), NEW size \in Nat \ {0}, NEW c, Slices(c, t, size), NEW a,
           Loop(c, t, size, a), NEW e, e = EndAt(t, size, a),
           \E p \in Solid(t) : a < p /\ p <= e
    PROVE  Cuts(c \o Cut(t, a, e), t, size, a, e)
<1>1. /\ Len(t) \in Nat /\ Solid(t) \subseteq 1..Len(t) /\ a \in Nat /\ a <= Len(t)
      /\ Len(c) \in Nat /\ Len(c) <= a
    BY TextFacts DEF Loop, Slices, IsList
<1>2. e \in a..Len(t) /\ e <= a + size
    BY <1>1, EndFacts
<1>3. PICK x : /\ Cut(t, a, e) = <<x>>
               /\ x.start \in Nat /\ x.end \in Nat
               /\ x.start + 1 \in Solid(t) /\ x.end \in Solid(t)
               /\ a <= x.start /\ x.start < x.end /\ x.end <= e
               /\ \A p \in Solid(t) : a < p /\ p <= e => x.start < p /\ p <= x.end
    BY <1>1, <1>2, CutFacts
<1>4. PICK d : d = c \o <<x>>
    OBVIOUS
<1>5. PICK n \in Nat : n = Len(c)
    BY <1>1
<1>6. /\ IsList(d) /\ Len(d) = n + 1 /\ d[n + 1] = x
      /\ \A i \in 1..n : d[i] = c[i]
    <2>1. IsList(c)
        BY DEF Slices
    <2>2. Longer(d, c, x)
        BY <1>4, <2>1, OneMore, Zenon
    <2> QED
        BY <1>5, <2>2 DEF Longer
<1>7. \A i \in 1..n + 1 : i \in 1..n \/ i = n + 1
    OBVIOUS
<1>8. /\ \A i \in 1..n : IsSlice(c[i], t, size)
      /\ \A i \in 2..n : Before(c[i - 1], c[i])
    BY <1>5, Zenon DEF Slices
<1>9. /\ \A i \in 1..n : c[i].end <= e
      /\ \A i \in 1..n, p \in Solid(t) : a < p => c[i].start < p
      /\ \A p \in Solid(t) : p <= a => Covers(c, p)
    BY <1>5, Zenon DEF Loop
<1>10. IsSlice(x, t, size)
    BY <1>1, <1>2, <1>3 DEF IsSlice
<1>11. ASSUME NEW i \in 1..n PROVE Before(c[i], x)
    <2>1. c[i].start \in Nat /\ c[i].end \in Nat /\ c[i].end \in Solid(t)
        BY <1>8 DEF IsSlice
    <2>2. c[i].start < x.start + 1
        BY <1>1, <1>3, <1>9
    <2>3. c[i].end <= x.end
        <3>1. CASE a < c[i].end
            BY <1>3, <1>9, <2>1, <3>1
        <3>2. CASE ~(a < c[i].end)
            BY <1>1, <1>3, <2>1, <3>2
        <3> QED
            BY <3>1, <3>2
    <2> QED
        BY <1>3, <2>1, <2>2, <2>3 DEF Before
<1>12. Slices(d, t, size)
    <2>1. ASSUME NEW i \in 1..n + 1 PROVE IsSlice(d[i], t, size)
        BY <1>6, <1>7, <1>8, <1>10
    <2>2. ASSUME NEW i \in 2..n + 1 PROVE Before(d[i - 1], d[i])
        <3>1. CASE i \in 2..n
            <4>1. i \in 1..n /\ i - 1 \in 1..n
                BY <3>1
            <4>2. d[i] = c[i] /\ d[i - 1] = c[i - 1]
                BY <1>6, <4>1
            <4> QED
                BY <1>8, <3>1, <4>2
        <3>2. CASE i = n + 1
            <4>1. i - 1 \in 1..n
                BY <3>2
            <4>2. d[i] = x /\ d[i - 1] = c[i - 1]
                BY <1>6, <3>2, <4>1
            <4> QED
                BY <1>11, <4>1, <4>2
        <3> QED
            BY <3>1, <3>2
    <2> QED
        BY <1>6, <2>1, <2>2 DEF Slices
<1>13. ASSUME NEW i \in 1..n + 1 PROVE d[i].end <= e
    BY <1>3, <1>6, <1>7, <1>9
<1>14. ASSUME NEW i \in 1..n + 1, NEW p \in Solid(t), a < p PROVE d[i].start < p
    <2>1. CASE i \in 1..n
        BY <1>6, <1>9, <1>14, <2>1
    <2>2. CASE i = n + 1
        <3>1. d[i].start = x.start
            BY <1>6, <2>2
        <3>2. p <= e => x.start < p
            BY <1>3, <1>14
        <3>3. ~(p <= e) => x.start < p
            BY <1>1, <1>2, <1>3
        <3> QED
            BY <3>1, <3>2, <3>3
    <2> QED
        BY <1>7, <2>1, <2>2
<1>15. ASSUME NEW p \in Solid(t), p <= e PROVE Covers(d, p)
    <2>1. CASE a < p
        <3>1. x.start < p /\ p <= x.end
            BY <1>3, <1>15, <2>1
        <3>2. n + 1 \in 1..n + 1
            OBVIOUS
        <3> QED
            BY <1>6, <3>1, <3>2 DEF Covers
    <2>2. CASE ~(a < p)
        <3>1. Covers(c, p)
            BY <1>1, <1>9, <2>2
        <3>2. PICK i \in 1..n : c[i].start < p /\ p <= c[i].end
            BY <1>5, <3>1 DEF Covers
        <3>3. i \in 1..n + 1 /\ d[i] = c[i]
            BY <1>6
        <3> QED
            BY <1>6, <3>2, <3>3 DEF Covers
    <2> QED
        BY <2>1, <2>2
<1>16. n + 1 <= a + 1 /\ n + 1 <= Len(t)
    BY <1>1, <1>2, <1>3, <1>5
<1>17. Cuts(d, t, size, a, e)
    BY <1>6, <1>12, <1>13, <1>14, <1>15, <1>16 DEF Cuts
<1> QED
    BY <1>3, <1>4, <1>17

(* The loop goes on after a slice that is not the last. *)
LEMMA LoopGoesOn ==
    ASSUME NEW t, IsText(t), NEW size \in Nat \ {0}, NEW overlap \in 0..size - 1,
           NEW d, NEW a \in Nat, a < Len(t), NEW e, e = EndAt(t, size, a), e < Len(t),
           Cuts(d, t, size, a, e)
    PROVE  Loop(d, t, size, Max({e - overlap, a + 1}))
<1>1. PICK s : s = Max({e - overlap, a + 1})
    OBVIOUS
<1>2. /\ s \in Nat /\ a < s /\ s < Len(t)
      /\ e <= EndAt(t, size, s)
      /\ \A p \in Solid(t) : a < p /\ p <= s => p <= e
    BY <1>1, EndGrows
<1>3. Len(t) \in Nat /\ Solid(t) \subseteq 1..Len(t) /\ e \in a..Len(t)
    <2>1. Len(t) \in Nat /\ Solid(t) \subseteq 1..Len(t)
        BY TextFacts
    <2>2. a <= Len(t)
        BY <2>1
    <2> QED
        BY <2>1, <2>2, EndFacts
<1>4. /\ IsList(d) /\ Len(d) <= a + 1
      /\ \A i \in 1..Len(d) : IsSlice(d[i], t, size)
      /\ \A i \in 1..Len(d) : d[i].end <= e
      /\ \A i \in 1..Len(d), p \in Solid(t) : a < p => d[i].start < p
      /\ \A p \in Solid(t) : p <= e => Covers(d, p)
    BY Zenon DEF Cuts, Slices
<1>5. PICK f : f = EndAt(t, size, s)
    OBVIOUS
<1>6. e \in Int /\ f \in Int /\ e <= f
    <2>1. s <= Len(t)
        BY <1>2, <1>3
    <2>2. f \in s..Len(t)
        BY <1>2, <1>5, <2>1, EndFacts
    <2> QED
        BY <1>2, <1>3, <1>5, <2>2
<1>7. ASSUME NEW i \in 1..Len(d) PROVE d[i].end <= f
    <2>1. d[i].end \in Nat /\ d[i].end <= e
        BY <1>4 DEF IsSlice
    <2> QED
        BY <1>6, <2>1
<1>8. ASSUME NEW i \in 1..Len(d), NEW p \in Solid(t), s < p PROVE d[i].start < p
    <2>1. a < p
        BY <1>2, <1>3, <1>8
    <2> QED
        BY <1>4, <2>1
<1>9. ASSUME NEW p \in Solid(t), p <= s PROVE Covers(d, p)
    <2>1. p <= e
        BY <1>2, <1>3, <1>9
    <2> QED
        BY <1>4, <2>1
<1>10. Len(d) <= s
    BY <1>2, <1>4 DEF IsList
<1>11. Loop(d, t, size, s)
    BY <1>2, <1>5, <1>7, <1>8, <1>9, <1>10 DEF Loop
<1> QED
    BY <1>1, <1>11

(* Before the first slice. *)
LEMMA LoopBegins ==
    ASSUME NEW t, IsText(t), NEW size
    PROVE  Slices(<<>>, t, size) /\ Loop(<<>>, t, size, 0) /\ Len(<<>>) = 0
<1>1. Len(t) \in Nat /\ Solid(t) \subseteq 1..Len(t)
    BY TextFacts
<1>2. PICK c : c = <<>>
    OBVIOUS
<1>3. Len(c) = 0 /\ 1..Len(c) = {} /\ 2..Len(c) = {} /\ IsList(c)
    BY <1>2 DEF IsList
<1>4. Slices(c, t, size)
    BY <1>3 DEF Slices
<1>5. \A p \in Solid(t) : ~(p <= 0)
    BY <1>1
<1>6. Loop(c, t, size, 0)
    BY <1>1, <1>3, <1>5 DEF Loop
<1> QED
    BY <1>2, <1>3, <1>4, <1>6

ChunkInv ==
    /\ IsText(text) /\ settings[1] \in Nat \ {0} /\ settings[2] \in 0..settings[1] - 1
    /\ Slices(chunks, text, settings[1]) /\ Len(chunks) <= Len(text)
    /\ chunking = "loop" => Loop(chunks, text, settings[1], start)
    /\ chunking = "done" => \A p \in Solid(text) : Covers(chunks, p)

(* ChunkInv holds before the first slice. *)
LEMMA ChunkInit ==
    ASSUME ChunkIdle \/ ChunkBegin
    PROVE  ChunkInv
<1>1. IsText(text) /\ settings[1] \in Nat \ {0} /\ settings[2] \in 0..settings[1] - 1
    <2>1. CASE ChunkIdle
        <3>1. text = <<>> /\ settings = <<1, 0>>
            BY <2>1 DEF ChunkIdle
        <3>2. IsText(text)
            BY <3>1 DEF IsText
        <3> QED
            BY <3>1, <3>2
    <2>2. CASE ChunkBegin
        <3>1. IsText(text)
            BY <2>2, TextAssumption DEF ChunkBegin, IsText
        <3> QED
            BY <2>2, <3>1, SettingsAssumption DEF ChunkBegin
    <2> QED
        BY <2>1, <2>2
<1>2. start = 0 /\ chunks = <<>> /\ chunking # "done"
    BY DEF ChunkIdle, ChunkBegin
<1>3. Slices(chunks, text, settings[1]) /\ Loop(chunks, text, settings[1], 0) /\ Len(chunks) = 0
    BY <1>1, <1>2, LoopBegins
<1>4. Len(chunks) <= Len(text)
    BY <1>1, <1>3, TextFacts
<1> QED
    BY <1>1, <1>2, <1>3, <1>4 DEF ChunkInv

(* ChunkInv is inductive. *)
LEMMA ChunkStep ==
    ASSUME ChunkInv, [ChunkNext]_chunkVars
    PROVE  ChunkInv'
<1>1. CASE UNCHANGED chunkVars
    <2>1. UNCHANGED <<settings, text, start, chunks, chunking>>
        BY <1>1 DEF chunkVars
    <2> QED
        BY <2>1 DEF ChunkInv
<1>2. CASE ChunkNext
    <2>1. PICK t, size, overlap, a, c :
            /\ t = text /\ size = settings[1] /\ overlap = settings[2]
            /\ a = start /\ c = chunks
        OBVIOUS
    <2>2. PICK e : e = EndAt(t, size, a)
        OBVIOUS
    <2>3. ChunkEnd = e
        BY <2>1, <2>2 DEF ChunkEnd, EndAt
    <2>4. Trimmed(a, e) = Cut(t, a, e)
        BY <2>1 DEF Trimmed, Cut
    <2>5. /\ chunking = "loop" /\ text' = text /\ settings' = settings
          /\ chunks' = c \o Cut(t, a, e)
          /\ start' = Max({e - overlap, a + 1})
          /\ chunking' = IF e >= Len(t) THEN "done" ELSE "loop"
        BY <1>2, <2>1, <2>3, <2>4 DEF ChunkNext
    <2>6. /\ IsText(t) /\ size \in Nat \ {0} /\ overlap \in 0..size - 1
          /\ Slices(c, t, size) /\ Loop(c, t, size, a)
        BY <2>1, <2>5 DEF ChunkInv
    <2>7. PICK d : d = c \o Cut(t, a, e)
        OBVIOUS
    <2>8. Cuts(d, t, size, a, e)
        <3>1. CASE \E p \in Solid(t) : a < p /\ p <= e
            BY <2>2, <2>6, <2>7, <3>1, CutsOne
        <3>2. CASE ~\E p \in Solid(t) : p > a /\ p <= e
            <4>1. Cut(t, a, e) = <<>>
                BY <3>2, CutNothing
            <4>2. d = c
                BY <2>6, <2>7, <4>1, NoMore DEF Slices
            <4> QED
                BY <2>2, <2>6, <3>2, <4>2, CutsNothing
        <3>3. \A p \in Solid(t) : p > a <=> a < p
            OBVIOUS
        <3> QED
            BY <3>1, <3>2, <3>3
    <2>9. /\ Len(t) \in Nat /\ Solid(t) \subseteq 1..Len(t)
          /\ a \in Nat /\ a <= Len(t) /\ (a = Len(t) => Len(t) = 0)
        BY <2>6, TextFacts DEF Loop
    <2>10. e \in a..Len(t)
        BY <2>2, <2>6, <2>9, EndFacts
    <2>11. Slices(d, t, size) /\ Len(d) <= Len(t)
        BY <2>8 DEF Cuts
    <2>12. CASE e >= Len(t)
        <3>1. ASSUME NEW p \in Solid(t) PROVE Covers(d, p)
            <4>1. p <= e
                BY <2>9, <2>10, <2>12
            <4> QED
                BY <2>8, <4>1 DEF Cuts
        <3>2. chunking' = "done"
            BY <2>5, <2>12
        <3> QED
            BY <2>1, <2>5, <2>6, <2>7, <2>11, <3>1, <3>2 DEF ChunkInv
    <2>13. CASE ~(e >= Len(t))
        <3>1. e < Len(t) /\ a < Len(t)
            BY <2>9, <2>10, <2>13
        <3>2. Loop(d, t, size, Max({e - overlap, a + 1}))
            BY <2>2, <2>6, <2>8, <2>9, <3>1, LoopGoesOn
        <3>3. chunking' = "loop"
            BY <2>5, <2>13
        <3> QED
            BY <2>1, <2>5, <2>6, <2>7, <2>11, <3>2, <3>3 DEF ChunkInv
    <2> QED
        BY <2>12, <2>13
<1> QED
    BY <1>1, <1>2

(***************************************************************************)
(* chunk_text loses nothing of a text, whatever its length, its boundaries *)
(* and the settings: the loop advances, and the chunks are slices within   *)
(* CHUNK_SIZE, in order, that cover every character but white space.       *)
(***************************************************************************)
THEOREM ChunksSafe == PartSpec => []ChunksCoverText
<1>1. PartInit => ChunkInv
    BY PartBegins, ChunkInit
<1>2. ChunkInv /\ [PartNext]_partVars => ChunkInv'
    BY PartSteps, ChunkStep
<1>3. ChunkInv => ChunksCoverText
    <2> SUFFICES ASSUME ChunkInv PROVE ChunksCoverText
        OBVIOUS
    <2>1. PICK n : n = Len(chunks)
        OBVIOUS
    <2>2. /\ n \in Nat /\ DOMAIN chunks = 1..n /\ n <= Len(text)
          /\ \A i \in 1..n : IsSlice(chunks[i], text, settings[1])
          /\ \A i \in 2..n : Before(chunks[i - 1], chunks[i])
        BY <2>1 DEF ChunkInv, Slices, IsList
    <2>3. ASSUME NEW i \in 1..n
          PROVE  /\ {chunks[i].start + 1, chunks[i].end} \subseteq Solid(text)
                 /\ chunks[i].end - chunks[i].start \in 1..settings[1]
                 /\ i > 1 => /\ chunks[i - 1].start <= chunks[i].start
                             /\ chunks[i - 1].end <= chunks[i].end
        <3>1. IsSlice(chunks[i], text, settings[1])
            BY <2>2
        <3>2. i > 1 => i \in 2..n
            BY <2>2
        <3>3. i > 1 => Before(chunks[i - 1], chunks[i])
            BY <2>2, <3>2
        <3> QED
            BY <3>1, <3>3 DEF IsSlice, Before
    <2>4. ASSUME chunking = "done", NEW p \in Solid(text)
          PROVE  \E i \in 1..n : chunks[i].start < p /\ p <= chunks[i].end
        BY <2>1, <2>4, Zenon DEF ChunkInv, Covers
    <2> QED
        BY <2>1, <2>2, <2>3, <2>4 DEF ChunksCoverText
<1> QED
    BY <1>1, <1>2, <1>3, PTL DEF PartSpec

-----------------------------------------------------------------------------
(* Admission. *)

HttpShape ==
    http = [pc |-> http.pc, number |-> http.number, route |-> http.route, token |-> http.token,
            flaw |-> http.flaw, checks |-> http.checks, fetches |-> http.fetches,
            published |-> http.published, roles |-> http.roles, handled |-> http.handled,
            actor |-> http.actor, status |-> http.status]

(* What is left of the dependencies of a route while they are solved. *)
Remaining(route) ==
    CASE route = "public" -> {<<>>}
      [] route = "session" -> {<<"principal">>, <<>>}
      [] route \in {"read", "write"} -> {<<"principal", "service">>, <<"service">>, <<>>}
      [] route \in {"review_read", "review"} ->
            {<<"principal", "service", "reviewer">>, <<"service", "reviewer">>,
             <<"reviewer">>, <<>>}
      [] route = "sync" ->
            {<<"principal", "admin", "connector", "service">>,
             <<"admin", "connector", "service">>, <<"connector", "service">>,
             <<"service">>, <<>>}

(* Heads and tails of the lists of dependencies. *)
LEMMA Tails ==
    /\ \A a : Tail(<<a>>) = <<>> /\ Head(<<a>>) = a
    /\ \A a, b : Tail(<<a, b>>) = <<b>> /\ Head(<<a, b>>) = a
    /\ \A a, b, c : Tail(<<a, b, c>>) = <<b, c>> /\ Head(<<a, b, c>>) = a
    /\ \A a, b, c, d : Tail(<<a, b, c, d>>) = <<b, c, d>> /\ Head(<<a, b, c, d>>) = a
OBVIOUS

(* Lengths of short sequences. *)
LEMMA Lengths ==
    /\ Len(<<>>) = 0
    /\ \A a : Len(<<a>>) = 1
    /\ \A a, b : Len(<<a, b>>) = 2
    /\ \A a, b, c : Len(<<a, b, c>>) = 3
    /\ \A a, b, c, d : Len(<<a, b, c, d>>) = 4
OBVIOUS

(* The principal of a request is that of its token, signed with a key that  *)
(* was published after its verifier was made.                               *)
Authenticated ==
    /\ http.roles # {} /\ http.roles \subseteq Role
    /\ server.auth # "disabled" =>
        /\ http.token.claims /\ http.roles = http.token.roles
        /\ http.token.key \in IF server.auth = "jwks" THEN http.published ELSE {FixedKey}

HostAccepted == http.flaw # "large" /\ (http.flaw = "foreign" => ~server.hosts)

BodyAccepted == HostAccepted /\ (http.flaw = "malformed" => ~HasBody(http.route))

(* What the dependencies solved so far have established. *)
Permitted ==
    LET all == Dependencies(http.route)
    IN  /\ http.route # "public" /\ http.checks # all => Authenticated
        /\ http.route \in {"review_read", "review"} /\ http.checks = <<>> =>
            can_review(http.roles)
        /\ http.route = "sync" /\ http.checks \notin {all, Tail(all)} => "admin" \in http.roles

(* Nothing else has happened to a request that is not answered. *)
AdmissionInv ==
    /\ HttpShape
    /\ issuer = [keys |-> issuer.keys, rotations |-> issuer.rotations]
    /\ http.route \in Routes /\ http.flaw \in Flaws
    /\ http.pc \in {"idle", "size", "host", "body", "dependencies", "verify", "handler", "answered"}
    /\ http.pc = "verify" => issuer.keys \subseteq http.published
    /\ http.pc = "host" => http.flaw # "large"
    /\ http.pc = "body" => HostAccepted
    /\ http.pc \in {"dependencies", "verify"} =>
        BodyAccepted /\ http.checks \in Remaining(http.route) /\ Permitted
    /\ http.pc = "verify" =>
        /\ http.route # "public" /\ http.checks = Dependencies(http.route)
        /\ resolver \subseteq http.published
    /\ (http.pc = "handler" \/ http.handled) =>
        /\ BodyAccepted /\ http.flaw # "invalid"
        /\ Suffices(http.route, http.roles)
        /\ http.route # "public" => Authenticated
    /\ http.handled =>
        /\ http.pc = "answered" /\ http.status \notin {401, 403}
        /\ http.actor = IF http.route = "review" /\ http.status = 200
                        THEN {audit_role(http.roles)} ELSE {}
    /\ http.pc # "answered" => ~http.handled

(* AdmissionInv holds when a request begins. *)
LEMMA AdmissionInit ==
    ASSUME AdmissionIdle \/ AdmissionBegin
    PROVE  AdmissionInv
<1>1. CASE AdmissionIdle
    BY <1>1 DEF AdmissionIdle, NoRequest, AdmissionInv, HttpShape, Routes, Flaws
<1>2. CASE AdmissionBegin
    BY <1>2 DEF AdmissionBegin, NoRequest, AdmissionInv, HttpShape, Routes, Flaws
<1> QED
    BY <1>1, <1>2

(* The request goes on, or is answered, or a dependency of it is solved.    *)
SameInput ==
    /\ http'.route = http.route /\ http'.token = http.token /\ http'.flaw = http.flaw
    /\ http'.published = http.published

(* A middleware that lets a request pass moves it on and nothing else. *)
LEMMA Advanced ==
    ASSUME HttpShape, NEW to, Advances(to)
    PROVE  /\ HttpShape' /\ SameInput /\ http'.pc = to /\ http'.checks = http.checks
           /\ http'.roles = http.roles /\ http'.handled = http.handled
<1>1. http' = [pc |-> to, number |-> http.number, route |-> http.route, token |-> http.token,
               flaw |-> http.flaw, checks |-> http.checks, fetches |-> http.fetches,
               published |-> http.published, roles |-> http.roles, handled |-> http.handled,
               actor |-> http.actor, status |-> http.status]
    BY DEF HttpShape, Advances
<1> QED
    BY <1>1 DEF HttpShape, SameInput

(* A refusal answers the request without the handler. *)
LEMMA Responded ==
    ASSUME HttpShape, NEW status, Responds(status)
    PROVE  /\ HttpShape' /\ SameInput /\ http'.pc = "answered" /\ http'.handled = http.handled
<1>1. http' = [pc |-> "answered", number |-> http.number, route |-> http.route,
               token |-> http.token, flaw |-> http.flaw, checks |-> http.checks,
               fetches |-> http.fetches, published |-> http.published, roles |-> http.roles,
               handled |-> http.handled, actor |-> http.actor, status |-> status]
    BY DEF HttpShape, Responds
<1> QED
    BY <1>1 DEF HttpShape, SameInput

(* A dependency that identifies the caller records its roles. *)
LEMMA SolvedWith ==
    ASSUME HttpShape, NEW roles, Solved([http EXCEPT !.roles = roles])
    PROVE  /\ HttpShape' /\ SameInput /\ http'.pc = "dependencies"
           /\ http'.checks = Tail(http.checks) /\ http'.roles = roles
           /\ http'.handled = http.handled
<1>1. http' = [pc |-> "dependencies", number |-> http.number, route |-> http.route,
               token |-> http.token, flaw |-> http.flaw, checks |-> Tail(http.checks),
               fetches |-> http.fetches, published |-> http.published, roles |-> roles,
               handled |-> http.handled, actor |-> http.actor, status |-> http.status]
    BY DEF HttpShape, Solved
<1> QED
    BY <1>1 DEF HttpShape, SameInput

(* A dependency that only checks leaves the caller alone. *)
LEMMA SolvedAlone ==
    ASSUME HttpShape, Solved(http)
    PROVE  /\ HttpShape' /\ SameInput /\ http'.pc = "dependencies"
           /\ http'.checks = Tail(http.checks) /\ http'.roles = http.roles
           /\ http'.handled = http.handled
<1>1. http = [http EXCEPT !.roles = http.roles]
    BY DEF HttpShape
<1>2. PICK roles : roles = http.roles
    OBVIOUS
<1>3. Solved([http EXCEPT !.roles = roles])
    BY <1>1, <1>2
<1> QED
    BY <1>2, <1>3, SolvedWith

(* A request that is answered before its handler ran. *)
LEMMA Refused ==
    ASSUME AdmissionInv, http.pc # "answered", http.pc # "idle", NEW status, Responds(status),
           UNCHANGED issuer
    PROVE  AdmissionInv'
<1>1. HttpShape
    BY DEF AdmissionInv
<1>2. /\ HttpShape' /\ SameInput /\ http'.pc = "answered" /\ http'.handled = http.handled
    BY <1>1, Responded
<1> QED
    BY <1>2 DEF AdmissionInv, SameInput

(* Receive preserves AdmissionInv. *)
LEMMA ReceiveKeeps == ASSUME AdmissionInv, Receive PROVE AdmissionInv'
<1>1. PICK route \in Routes, token \in Token \cup {NoToken}, flaw \in Flaws :
        http' = [NoRequest EXCEPT !.pc = "size", !.number = http.number + 1, !.route = route,
                    !.token = token, !.flaw = flaw]
    BY DEF Receive
<1>2. http' = [pc |-> "size", number |-> http.number + 1, route |-> route, token |-> token,
               flaw |-> flaw, checks |-> <<>>, fetches |-> 0, published |-> {},
               roles |-> {}, handled |-> FALSE, actor |-> {}, status |-> 0]
    BY <1>1 DEF NoRequest
<1>3. /\ HttpShape' /\ http'.pc = "size" /\ http'.route \in Routes /\ http'.flaw \in Flaws
      /\ ~http'.handled
    BY <1>2 DEF HttpShape
<1> QED
    BY <1>3 DEF AdmissionInv, Receive

(* The middlewares in front of the routes preserve AdmissionInv. *)
LEMMA EntryKeeps ==
    ASSUME AdmissionInv, log_requests \/ TrustedHost PROVE AdmissionInv'
<1>1. HttpShape
    BY DEF AdmissionInv
<1>2. ASSUME NEW status, Responds(status) PROVE AdmissionInv'
    BY <1>2, Refused DEF log_requests, TrustedHost
<1>3. CASE log_requests /\ Advances("host")
    <2>1. /\ HttpShape' /\ SameInput /\ http'.pc = "host" /\ http'.handled = http.handled
        BY <1>1, <1>3, Advanced
    <2>2. http.flaw # "large"
        <3>1. CASE http.flaw = "large"
            <4>1. Responds(413)
                BY <1>3, <3>1 DEF log_requests
            <4>2. http'.pc = "answered"
                BY <1>1, <4>1, Responded
            <4> QED
                BY <2>1, <4>2
        <3> QED
            BY <3>1
    <2> QED
        BY <1>3, <2>1, <2>2 DEF AdmissionInv, SameInput, log_requests
<1>4. CASE TrustedHost /\ Advances("body")
    <2>1. /\ HttpShape' /\ SameInput /\ http'.pc = "body" /\ http'.handled = http.handled
        BY <1>1, <1>4, Advanced
    <2>2. http.flaw = "foreign" => ~server.hosts
        <3>1. CASE server.hosts /\ http.flaw = "foreign"
            <4>1. Responds(400)
                BY <1>4, <3>1 DEF TrustedHost
            <4>2. http'.pc = "answered"
                BY <1>1, <4>1, Responded
            <4> QED
                BY <2>1, <4>2
        <3> QED
            BY <3>1
    <2> QED
        BY <1>4, <2>1, <2>2 DEF AdmissionInv, SameInput, TrustedHost, HostAccepted
<1> QED
    BY <1>2, <1>3, <1>4 DEF log_requests, TrustedHost

(* ParseBody preserves AdmissionInv. *)
LEMMA ParseBodyKeeps == ASSUME AdmissionInv, ParseBody PROVE AdmissionInv'
<1>1. HttpShape /\ http.route \in Routes
    BY DEF AdmissionInv
<1>2. CASE HasBody(http.route) /\ http.flaw = "malformed"
    BY <1>2, Refused DEF ParseBody
<1>3. CASE ~(HasBody(http.route) /\ http.flaw = "malformed")
    <2>1. http' = [pc |-> "dependencies", number |-> http.number, route |-> http.route,
                   token |-> http.token, flaw |-> http.flaw,
                   checks |-> Dependencies(http.route), fetches |-> http.fetches,
                   published |-> http.published, roles |-> http.roles,
                   handled |-> http.handled, actor |-> http.actor, status |-> http.status]
        BY <1>1, <1>3 DEF ParseBody, HttpShape
    <2>2. /\ HttpShape' /\ SameInput /\ http'.pc = "dependencies"
          /\ http'.checks = Dependencies(http.route) /\ http'.handled = http.handled
        BY <2>1 DEF HttpShape, SameInput
    <2>3. Dependencies(http.route) \in Remaining(http.route)
        BY <1>1 DEF Routes, Dependencies, Remaining
    <2>4. http.route \in {"review_read", "review"} => Dependencies(http.route) # <<>>
        BY DEF Dependencies
    <2>5. Permitted'
        BY <2>2, <2>4 DEF Permitted, SameInput
    <2>6. BodyAccepted'
        BY <1>3, <2>2 DEF AdmissionInv, ParseBody, BodyAccepted, HostAccepted, SameInput
    <2> QED
        BY <2>2, <2>3, <2>5, <2>6 DEF AdmissionInv, SameInput, ParseBody
<1> QED
    BY <1>2, <1>3

(* Which dependency is at the head says how far the request has come. *)
LEMMA HeadOfRemaining ==
    ASSUME NEW route \in Routes, NEW c \in Remaining(route), c # <<>>
    PROVE  /\ Tail(c) \in Remaining(route)
           /\ route # "public"
           /\ Tail(c) # Dependencies(route)
           /\ (Head(c) = "principal") <=> c = Dependencies(route)
           /\ Tail(c) = <<>> /\ route \in {"review_read", "review"} => Head(c) = "reviewer"
           /\ route = "sync" =>
                /\ Head(c) = "principal" => Tail(c) = Tail(Dependencies(route))
                /\ c = Tail(Dependencies(route)) => Head(c) = "admin"
<1>1. PICK D, p, sv, rv, ad, cn :
        /\ D = Dependencies(route)
        /\ p = "principal" /\ sv = "service" /\ rv = "reviewer" /\ ad = "admin"
        /\ cn = "connector"
    OBVIOUS
<1>2. CASE route = "public"
    BY <1>2 DEF Remaining
<1>3. CASE route = "session"
    <2>1. c = <<p>> /\ D = <<p>> /\ Remaining(route) = {<<p>>, <<>>}
        BY <1>1, <1>3 DEF Remaining, Dependencies
    <2>2. Head(c) = p /\ Tail(c) = <<>> /\ Tail(c) # D
        BY <2>1, Tails, Lengths
    <2> QED
        BY <1>1, <1>3, <2>1, <2>2
<1>4. CASE route \in {"read", "write"}
    <2>1. c \in {<<p, sv>>, <<sv>>} /\ D = <<p, sv>> /\ Remaining(route) = {<<p, sv>>, <<sv>>, <<>>}
        BY <1>1, <1>4 DEF Remaining, Dependencies
    <2>2. CASE c = <<p, sv>>
        <3>1. Head(c) = p /\ Tail(c) = <<sv>> /\ Tail(c) # D /\ Tail(c) # <<>>
            BY <2>1, <2>2, Tails, Lengths
        <3> QED
            BY <1>1, <1>4, <2>1, <2>2, <3>1
    <2>3. CASE c = <<sv>>
        <3>1. Head(c) = sv /\ Tail(c) = <<>> /\ Tail(c) # D /\ c # D
            BY <2>1, <2>3, Tails, Lengths
        <3> QED
            BY <1>1, <1>4, <2>1, <2>3, <3>1
    <2> QED
        BY <2>1, <2>2, <2>3
<1>5. CASE route \in {"review_read", "review"}
    <2>1. /\ c \in {<<p, sv, rv>>, <<sv, rv>>, <<rv>>} /\ D = <<p, sv, rv>>
          /\ Remaining(route) = {<<p, sv, rv>>, <<sv, rv>>, <<rv>>, <<>>}
        BY <1>1, <1>5 DEF Remaining, Dependencies
    <2>2. CASE c = <<p, sv, rv>>
        <3>1. Head(c) = p /\ Tail(c) = <<sv, rv>> /\ Tail(c) # D /\ Tail(c) # <<>>
            BY <2>1, <2>2, Tails, Lengths
        <3> QED
            BY <1>1, <1>5, <2>1, <2>2, <3>1
    <2>3. CASE c = <<sv, rv>>
        <3>1. Head(c) = sv /\ Tail(c) = <<rv>> /\ Tail(c) # D /\ c # D /\ Tail(c) # <<>>
            BY <2>1, <2>3, Tails, Lengths
        <3> QED
            BY <1>1, <1>5, <2>1, <2>3, <3>1
    <2>4. CASE c = <<rv>>
        <3>1. Head(c) = rv /\ Tail(c) = <<>> /\ Tail(c) # D /\ c # D
            BY <2>1, <2>4, Tails, Lengths
        <3> QED
            BY <1>1, <1>5, <2>1, <2>4, <3>1
    <2> QED
        BY <2>1, <2>2, <2>3, <2>4
<1>6. CASE route = "sync"
    <2>1. /\ c \in {<<p, ad, cn, sv>>, <<ad, cn, sv>>, <<cn, sv>>, <<sv>>}
          /\ D = <<p, ad, cn, sv>> /\ Tail(D) = <<ad, cn, sv>>
          /\ Remaining(route) = {<<p, ad, cn, sv>>, <<ad, cn, sv>>, <<cn, sv>>, <<sv>>, <<>>}
        BY <1>1, <1>6, Tails DEF Remaining, Dependencies
    <2>2. CASE c = <<p, ad, cn, sv>>
        <3>1. Head(c) = p /\ Tail(c) = <<ad, cn, sv>> /\ Tail(c) # D /\ c # Tail(D)
            BY <2>1, <2>2, Tails, Lengths
        <3> QED
            BY <1>1, <1>6, <2>1, <2>2, <3>1
    <2>3. CASE c = <<ad, cn, sv>>
        <3>1. Head(c) = ad /\ Tail(c) = <<cn, sv>> /\ Tail(c) # D /\ c # D
            BY <2>1, <2>3, Tails, Lengths
        <3> QED
            BY <1>1, <1>6, <2>1, <2>3, <3>1
    <2>4. CASE c = <<cn, sv>>
        <3>1. Head(c) = cn /\ Tail(c) = <<sv>> /\ Tail(c) # D /\ c # D /\ c # Tail(D)
            BY <2>1, <2>4, Tails, Lengths
        <3> QED
            BY <1>1, <1>6, <2>1, <2>4, <3>1
    <2>5. CASE c = <<sv>>
        <3>1. Head(c) = sv /\ Tail(c) = <<>> /\ Tail(c) # D /\ c # D /\ c # Tail(D)
            BY <2>1, <2>5, Tails, Lengths
        <3> QED
            BY <1>1, <1>6, <2>1, <2>5, <3>1
    <2> QED
        BY <2>1, <2>2, <2>3, <2>4, <2>5
<1> QED
    BY <1>2, <1>3, <1>4, <1>5, <1>6 DEF Routes

(* get_token_verifier preserves AdmissionInv. *)
LEMMA VerifierKeeps == ASSUME AdmissionInv, get_token_verifier PROVE AdmissionInv'
<1>1. /\ HttpShape /\ http.route \in Routes /\ http.checks \in Remaining(http.route)
      /\ http.checks # <<>> /\ Head(http.checks) = "principal"
    BY DEF AdmissionInv, get_token_verifier, Solving
<1>2. http.route # "public" /\ http.checks = Dependencies(http.route)
    BY <1>1, HeadOfRemaining
<1>3. http' = [pc |-> "verify", number |-> http.number, route |-> http.route,
               token |-> http.token, flaw |-> http.flaw, checks |-> http.checks,
               fetches |-> http.fetches, published |-> issuer.keys, roles |-> http.roles,
               handled |-> http.handled, actor |-> http.actor, status |-> http.status]
    BY <1>1 DEF HttpShape, get_token_verifier
<1>4. /\ HttpShape' /\ http'.pc = "verify" /\ http'.checks = http.checks
      /\ http'.route = http.route /\ http'.flaw = http.flaw
      /\ http'.roles = http.roles /\ http'.handled = http.handled
      /\ http'.published = issuer.keys
    BY <1>3 DEF HttpShape
<1>5. /\ BodyAccepted /\ Permitted /\ ~http.handled /\ http.flaw \in Flaws
      /\ server' = server /\ issuer' = issuer /\ resolver' = {}
    BY DEF AdmissionInv, get_token_verifier, Solving
<1>6. Permitted'
    BY <1>1, <1>2, <1>4, <1>5 DEF Permitted
<1>7. BodyAccepted'
    BY <1>4, <1>5 DEF BodyAccepted, HostAccepted
<1> QED
    BY <1>1, <1>2, <1>4, <1>5, <1>6, <1>7 DEF AdmissionInv

(* The principal is known. *)
LEMMA AuthenticatedKeeps ==
    ASSUME AdmissionInv, http.pc = "verify", NEW roles, Solved([http EXCEPT !.roles = roles]),
           roles # {}, roles \subseteq Role,
           server.auth # "disabled" =>
            /\ http.token.claims /\ roles = http.token.roles
            /\ http.token.key \in IF server.auth = "jwks" THEN http.published ELSE {FixedKey},
           UNCHANGED <<server, issuer, resolver>>
    PROVE  AdmissionInv'
<1>1. /\ HttpShape /\ http.route \in Routes /\ http.route # "public"
      /\ http.checks = Dependencies(http.route) /\ http.checks \in Remaining(http.route)
      /\ BodyAccepted
    BY DEF AdmissionInv
<1>2. http.checks # <<>>
    BY <1>1 DEF Routes, Dependencies
<1>3. /\ Tail(http.checks) \in Remaining(http.route)
      /\ Head(http.checks) = "principal"
      /\ Tail(http.checks) = <<>> => http.route \notin {"review_read", "review"}
      /\ http.route = "sync" => Tail(http.checks) = Tail(Dependencies(http.route))
    BY <1>1, <1>2, HeadOfRemaining
<1>4. /\ HttpShape' /\ SameInput /\ http'.pc = "dependencies"
      /\ http'.checks = Tail(http.checks) /\ http'.roles = roles
      /\ http'.handled = http.handled
    BY <1>1, SolvedWith
<1>5. Authenticated'
    BY <1>4 DEF Authenticated, SameInput
<1>6. Permitted'
    BY <1>3, <1>4, <1>5 DEF Permitted, SameInput
<1>7. BodyAccepted'
    BY <1>1, <1>4 DEF BodyAccepted, HostAccepted, SameInput
<1> QED
    BY <1>3, <1>4, <1>6, <1>7 DEF AdmissionInv, SameInput

(* The dependency that reads the principal preserves AdmissionInv. *)
LEMMA PrincipalKeeps ==
    ASSUME AdmissionInv, http.pc = "verify", principal_from_claims,
           server.auth # "disabled" =>
            http.token.key \in IF server.auth = "jwks" THEN http.published ELSE {FixedKey},
           UNCHANGED <<server, issuer, resolver>>
    PROVE  AdmissionInv'
<1>1. PICK roles : roles = http.token.roles
    OBVIOUS
<1>2. CASE http.token.claims /\ roles # {} /\ roles \subseteq Role
    <2>1. Solved([http EXCEPT !.roles = roles])
        BY <1>1, <1>2 DEF principal_from_claims
    <2> QED
        BY <1>1, <1>2, <2>1, AuthenticatedKeeps
<1>3. CASE ~(http.token.claims /\ roles # {} /\ roles \subseteq Role)
    <2>1. Responds(401)
        BY <1>1, <1>3 DEF principal_from_claims
    <2> QED
        BY <2>1, Refused
<1> QED
    BY <1>2, <1>3

(* The check of a token, with the key as it was fetched, preserves AdmissionInv. *)
LEMMA VerifyKeeps ==
    ASSUME AdmissionInv,
           LocalDevelopment \/ NoCredentials \/ LocalJWTVerifier \/ FetchKeys \/ UnknownKey
           \/ OIDCJWKSVerifier
    PROVE  AdmissionInv'
<1>1. http.pc = "verify"
    BY DEF LocalDevelopment, NoCredentials, LocalJWTVerifier, FetchKeys, UnknownKey,
       OIDCJWKSVerifier, Resolving, Verifies
<1>2. CASE LocalDevelopment
    <2>1. PICK roles : roles = {"admin"}
        OBVIOUS
    <2>2. /\ Solved([http EXCEPT !.roles = roles]) /\ server.auth = "disabled"
          /\ roles # {} /\ roles \subseteq Role
        BY <1>2, <2>1 DEF LocalDevelopment, Role
    <2> QED
        BY <1>1, <1>2, <2>2, AuthenticatedKeeps DEF LocalDevelopment
<1>3. CASE NoCredentials \/ UnknownKey
    BY <1>1, <1>3, Refused DEF NoCredentials, UnknownKey
<1>4. CASE LocalJWTVerifier
    <2>1. CASE http.token.key = FixedKey
        BY <1>1, <1>4, <2>1, PrincipalKeeps DEF LocalJWTVerifier
    <2>2. CASE http.token.key # FixedKey
        BY <1>1, <1>4, <2>2, Refused DEF LocalJWTVerifier
    <2> QED
        BY <2>1, <2>2
<1>5. CASE OIDCJWKSVerifier
    <2>1. http.token.key \in http.published
        BY <1>1, <1>5 DEF AdmissionInv, OIDCJWKSVerifier
    <2> QED
        BY <1>1, <1>5, <2>1, PrincipalKeeps DEF OIDCJWKSVerifier, Resolving
<1>6. CASE FetchKeys /\ Responds(401)
    BY <1>1, <1>6, Refused DEF FetchKeys
<1>7. CASE FetchKeys /\ resolver' = issuer.keys /\ http' = [http EXCEPT !.fetches = @ + 1]
    <2>1. HttpShape
        BY DEF AdmissionInv
    <2>2. http' = [pc |-> http.pc, number |-> http.number, route |-> http.route,
                   token |-> http.token, flaw |-> http.flaw, checks |-> http.checks,
                   fetches |-> http.fetches + 1, published |-> http.published,
                   roles |-> http.roles, handled |-> http.handled, actor |-> http.actor,
                   status |-> http.status]
        BY <1>7, <2>1 DEF HttpShape
    <2>3. /\ HttpShape' /\ SameInput /\ http'.pc = http.pc /\ http'.checks = http.checks
          /\ http'.roles = http.roles /\ http'.handled = http.handled
        BY <2>2 DEF HttpShape, SameInput
    <2>4. server' = server /\ issuer' = issuer /\ resolver' \subseteq http.published
        BY <1>1, <1>7 DEF FetchKeys, AdmissionInv
    <2>5. BodyAccepted' /\ Permitted'
        BY <1>1, <2>3, <2>4 DEF AdmissionInv, BodyAccepted, HostAccepted, Permitted, Authenticated,
           SameInput
    <2> QED
        BY <1>1, <2>3, <2>4, <2>5 DEF AdmissionInv, SameInput
<1> QED
    BY <1>2, <1>3, <1>4, <1>5, <1>6, <1>7 DEF FetchKeys

(* A dependency other than the principal: those of a reviewer and of an     *)
(* administrator are solved for nobody else.                                *)
LEMMA RequiresKeeps ==
    ASSUME AdmissionInv, NEW dependency, dependency # "principal", NEW condition \in BOOLEAN,
           NEW status, Requires(dependency, condition, status),
           dependency = "reviewer" /\ condition => can_review(http.roles),
           dependency = "admin" /\ condition => "admin" \in http.roles
    PROVE  AdmissionInv'
<1>1. /\ HttpShape /\ http.route \in Routes /\ http.checks \in Remaining(http.route)
      /\ http.checks # <<>> /\ Head(http.checks) = dependency /\ BodyAccepted /\ Permitted
      /\ http.pc = "dependencies" /\ ~http.handled
      /\ server' = server /\ issuer' = issuer /\ resolver' = resolver
    BY DEF AdmissionInv, Requires, Solving
<1>2. CASE ~condition
    BY <1>1, <1>2, Refused DEF Requires
<1>3. CASE condition
    <2>1. Solved(http)
        BY <1>3 DEF Requires
    <2>2. /\ HttpShape' /\ SameInput /\ http'.pc = "dependencies"
          /\ http'.checks = Tail(http.checks) /\ http'.roles = http.roles
          /\ http'.handled = http.handled
        BY <1>1, <2>1, SolvedAlone
    <2>3. /\ Tail(http.checks) \in Remaining(http.route)
          /\ http.route # "public"
          /\ http.checks # Dependencies(http.route)
          /\ Tail(http.checks) = <<>> /\ http.route \in {"review_read", "review"} =>
                dependency = "reviewer"
          /\ http.route = "sync" /\ http.checks = Tail(Dependencies(http.route)) =>
                dependency = "admin"
        BY <1>1, HeadOfRemaining
    <2>4. Authenticated
        BY <1>1, <2>3 DEF Permitted
    <2>5. Authenticated'
        BY <1>1, <2>2, <2>4 DEF Authenticated, SameInput
    <2>6. http.route = "sync" => "admin" \in http.roles
        BY <1>1, <1>3, <2>3 DEF Permitted
    <2>7. http.route \in {"review_read", "review"} /\ Tail(http.checks) = <<>> =>
            can_review(http.roles)
        BY <1>3, <2>3
    <2>8. Permitted'
        BY <2>2, <2>5, <2>6, <2>7 DEF Permitted, SameInput
    <2>9. BodyAccepted'
        BY <1>1, <2>2 DEF BodyAccepted, HostAccepted, SameInput
    <2> QED
        BY <1>1, <2>2, <2>3, <2>8, <2>9 DEF AdmissionInv, SameInput
<1> QED
    BY <1>2, <1>3

(* The dependencies that check roles, settings and session preserve it. *)
LEMMA DependencyKeeps ==
    ASSUME AdmissionInv,
           require_reviewer_or_admin \/ require_admin \/ require_policy_repository_settings
           \/ get_db_session
    PROVE  AdmissionInv'
<1>1. CASE require_reviewer_or_admin
    <2>1. PICK condition \in BOOLEAN : condition <=> can_review(http.roles)
        BY DEF can_review
    <2>2. Requires("reviewer", condition, 403)
        BY <1>1, <2>1 DEF require_reviewer_or_admin, Requires
    <2> QED
        BY <2>1, <2>2, RequiresKeeps
<1>2. CASE require_admin
    <2>1. PICK condition \in BOOLEAN : condition <=> "admin" \in http.roles
        OBVIOUS
    <2>2. Requires("admin", condition, 403)
        BY <1>2, <2>1 DEF require_admin, Requires
    <2> QED
        BY <2>1, <2>2, RequiresKeeps
<1>3. CASE require_policy_repository_settings
    <2>1. PICK condition \in BOOLEAN : condition <=> server.connector
        OBVIOUS
    <2>2. Requires("connector", condition, 503)
        BY <1>3, <2>1 DEF require_policy_repository_settings, Requires
    <2> QED
        BY <2>2, RequiresKeeps
<1>4. CASE get_db_session
    <2>1. PICK made \in BOOLEAN, status \in {500, 503} : Requires("service", made, status)
        BY <1>4 DEF get_db_session
    <2> QED
        BY <2>1, RequiresKeeps
<1> QED
    BY <1>1, <1>2, <1>3, <1>4

(* Validate preserves AdmissionInv. *)
LEMMA ValidateKeeps == ASSUME AdmissionInv, Validate PROVE AdmissionInv'
<1>1. /\ HttpShape /\ http.route \in Routes /\ BodyAccepted /\ Permitted /\ http.checks = <<>>
      /\ http.pc = "dependencies" /\ ~http.handled
      /\ server' = server /\ issuer' = issuer /\ resolver' = resolver
    BY DEF AdmissionInv, Validate
<1>2. CASE http.flaw = "invalid"
    BY <1>1, <1>2, Refused DEF Validate
<1>3. CASE http.flaw # "invalid"
    <2>1. Advances("handler")
        BY <1>3 DEF Validate
    <2>2. /\ HttpShape' /\ SameInput /\ http'.pc = "handler"
          /\ http'.roles = http.roles /\ http'.handled = http.handled
        BY <1>1, <2>1, Advanced
    <2>3. http.route # "public" => <<>> # Dependencies(http.route)
        BY <1>1, Lengths DEF Routes, Dependencies
    <2>4. http.route = "sync" =>
            <<>> \notin {Dependencies(http.route), Tail(Dependencies(http.route))}
        BY Tails, Lengths DEF Dependencies
    <2>5. http.route # "public" => Authenticated
        BY <1>1, <2>3 DEF Permitted
    <2>6. http.route = "sync" => "admin" \in http.roles
        BY <1>1, <2>4 DEF Permitted
    <2>7. http.route \in {"review_read", "review"} => can_review(http.roles)
        BY <1>1 DEF Permitted
    <2>8. Suffices(http.route, http.roles)
        BY <1>1, <2>5, <2>6, <2>7 DEF Suffices, Authenticated, Routes
    <2>9. BodyAccepted' /\ Suffices(http.route, http.roles)'
        BY <1>1, <2>2, <2>8 DEF BodyAccepted, HostAccepted, SameInput
    <2>10. (http.route # "public" => Authenticated)'
        BY <1>1, <2>2, <2>5 DEF Authenticated, SameInput
    <2> QED
        BY <1>1, <1>3, <2>2, <2>9, <2>10 DEF AdmissionInv, SameInput
<1> QED
    BY <1>2, <1>3

(* Handle preserves AdmissionInv. *)
LEMMA HandleKeeps == ASSUME AdmissionInv, Handle PROVE AdmissionInv'
<1>1. /\ HttpShape /\ http.route \in Routes /\ BodyAccepted /\ http.flaw # "invalid"
      /\ Suffices(http.route, http.roles) /\ (http.route # "public" => Authenticated)
      /\ server' = server /\ issuer' = issuer /\ resolver' = resolver
      /\ http.pc = "handler"
    BY DEF AdmissionInv, Handle
<1>2. PICK status \in Statuses(http.route) \cup {500} :
        http' = [http EXCEPT !.pc = "answered", !.handled = TRUE, !.status = status,
                    !.actor = IF http.route = "review" /\ status = 200
                              THEN {audit_role(http.roles)} ELSE {}]
    BY DEF Handle
<1>3. PICK actor : actor = IF http.route = "review" /\ status = 200
                           THEN {audit_role(http.roles)} ELSE {}
    <2>1. PICK one, none : one = {audit_role(http.roles)} /\ none = {}
        OBVIOUS
    <2>2. \E actor : actor = IF http.route = "review" /\ status = 200 THEN one ELSE none
        OBVIOUS
    <2> QED
        BY <2>1, <2>2
<1>4. http' = [pc |-> "answered", number |-> http.number, route |-> http.route,
               token |-> http.token, flaw |-> http.flaw, checks |-> http.checks,
               fetches |-> http.fetches, published |-> http.published, roles |-> http.roles,
               handled |-> TRUE, actor |-> actor, status |-> status]
    BY <1>1, <1>2, <1>3 DEF HttpShape
<1>5. /\ HttpShape' /\ SameInput /\ http'.pc = "answered" /\ http'.roles = http.roles
      /\ http'.handled /\ http'.actor = actor /\ http'.status = status
    BY <1>4 DEF HttpShape, SameInput
<1>6. status \notin {401, 403}
    BY <1>1, <1>2 DEF Statuses, Routes
<1>7. http'.actor = IF http'.route = "review" /\ http'.status = 200
                    THEN {audit_role(http'.roles)} ELSE {}
    BY <1>3, <1>5 DEF SameInput
<1>8. BodyAccepted' /\ Suffices(http.route, http.roles)'
    BY <1>1, <1>5 DEF BodyAccepted, HostAccepted, SameInput
<1>9. (http.route # "public" => Authenticated)'
    BY <1>1, <1>5 DEF Authenticated, SameInput
<1> QED
    BY <1>1, <1>5, <1>6, <1>7, <1>8, <1>9 DEF AdmissionInv, SameInput

(* Close preserves AdmissionInv. *)
LEMMA CloseKeeps == ASSUME AdmissionInv, Close PROVE AdmissionInv'
<1>1. http' = [pc |-> "idle", number |-> http.number, route |-> "public", token |-> NoToken,
               flaw |-> "none", checks |-> <<>>, fetches |-> 0, published |-> {}, roles |-> {},
               handled |-> FALSE, actor |-> {}, status |-> 0]
    BY DEF Close, NoRequest
<1>2. HttpShape' /\ http'.pc = "idle" /\ http'.route = "public" /\ http'.flaw = "none"
      /\ ~http'.handled
    BY <1>1 DEF HttpShape
<1> QED
    BY <1>2 DEF AdmissionInv, Close, Routes, Flaws

(* The issuer changes its keys while a request is under way. *)
LEMMA RotateKeeps == ASSUME AdmissionInv, Rotate PROVE AdmissionInv'
<1>1. PICK keySet : /\ issuer' = [keys |-> keySet, rotations |-> issuer.rotations + 1]
                    /\ http' = [http EXCEPT !.published = IF http.pc = "verify"
                                                          THEN @ \cup keySet ELSE @]
    BY DEF Rotate
<1>2. HttpShape /\ server' = server /\ resolver' = resolver
    BY DEF AdmissionInv, Rotate
<1>3. PICK published : published = IF http.pc = "verify" THEN http.published \cup keySet
                                   ELSE http.published
    OBVIOUS
<1>4. http' = [pc |-> http.pc, number |-> http.number, route |-> http.route,
               token |-> http.token, flaw |-> http.flaw, checks |-> http.checks,
               fetches |-> http.fetches, published |-> published, roles |-> http.roles,
               handled |-> http.handled, actor |-> http.actor, status |-> http.status]
    BY <1>1, <1>2, <1>3 DEF HttpShape
<1>5. /\ HttpShape' /\ http'.pc = http.pc /\ http'.route = http.route
      /\ http'.token = http.token /\ http'.flaw = http.flaw /\ http'.checks = http.checks
      /\ http'.roles = http.roles /\ http'.handled = http.handled
      /\ http'.actor = http.actor /\ http'.status = http.status
      /\ http'.published = published
    BY <1>4 DEF HttpShape
<1>6. /\ issuer'.keys = keySet /\ issuer' = [keys |-> issuer'.keys, rotations |-> issuer'.rotations]
    BY <1>1
<1>7. /\ http.published \subseteq http'.published
      /\ http.pc = "verify" => keySet \subseteq http'.published
    BY <1>3, <1>5
<1>8. Authenticated => Authenticated'
    BY <1>2, <1>5, <1>7 DEF Authenticated
<1>9. (BodyAccepted <=> BodyAccepted') /\ (HostAccepted <=> HostAccepted')
    BY <1>2, <1>5 DEF BodyAccepted, HostAccepted
<1>10. Permitted => Permitted'
    BY <1>5, <1>8 DEF Permitted
<1> QED
    BY <1>2, <1>5, <1>6, <1>7, <1>8, <1>9, <1>10 DEF AdmissionInv

(* AdmissionInv is inductive. *)
LEMMA AdmissionStep ==
    ASSUME AdmissionInv, [AdmissionNext]_admissionVars
    PROVE  AdmissionInv'
<1>1. CASE UNCHANGED admissionVars
    <2>1. server' = server /\ issuer' = issuer /\ resolver' = resolver /\ http' = http
        BY <1>1 DEF admissionVars
    <2>2. /\ (Authenticated <=> Authenticated') /\ (BodyAccepted <=> BodyAccepted')
          /\ (HostAccepted <=> HostAccepted')
        BY <2>1 DEF Authenticated, BodyAccepted, HostAccepted
    <2>3. (Permitted <=> Permitted') /\ (HttpShape <=> HttpShape')
        BY <2>1, <2>2 DEF Permitted, HttpShape
    <2> QED
        BY <2>1, <2>2, <2>3 DEF AdmissionInv
<1>2. CASE AdmissionNext
    BY <1>2, ReceiveKeeps, EntryKeeps, ParseBodyKeeps, VerifierKeeps, VerifyKeeps,
       DependencyKeeps, ValidateKeeps, HandleKeeps, CloseKeeps, RotateKeeps DEF AdmissionNext
<1> QED
    BY <1>1, <1>2

(* audit_role names the strongest of the roles. *)
LEMMA AuditRole ==
    ASSUME NEW roles, roles # {}, roles \subseteq Role
    PROVE  Strongest(roles) = {audit_role(roles)}
<1>1. Authority("analyst") = 1 /\ Authority("reviewer") = 2 /\ Authority("admin") = 3
    BY DEF Authority
<1>2. \A r \in roles : r = "analyst" \/ r = "reviewer" \/ r = "admin"
    BY DEF Role
<1>3. CASE "admin" \in roles
    <2>1. audit_role(roles) = "admin"
        BY <1>3 DEF audit_role
    <2> QED
        BY <1>1, <1>2, <1>3, <2>1 DEF Strongest
<1>4. CASE "admin" \notin roles /\ "reviewer" \in roles
    <2>1. audit_role(roles) = "reviewer"
        BY <1>4 DEF audit_role
    <2> QED
        BY <1>1, <1>2, <1>4, <2>1 DEF Strongest
<1>5. CASE "admin" \notin roles /\ "reviewer" \notin roles
    <2>1. audit_role(roles) = "analyst" /\ roles = {"analyst"}
        BY <1>2, <1>5 DEF audit_role
    <2> QED
        BY <1>1, <2>1 DEF Strongest
<1> QED
    BY <1>3, <1>4, <1>5

(* No handler runs without a principal that was verified for this very      *)
(* request and whose roles suffice, and a review is recorded under the      *)
(* strongest of them, for any keys, roles and rotations of the issuer       *)
(* (get_authenticated_principal, require_reviewer_or_admin, require_admin,  *)
(* audit_role).                                                             *)
THEOREM AdmissionSafe == PartSpec => []AdmissionIsSound
<1>1. PartInit => AdmissionInv
    BY PartBegins, AdmissionInit
<1>2. AdmissionInv /\ [PartNext]_partVars => AdmissionInv'
    BY PartSteps, AdmissionStep
<1>3. AdmissionInv => AdmissionIsSound
    <2> SUFFICES ASSUME AdmissionInv PROVE AdmissionIsSound
        OBVIOUS
    <2>1. http.handled => http.status \notin {401, 403}
        BY DEF AdmissionInv
    <2>2. ASSUME http.handled
          PROVE  /\ \/ http.flaw = "none"
                    \/ http.flaw = "malformed" /\ ~HasBody(http.route)
                    \/ http.flaw = "foreign" /\ ~server.hosts
                 /\ Suffices(http.route, http.roles)
                 /\ (server.auth # "disabled" /\ http.route # "public") =>
                        /\ http.token.claims /\ http.roles = http.token.roles
                        /\ http.token.key \in IF server.auth = "jwks" THEN http.published
                                              ELSE {FixedKey}
        BY <2>2 DEF AdmissionInv, BodyAccepted, HostAccepted, Flaws, Authenticated
    <2>3. ASSUME http.handled
          PROVE  http.actor = IF http.route = "review" /\ http.status = 200
                              THEN Strongest(http.roles) ELSE {}
        <3>1. http.route = "review" => http.roles # {} /\ http.roles \subseteq Role
            BY <2>3 DEF AdmissionInv, Authenticated
        <3>2. http.route = "review" => Strongest(http.roles) = {audit_role(http.roles)}
            BY <3>1, AuditRole
        <3> QED
            BY <2>3, <3>2 DEF AdmissionInv
    <2> QED
        BY <2>1, <2>2, <2>3 DEF AdmissionIsSound
<1> QED
    BY <1>1, <1>2, <1>3, PTL DEF PartSpec

-----------------------------------------------------------------------------
(* Calls of the providers. *)

CallShape ==
    call = [pc |-> call.pc, kind |-> call.kind, texts |-> call.texts, batch |-> call.batch,
            attempt |-> call.attempt, raised |-> call.raised, vectors |-> call.vectors,
            sound |-> call.sound, result |-> call.result]

MetricsType ==
    /\ metrics = [model |-> metrics.model, embedding |-> metrics.embedding,
                  retries |-> metrics.retries, timeouts |-> metrics.timeouts,
                  usage |-> metrics.usage]
    /\ metrics.model \in Nat /\ metrics.embedding \in Nat /\ metrics.retries \in Nat
    /\ metrics.timeouts \in Nat /\ metrics.usage \in Nat

LedgerType ==
    /\ ledger = [calls |-> ledger.calls, operations |-> ledger.operations,
                 executed |-> ledger.executed, usage |-> ledger.usage,
                 timeouts |-> ledger.timeouts, surrendered |-> ledger.surrendered]
    /\ ledger.operations \in Nat /\ ledger.executed \in Nat /\ ledger.usage \in Nat
    /\ ledger.timeouts \in Nat /\ ledger.surrendered \in Nat

(* The attempts n operations may take. *)
Allowed(n) == n * (MaxRetries + 1)

(* An operation that was attempted is to be attempted again. *)
Retrying == call.pc = "attempt" /\ call.attempt > 0

(* A call that reports a failure of the provider gave up for a reason. *)
GaveUp ==
    call.result \in {"llm_provider_error", "embedding_provider_error"} =>
        call.raised = "ProviderPermanentError" \/ call.attempt = MaxRetries

(* While an operation is attempted, it has executed no more often than it   *)
(* has been attempted.                                                      *)
Counters ==
    /\ Retrying =>
        /\ ledger.operations + metrics.retries = metrics.model + metrics.embedding + 1
        /\ ledger.executed <= Allowed(ledger.operations) - (MaxRetries + 1) + call.attempt
    /\ ~Retrying => ledger.operations + metrics.retries = metrics.model + metrics.embedding
    /\ ledger.executed <= Allowed(ledger.operations)
    /\ metrics.usage = ledger.usage
    /\ metrics.timeouts = ledger.timeouts - ledger.surrendered

CallsInv ==
    /\ CallShape /\ MetricsType /\ LedgerType
    /\ call.attempt \in 0..MaxRetries
    /\ call.pc = "attempt" => call.result = "none"
    /\ GaveUp
    /\ Counters

(* Each operation allows one call and its retries. *)
LEMMA AllowedFacts ==
    /\ MaxRetries \in Nat
    /\ Allowed(0) = 0
    /\ \A n \in Nat : Allowed(n) \in Nat /\ Allowed(n + 1) = Allowed(n) + MaxRetries + 1
<1>1. MaxRetries \in Nat
    BY RetryAssumption
<1>2. \A n, k \in Nat : n * k \in Nat /\ (n + 1) * k = n * k + k /\ 0 * k = 0
    OBVIOUS
<1>3. MaxRetries + 1 \in Nat
    BY <1>1
<1>4. \A n \in Nat : /\ n * (MaxRetries + 1) \in Nat
                     /\ (n + 1) * (MaxRetries + 1) = n * (MaxRetries + 1) + (MaxRetries + 1)
                     /\ 0 * (MaxRetries + 1) = 0
    BY <1>2, <1>3
<1> QED
    BY <1>1, <1>4 DEF Allowed

(* CallsInv holds before the first call. *)
LEMMA CallInit ==
    ASSUME CallIdle \/ CallBegin
    PROVE  CallsInv
<1>1. /\ metrics = [model |-> 0, embedding |-> 0, retries |-> 0, timeouts |-> 0, usage |-> 0]
      /\ ledger = [calls |-> 0, operations |-> 0, executed |-> 0, usage |-> 0,
                   timeouts |-> 0, surrendered |-> 0]
      /\ call = NoCall \/ call = [NoCall EXCEPT !.pc = "ready"]
    BY DEF CallIdle, CallBegin
<1>2. CallShape /\ call.pc # "attempt" /\ call.attempt = 0 /\ call.result = "none"
    BY <1>1 DEF NoCall, CallShape
<1>3. MetricsType /\ LedgerType
    BY <1>1 DEF MetricsType, LedgerType
<1>4. GaveUp /\ ~Retrying
    BY <1>2 DEF GaveUp, Retrying
<1>5. Counters
    BY <1>1, <1>4, AllowedFacts DEF Counters
<1> QED
    BY <1>2, <1>3, <1>4, <1>5, AllowedFacts DEF CallsInv

(* The recorder and the history after an attempt. *)
LEMMA RecordedFields ==
    ASSUME MetricsType, NEW u \in BOOLEAN, NEW m, m = Recorded(u)
    PROVE  /\ m = [model |-> m.model, embedding |-> m.embedding, retries |-> m.retries,
                   timeouts |-> m.timeouts, usage |-> m.usage]
           /\ m.model \in Nat /\ m.embedding \in Nat /\ m.usage \in Nat
           /\ m.model + m.embedding = metrics.model + metrics.embedding + 1
           /\ m.retries = metrics.retries /\ m.timeouts = metrics.timeouts
           /\ u /\ ~Embedding(call) => m.usage = metrics.usage + 1
           /\ ~u => m.usage = metrics.usage
<1>1. CASE Embedding(call)
    <2>1. m = [model |-> metrics.model, embedding |-> metrics.embedding + 1,
               retries |-> metrics.retries, timeouts |-> metrics.timeouts,
               usage |-> metrics.usage]
        BY <1>1 DEF Recorded, MetricsType
    <2> QED
        BY <1>1, <2>1 DEF MetricsType
<1>2. CASE ~Embedding(call)
    <2>1. PICK v : (u => v = metrics.usage + 1) /\ (~u => v = metrics.usage)
        OBVIOUS
    <2>2. m = [model |-> metrics.model + 1, embedding |-> metrics.embedding,
               retries |-> metrics.retries, timeouts |-> metrics.timeouts, usage |-> v]
        BY <1>2, <2>1 DEF Recorded, MetricsType
    <2> QED
        BY <1>2, <2>1, <2>2 DEF MetricsType
<1> QED
    BY <1>1, <1>2

(* What one attempt adds to the ledger. *)
LEMMA AskedFields ==
    ASSUME LedgerType, NEW x \in BOOLEAN, NEW u \in BOOLEAN, NEW l, l = Asked(x, u)
    PROVE  /\ l = [calls |-> l.calls, operations |-> l.operations, executed |-> l.executed,
                   usage |-> l.usage, timeouts |-> l.timeouts, surrendered |-> l.surrendered]
           /\ l.executed \in Nat /\ l.usage \in Nat
           /\ l.timeouts = ledger.timeouts /\ l.surrendered = ledger.surrendered
           /\ l.executed <= ledger.executed + 1
           /\ u => l.usage = ledger.usage + 1
           /\ ~u => l.usage = ledger.usage
           /\ call.attempt = 0 => l.operations = ledger.operations + 1
           /\ call.attempt # 0 => l.operations = ledger.operations
<1>1. PICK n : /\ call.attempt = 0 => n = ledger.operations + 1
               /\ call.attempt # 0 => n = ledger.operations
    OBVIOUS
<1>2. PICK e : (x => e = ledger.executed + 1) /\ (~x => e = ledger.executed)
    OBVIOUS
<1>3. PICK v : (u => v = ledger.usage + 1) /\ (~u => v = ledger.usage)
    OBVIOUS
<1>4. l = [calls |-> ledger.calls, operations |-> n, executed |-> e, usage |-> v,
           timeouts |-> ledger.timeouts, surrendered |-> ledger.surrendered]
    BY <1>1, <1>2, <1>3 DEF Asked, LedgerType
<1>5. e \in Nat /\ v \in Nat /\ e <= ledger.executed + 1
    BY <1>2, <1>3 DEF LedgerType
<1> QED
    BY <1>1, <1>2, <1>3, <1>4, <1>5

(* A call starts: nothing is recorded yet. *)
LEMMA StartKeeps ==
    ASSUME CallsInv, NEW c, Start(c),
           c = [pc |-> c.pc, kind |-> c.kind, texts |-> c.texts, batch |-> c.batch,
                attempt |-> 0, raised |-> c.raised, vectors |-> c.vectors,
                sound |-> c.sound, result |-> c.result],
           c.pc = "attempt" => c.result = "none",
           c.result \notin {"llm_provider_error", "embedding_provider_error"}
    PROVE  CallsInv'
<1>1. /\ call' = c /\ metrics' = metrics /\ call.pc # "attempt"
      /\ ledger' = [calls |-> ledger.calls + 1, operations |-> ledger.operations,
                    executed |-> ledger.executed, usage |-> ledger.usage,
                    timeouts |-> ledger.timeouts, surrendered |-> ledger.surrendered]
    BY DEF Start, CallsInv, LedgerType
<1>2. CallShape' /\ call'.attempt = 0
    BY <1>1 DEF CallShape
<1>3. MetricsType' /\ LedgerType'
    BY <1>1 DEF CallsInv, MetricsType, LedgerType
<1>4. ~Retrying /\ ~Retrying' /\ GaveUp'
    BY <1>1, <1>2 DEF Retrying, GaveUp
<1>5. /\ ledger'.operations = ledger.operations /\ ledger'.executed = ledger.executed
      /\ ledger'.usage = ledger.usage /\ ledger'.timeouts = ledger.timeouts
      /\ ledger'.surrendered = ledger.surrendered
    BY <1>1
<1>6. Counters'
    BY <1>1, <1>4, <1>5 DEF CallsInv, Counters, Allowed
<1> QED
    BY <1>1, <1>2, <1>3, <1>4, <1>6, AllowedFacts DEF CallsInv

(* An attempt is answered, or what it raises is not retried. *)
LEMMA Settled ==
    ASSUME CallsInv, call.pc = "attempt", NEW x \in BOOLEAN, NEW u \in BOOLEAN,
           u => ~Embedding(call),
           metrics' = Recorded(u), ledger' = Asked(x, u),
           CallShape', GaveUp', call'.attempt \in 0..MaxRetries,
           call'.pc = "attempt" => call'.attempt = 0 /\ call'.result = "none"
    PROVE  CallsInv'
<1>1. MetricsType /\ LedgerType /\ Counters /\ call.attempt \in 0..MaxRetries
    BY DEF CallsInv
<1>2. PICK m : m = Recorded(u)
    OBVIOUS
<1>3. PICK l : l = Asked(x, u)
    OBVIOUS
<1>4. metrics' = m /\ ledger' = l
    BY <1>2, <1>3
<1>5. /\ m = [model |-> m.model, embedding |-> m.embedding, retries |-> m.retries,
              timeouts |-> m.timeouts, usage |-> m.usage]
      /\ m.model \in Nat /\ m.embedding \in Nat /\ m.usage \in Nat
      /\ m.model + m.embedding = metrics.model + metrics.embedding + 1
      /\ m.retries = metrics.retries /\ m.timeouts = metrics.timeouts
      /\ u => m.usage = metrics.usage + 1
      /\ ~u => m.usage = metrics.usage
    BY <1>1, <1>2, RecordedFields
<1>6. /\ l = [calls |-> l.calls, operations |-> l.operations, executed |-> l.executed,
              usage |-> l.usage, timeouts |-> l.timeouts, surrendered |-> l.surrendered]
      /\ l.executed \in Nat /\ l.usage \in Nat
      /\ l.timeouts = ledger.timeouts /\ l.surrendered = ledger.surrendered
      /\ l.executed <= ledger.executed + 1
      /\ u => l.usage = ledger.usage + 1
      /\ ~u => l.usage = ledger.usage
      /\ call.attempt = 0 => l.operations = ledger.operations + 1
      /\ call.attempt # 0 => l.operations = ledger.operations
    BY <1>1, <1>3, AskedFields
<1>7. MetricsType' /\ LedgerType'
    BY <1>1, <1>4, <1>5, <1>6 DEF MetricsType, LedgerType
<1>8. ~Retrying'
    BY AllowedFacts DEF Retrying
<1>9. /\ l.operations + m.retries = m.model + m.embedding
      /\ l.executed <= Allowed(l.operations)
      /\ m.usage = l.usage /\ m.timeouts = l.timeouts - l.surrendered
    <2>1. CASE call.attempt = 0
        <3>1. ~Retrying /\ l.operations = ledger.operations + 1
            BY <1>6, <2>1 DEF Retrying
        <3>2. Allowed(l.operations) = Allowed(ledger.operations) + MaxRetries + 1
            BY <1>1, <3>1, AllowedFacts DEF LedgerType
        <3>3. Allowed(ledger.operations) \in Nat /\ MaxRetries \in Nat
            BY <1>1, AllowedFacts DEF LedgerType
        <3>4. l.operations + m.retries = m.model + m.embedding
            BY <1>1, <1>5, <3>1 DEF Counters, MetricsType, LedgerType
        <3>5. l.executed <= Allowed(l.operations)
            BY <1>1, <1>6, <3>2, <3>3 DEF Counters, LedgerType
        <3> QED
            BY <1>1, <1>5, <1>6, <3>4, <3>5 DEF Counters
    <2>2. CASE call.attempt # 0
        BY <1>1, <1>5, <1>6, <2>2, AllowedFacts
           DEF Counters, Retrying, MetricsType, LedgerType
    <2> QED
        BY <2>1, <2>2
<1>10. Counters'
    BY <1>4, <1>8, <1>9 DEF Counters, Allowed
<1> QED
    BY <1>7, <1>10 DEF CallsInv

(* What the caller sees of an exception. *)
LEMMA Errors ==
    ASSUME NEW c, NEW e, NEW seen,
           seen = IF Embedding(c) THEN EmbeddingError(e) ELSE ChatError(e),
           seen \in {"llm_provider_error", "embedding_provider_error"}
    PROVE  e \in ProviderErrors
<1>1. CASE Embedding(c)
    BY <1>1 DEF EmbeddingError
<1>2. CASE ~Embedding(c)
    BY <1>2 DEF ChatError
<1> QED
    BY <1>1, <1>2

(* An operation that gives up keeps the error of its last attempt. *)
LEMMA Raises ==
    ASSUME CallsInv, NEW e, call' = Raise(call, e)
    PROVE  /\ CallShape' /\ call'.pc = "done" /\ call'.raised = e
           /\ call'.attempt = call.attempt
           /\ call'.result \in {"llm_provider_error", "embedding_provider_error"} =>
                e \in ProviderErrors
<1>1. PICK seen : seen = IF Embedding(call) THEN EmbeddingError(e) ELSE ChatError(e)
    OBVIOUS
<1>2. call' = [pc |-> "done", kind |-> call.kind, texts |-> call.texts, batch |-> call.batch,
               attempt |-> call.attempt, raised |-> e, vectors |-> call.vectors,
               sound |-> call.sound, result |-> seen]
    BY <1>1 DEF Raise, CallsInv, CallShape
<1>3. call'.result = seen
    BY <1>2
<1>4. CallShape' /\ call'.pc = "done" /\ call'.raised = e /\ call'.attempt = call.attempt
    BY <1>2 DEF CallShape
<1> QED
    BY <1>1, <1>3, <1>4, Errors

(* AttemptFails preserves CallsInv. *)
LEMMA AttemptFailsKeeps ==
    ASSUME CallsInv, NEW e, NEW x \in BOOLEAN, AttemptFails(e, x)
    PROVE  CallsInv'
<1>1. PICK failure : failure = _normalize_provider_error(e)
    OBVIOUS
<1>2. PICK category : category = classify_failure(failure)
    OBVIOUS
<1>3. PICK again \in BOOLEAN :
        again <=> category \in {"transient", "timeout"} /\ call.attempt < MaxRetries
    OBVIOUS
<1>4. PICK m : m = Recorded(FALSE)
    OBVIOUS
<1>5. PICK l : l = Asked(x, FALSE)
    OBVIOUS
<1>6. PICK t \in BOOLEAN : t <=> category = "timeout"
    OBVIOUS
<1>7. /\ call.pc = "attempt"
      /\ again => call' = [call EXCEPT !.attempt = @ + 1]
      /\ ~again => call' = Raise(call, failure)
      /\ ~again => metrics' = m
      /\ again => metrics' = [m EXCEPT !.retries = @ + 1, !.timeouts = IF t THEN @ + 1 ELSE @]
      /\ ledger' = [l EXCEPT !.timeouts = IF t THEN @ + 1 ELSE @,
                             !.surrendered = IF t /\ ~again THEN @ + 1 ELSE @]
    BY <1>1, <1>2, <1>3, <1>4, <1>5, <1>6 DEF AttemptFails
<1>8. MetricsType /\ LedgerType /\ Counters /\ call.attempt \in 0..MaxRetries
    BY DEF CallsInv
<1>9. /\ m = [model |-> m.model, embedding |-> m.embedding, retries |-> m.retries,
              timeouts |-> m.timeouts, usage |-> m.usage]
      /\ m.model \in Nat /\ m.embedding \in Nat /\ m.usage \in Nat
      /\ m.model + m.embedding = metrics.model + metrics.embedding + 1
      /\ m.retries = metrics.retries /\ m.timeouts = metrics.timeouts
      /\ m.usage = metrics.usage
    BY <1>4, <1>8, RecordedFields
<1>10. /\ l = [calls |-> l.calls, operations |-> l.operations, executed |-> l.executed,
               usage |-> l.usage, timeouts |-> l.timeouts, surrendered |-> l.surrendered]
       /\ l.executed \in Nat /\ l.usage \in Nat
       /\ l.timeouts = ledger.timeouts /\ l.surrendered = ledger.surrendered
       /\ l.executed <= ledger.executed + 1
       /\ l.usage = ledger.usage
       /\ call.attempt = 0 => l.operations = ledger.operations + 1
       /\ call.attempt # 0 => l.operations = ledger.operations
    BY <1>5, <1>8, AskedFields
<1>11. /\ ledger'.operations = l.operations /\ ledger'.executed = l.executed
       /\ ledger'.usage = l.usage
       /\ ledger'.timeouts = IF t THEN l.timeouts + 1 ELSE l.timeouts
       /\ ledger'.surrendered = IF t /\ ~again THEN l.surrendered + 1 ELSE l.surrendered
       /\ ledger' = [calls |-> ledger'.calls, operations |-> ledger'.operations,
                     executed |-> ledger'.executed, usage |-> ledger'.usage,
                     timeouts |-> ledger'.timeouts, surrendered |-> ledger'.surrendered]
    <2>1. PICK a : a = IF t THEN l.timeouts + 1 ELSE l.timeouts
        OBVIOUS
    <2>2. PICK b : b = IF t /\ ~again THEN l.surrendered + 1 ELSE l.surrendered
        OBVIOUS
    <2>3. ledger' = [calls |-> l.calls, operations |-> l.operations, executed |-> l.executed,
                     usage |-> l.usage, timeouts |-> a, surrendered |-> b]
        BY <1>7, <1>10, <2>1, <2>2
    <2> QED
        BY <2>1, <2>2, <2>3
<1>12. LedgerType'
    BY <1>8, <1>10, <1>11 DEF LedgerType
<1>13. CASE again
    <2>1. /\ call' = [pc |-> call.pc, kind |-> call.kind, texts |-> call.texts,
                      batch |-> call.batch, attempt |-> call.attempt + 1,
                      raised |-> call.raised, vectors |-> call.vectors,
                      sound |-> call.sound, result |-> call.result]
        BY <1>7, <1>13 DEF CallsInv, CallShape
    <2>2. /\ CallShape' /\ call'.pc = "attempt" /\ call'.attempt = call.attempt + 1
          /\ call'.result = "none"
        BY <1>7, <2>1 DEF CallShape, CallsInv
    <2>3. PICK a : a = IF t THEN m.timeouts + 1 ELSE m.timeouts
        OBVIOUS
    <2>4. metrics' = [model |-> m.model, embedding |-> m.embedding, retries |-> m.retries + 1,
                      timeouts |-> a, usage |-> m.usage]
        BY <1>7, <1>9, <1>13, <2>3
    <2>5. /\ metrics'.model = m.model /\ metrics'.embedding = m.embedding
          /\ metrics'.retries = m.retries + 1 /\ metrics'.timeouts = a
          /\ metrics'.usage = m.usage
        BY <2>4
    <2>6. a \in Nat
        BY <1>8, <1>9, <2>3 DEF MetricsType
    <2>7. MetricsType'
        BY <1>8, <1>9, <2>4, <2>5, <2>6 DEF MetricsType
    <2>8. call'.attempt \in 0..MaxRetries /\ GaveUp' /\ Retrying'
        BY <1>3, <1>8, <1>13, <2>2, AllowedFacts DEF GaveUp, Retrying
    <2>9. ledger'.operations + metrics'.retries = metrics'.model + metrics'.embedding + 1
        BY <1>7, <1>8, <1>9, <1>10, <1>11, <2>5 DEF Counters, Retrying, MetricsType, LedgerType
    <2>10. ledger'.executed <= Allowed(ledger'.operations) - (MaxRetries + 1) + call'.attempt
        BY <1>7, <1>8, <1>10, <1>11, <2>2, AllowedFacts DEF Counters, Retrying, LedgerType
    <2>11. ledger'.executed <= Allowed(ledger'.operations)
        BY <1>12, <2>8, <2>10, AllowedFacts DEF LedgerType
    <2>12. /\ metrics'.usage = ledger'.usage
           /\ metrics'.timeouts = ledger'.timeouts - ledger'.surrendered
        BY <1>8, <1>9, <1>10, <1>11, <1>13, <2>3, <2>5 DEF Counters, MetricsType, LedgerType
    <2>13. Counters'
        BY <2>8, <2>9, <2>10, <2>11, <2>12 DEF Counters, Allowed
    <2> QED
        BY <1>12, <2>2, <2>7, <2>8, <2>13 DEF CallsInv
<1>14. CASE ~again
    <2>1. /\ CallShape' /\ call'.pc = "done" /\ call'.raised = failure
          /\ call'.attempt = call.attempt
          /\ call'.result \in {"llm_provider_error", "embedding_provider_error"} =>
               failure \in ProviderErrors
        BY <1>7, <1>14, Raises
    <2>2. GaveUp'
        <3>1. failure \in ProviderErrors =>
                failure = "ProviderPermanentError" \/ category \in {"transient", "timeout"}
            BY <1>2 DEF ProviderErrors, classify_failure
        <3>2. category \in {"transient", "timeout"} => call.attempt = MaxRetries
            BY <1>3, <1>8, <1>14, AllowedFacts
        <3> QED
            BY <2>1, <3>1, <3>2 DEF GaveUp
    <2>3. MetricsType'
        BY <1>7, <1>8, <1>9, <1>14 DEF MetricsType
    <2>4. ~Retrying'
        BY <2>1 DEF Retrying
    <2>5. metrics' = m
        BY <1>7, <1>14
    <2>6. /\ ledger'.operations + m.retries = m.model + m.embedding
          /\ ledger'.executed <= Allowed(ledger'.operations)
        BY <1>7, <1>8, <1>9, <1>10, <1>11, AllowedFacts
           DEF Counters, Retrying, MetricsType, LedgerType
    <2>7. m.usage = ledger'.usage /\ m.timeouts = ledger'.timeouts - ledger'.surrendered
        BY <1>8, <1>9, <1>10, <1>11, <1>14 DEF Counters, MetricsType, LedgerType
    <2>8. Counters'
        BY <2>4, <2>5, <2>6, <2>7 DEF Counters, Allowed
    <2> QED
        BY <1>8, <1>12, <2>1, <2>2, <2>3, <2>8 DEF CallsInv
<1> QED
    BY <1>13, <1>14

(* The operations that begin a call preserve CallsInv. *)
LEMMA StartsKeep ==
    ASSUME CallsInv, generate_structured \/ decide_tool_call \/ embed_texts
    PROVE  CallsInv'
<1>1. CASE generate_structured
    <2>1. PICK c : c = [NoCall EXCEPT !.pc = "attempt", !.kind = "structured"]
        OBVIOUS
    <2>2. c = [pc |-> "attempt", kind |-> "structured", texts |-> 0, batch |-> 0, attempt |-> 0,
               raised |-> "none", vectors |-> <<>>, sound |-> TRUE, result |-> "none"]
        BY <2>1 DEF NoCall
    <2>3. Start(c)
        BY <1>1, <2>1 DEF generate_structured
    <2> QED
        BY <2>2, <2>3, StartKeeps
<1>2. CASE decide_tool_call
    <2>1. PICK c : c = [NoCall EXCEPT !.pc = "attempt", !.kind = "tool"]
        OBVIOUS
    <2>2. c = [pc |-> "attempt", kind |-> "tool", texts |-> 0, batch |-> 0, attempt |-> 0,
               raised |-> "none", vectors |-> <<>>, sound |-> TRUE, result |-> "none"]
        BY <2>1 DEF NoCall
    <2>3. Start(c)
        BY <1>2, <2>1 DEF decide_tool_call
    <2> QED
        BY <2>2, <2>3, StartKeeps
<1>3. CASE embed_texts
    <2> DEFINE Of(n) == [NoCall EXCEPT !.kind = "embed", !.texts = n]
               Begun(n, blank) ==
                    CASE n = 0 \/ blank ->
                            [Of(n) EXCEPT !.pc = "done", !.result = "invalid_embedding"]
                      [] n > 0 /\ ~blank /\ "openai" \notin keys ->
                            [Of(n) EXCEPT !.pc = "done", !.result = "embedding_not_configured"]
                      [] OTHER -> [Of(n) EXCEPT !.pc = "attempt"]
    <2>1. \E n \in TextCounts, blank \in BOOLEAN : Start(Begun(n, blank))
        BY <1>3 DEF embed_texts
    <2>2. PICK n \in TextCounts, blank \in BOOLEAN : Start(Begun(n, blank))
        BY <2>1
    <2>3. PICK begun : begun = Of(n)
        OBVIOUS
    <2>4. PICK c : c = Begun(n, blank)
        OBVIOUS
    <2>5. \/ c = [begun EXCEPT !.pc = "done", !.result = "invalid_embedding"]
          \/ c = [begun EXCEPT !.pc = "done", !.result = "embedding_not_configured"]
          \/ c = [begun EXCEPT !.pc = "attempt"]
        BY <2>3, <2>4
    <2>6. Start(c)
        BY <2>2, <2>4
    <2>7. begun = [NoCall EXCEPT !.kind = "embed", !.texts = n]
        BY <2>3
    <2> HIDE DEF Of, Begun
    <2>8. begun = [pc |-> "idle", kind |-> "embed", texts |-> n, batch |-> 0, attempt |-> 0,
                   raised |-> "none", vectors |-> <<>>, sound |-> TRUE, result |-> "none"]
        BY <2>7 DEF NoCall
    <2>9. CASE c = [begun EXCEPT !.pc = "done", !.result = "invalid_embedding"]
        <3>1. c = [pc |-> "done", kind |-> "embed", texts |-> n, batch |-> 0, attempt |-> 0,
                   raised |-> "none", vectors |-> <<>>, sound |-> TRUE,
                   result |-> "invalid_embedding"]
            BY <2>8, <2>9
        <3> QED
            BY <2>6, <3>1, StartKeeps
    <2>10. CASE c = [begun EXCEPT !.pc = "done", !.result = "embedding_not_configured"]
        <3>1. c = [pc |-> "done", kind |-> "embed", texts |-> n, batch |-> 0, attempt |-> 0,
                   raised |-> "none", vectors |-> <<>>, sound |-> TRUE,
                   result |-> "embedding_not_configured"]
            BY <2>8, <2>10
        <3> QED
            BY <2>6, <3>1, StartKeeps
    <2>11. CASE c = [begun EXCEPT !.pc = "attempt"]
        <3>1. c = [pc |-> "attempt", kind |-> "embed", texts |-> n, batch |-> 0, attempt |-> 0,
                   raised |-> "none", vectors |-> <<>>, sound |-> TRUE, result |-> "none"]
            BY <2>8, <2>11
        <3> QED
            BY <2>6, <3>1, StartKeeps
    <2> QED
        BY <2>5, <2>9, <2>10, <2>11
<1> QED
    BY <1>1, <1>2, <1>3

(* The calls that fail without a retry preserve CallsInv. *)
LEMMA FailuresKeep ==
    ASSUME CallsInv, NotConfigured \/ ProviderFails
    PROVE  CallsInv'
<1>1. \E e, x : x \in BOOLEAN /\ AttemptFails(e, x)
    BY DEF NotConfigured, ProviderFails
<1> QED
    BY <1>1, AttemptFailsKeeps

(* The call that an answer ends, or whose next batch it leaves. *)
LEMMA AnswerKeeps ==
    ASSUME CallsInv, NEW c, NEW u \in BOOLEAN, Answer(c, u), u => ~Embedding(call),
           c = [pc |-> c.pc, kind |-> c.kind, texts |-> c.texts, batch |-> c.batch,
                attempt |-> c.attempt, raised |-> c.raised, vectors |-> c.vectors,
                sound |-> c.sound, result |-> c.result],
           c.attempt \in {0, call.attempt},
           c.pc = "attempt" => c.attempt = 0 /\ c.result = "none",
           c.result \notin {"llm_provider_error", "embedding_provider_error"}
    PROVE  CallsInv'
<1>1. /\ call.pc = "attempt" /\ call' = c
      /\ metrics' = Recorded(u) /\ ledger' = Asked(TRUE, u)
    BY DEF Answer
<1>2. CallShape' /\ GaveUp' /\ call'.attempt \in 0..MaxRetries
    BY <1>1, AllowedFacts DEF CallShape, GaveUp, CallsInv
<1> QED
    BY <1>1, <1>2, Settled

(* The answers of the model preserve CallsInv. *)
LEMMA AnswersKeep ==
    ASSUME CallsInv, StructuredAnswer \/ ToolAnswer
    PROVE  CallsInv'
<1>1. PICK u \in BOOLEAN,
           outcome \in {"ok", "invalid_llm_response", "no_call", "ok_without_arguments"} :
        Answer([call EXCEPT !.pc = "done", !.result = outcome], u)
    BY DEF StructuredAnswer, ToolAnswer
<1>2. ~Embedding(call)
    BY DEF StructuredAnswer, ToolAnswer, Embedding
<1>3. PICK c : c = [call EXCEPT !.pc = "done", !.result = outcome]
    OBVIOUS
<1>4. c = [pc |-> "done", kind |-> call.kind, texts |-> call.texts, batch |-> call.batch,
           attempt |-> call.attempt, raised |-> call.raised, vectors |-> call.vectors,
           sound |-> call.sound, result |-> outcome]
    BY <1>3 DEF CallsInv, CallShape
<1> QED
    BY <1>1, <1>2, <1>3, <1>4, AnswerKeeps

(* EmbeddingAnswer preserves CallsInv. *)
LEMMA EmbeddingAnswerKeeps ==
    ASSUME CallsInv, EmbeddingAnswer
    PROVE  CallsInv'
<1>1. Embedding(call) /\ CallShape
    BY DEF EmbeddingAnswer, CallsInv
<1>2. ASSUME NEW r,
             LET c == [call EXCEPT !.vectors = @ \o Ordered(r.items), !.attempt = 0,
                                   !.batch = @ + BatchSize, !.sound = @ /\ r.sound]
             IN  Answer(IF c.batch < c.texts THEN c ELSE Checked(c), FALSE)
      PROVE  CallsInv'
    <2>1. PICK c : c = [call EXCEPT !.vectors = @ \o Ordered(r.items), !.attempt = 0,
                                    !.batch = @ + BatchSize, !.sound = @ /\ r.sound]
        OBVIOUS
    <2>2. PICK vectors, sound : vectors = call.vectors \o Ordered(r.items)
                                /\ sound = (call.sound /\ r.sound)
        OBVIOUS
    <2>3. c = [pc |-> call.pc, kind |-> call.kind, texts |-> call.texts,
               batch |-> call.batch + BatchSize, attempt |-> 0, raised |-> call.raised,
               vectors |-> vectors, sound |-> sound, result |-> call.result]
        BY <1>1, <2>1, <2>2 DEF CallShape
    <2>4. PICK d : d = IF c.batch < c.texts THEN c ELSE Checked(c)
        OBVIOUS
    <2>5. Answer(d, FALSE)
        BY <1>2, <2>1, <2>4
    <2>6. call.pc = "attempt" /\ call.result = "none"
        BY <2>5 DEF Answer, CallsInv
    <2>7. CASE d = c
        BY <2>3, <2>5, <2>6, <2>7, AnswerKeeps
    <2>8. CASE d = Checked(c)
        <3>1. PICK outcome \in {"invalid_embedding", "ok"} :
                d = [c EXCEPT !.pc = "done", !.result = outcome]
            BY <2>8 DEF Checked
        <3>2. d = [pc |-> "done", kind |-> call.kind, texts |-> call.texts,
                   batch |-> call.batch + BatchSize, attempt |-> 0, raised |-> call.raised,
                   vectors |-> vectors, sound |-> sound, result |-> outcome]
            BY <2>3, <3>1
        <3> QED
            BY <2>5, <3>2, AnswerKeeps
    <2> QED
        BY <2>4, <2>7, <2>8
<1>3. ASSUME NEW e \in {"AttributeError", "TypeError"}, Answer(Raise(call, e), FALSE)
      PROVE  CallsInv'
    <2>1. PICK c : c = Raise(call, e)
        OBVIOUS
    <2>2. c = [pc |-> "done", kind |-> call.kind, texts |-> call.texts, batch |-> call.batch,
               attempt |-> call.attempt, raised |-> e, vectors |-> call.vectors,
               sound |-> call.sound, result |-> "invalid_embedding"]
        <3>1. EmbeddingError(e) = "invalid_embedding"
            BY DEF EmbeddingError, ProviderErrors
        <3> QED
            BY <1>1, <2>1, <3>1 DEF Raise, CallShape
    <2> QED
        BY <1>3, <2>1, <2>2, AnswerKeeps
<1> QED
    BY <1>2, <1>3 DEF EmbeddingAnswer

(* CallsInv is inductive. *)
LEMMA CallStep ==
    ASSUME CallsInv, [CallNext]_callVars
    PROVE  CallsInv'
<1>1. CASE UNCHANGED callVars
    <2>1. call' = call /\ metrics' = metrics /\ ledger' = ledger
        BY <1>1 DEF callVars
    <2>2. (CallShape => CallShape') /\ (MetricsType => MetricsType') /\ (LedgerType => LedgerType')
        BY <2>1 DEF CallShape, MetricsType, LedgerType
    <2>3. (GaveUp => GaveUp') /\ (Retrying' <=> Retrying)
        BY <2>1 DEF GaveUp, Retrying
    <2>4. Counters => Counters'
        BY <2>1, <2>3 DEF Counters, Allowed
    <2> QED
        BY <2>1, <2>2, <2>3, <2>4 DEF CallsInv
<1>2. CASE CallNext
    BY <1>2, StartsKeep, FailuresKeep, AnswersKeep, EmbeddingAnswerKeeps DEF CallNext
<1> QED
    BY <1>1, <1>2

(* The recorder explains what the providers were asked, and no operation is *)
(* attempted more often than PROVIDER_MAX_RETRIES allows, for any number of *)
(* calls, texts, batches and retries (run_with_retry,                       *)
(* RuntimeMetricsRecorder).                                                 *)
THEOREM CallsSafe == PartSpec => []CallsAreAccounted
<1>1. PartInit => CallsInv
    BY PartBegins, CallInit
<1>2. CallsInv /\ [PartNext]_partVars => CallsInv'
    BY PartSteps, CallStep
<1>3. CallsInv => CallsAreAccounted
    <2> SUFFICES ASSUME CallsInv PROVE CallsAreAccounted
        OBVIOUS
    <2>1. CASE Retrying
        BY <2>1, AllowedFacts
           DEF CallsInv, Counters, Retrying, GaveUp, Allowed, MetricsType, CallsAreAccounted
    <2>2. CASE ~Retrying
        BY <2>2, AllowedFacts
           DEF CallsInv, Counters, Retrying, GaveUp, Allowed, MetricsType, CallsAreAccounted
    <2> QED
        BY <2>1, <2>2
<1> QED
    BY <1>1, <1>2, <1>3, PTL DEF PartSpec

-----------------------------------------------------------------------------
(* Embeddings. *)

(* Vectors of distinct positions in T, in the order of the texts. *)
Rises(v, n, T) ==
    /\ n \in Nat /\ v = [i \in 1..n |-> v[i]] /\ \A i \in 1..n : v[i].of \in T
    /\ \A i, j \in 1..n : i < j => v[i].of < v[j].of

Rising(v, T) == \E n \in Nat : Rises(v, n, T)

(* The positions whose batches have been answered. *)
Answered(c) == {i \in 1..c.texts : i <= c.batch}

(* What sorted() by index returns. *)
LEMMA OrderedBy ==
    ASSUME NEW items, NEW D, D = DOMAIN items, NEW R, NEW o, o = InOrder(D, R),
           R = {q \in D \X D : \/ items[q[1]].index < items[q[2]].index
                               \/ items[q[1]].index = items[q[2]].index /\ q[1] < q[2]}
    PROVE  Ordered(items) = [k \in DOMAIN o |-> items[o[k]].vector]
BY DEF Ordered

(* The items at D carry the index and the vector of distinct positions p. *)
Carries(items, D, p, B) ==
    /\ IsFiniteSet(D) /\ D \subseteq Int /\ p \in [D -> B] /\ DOMAIN items = D
    /\ \A i, j \in D : i # j => p[i] # p[j]
    /\ \A k \in D : items[k].index = p[k] /\ items[k].vector.of = p[k]

(* sorted() by index puts vectors of distinct positions in order. *)
LEMMA SortedRises ==
    ASSUME NEW B, B \subseteq Nat, NEW D, NEW p, NEW items, Carries(items, D, p, B)
    PROVE  Rising(Ordered(items), B)
<1>0. /\ IsFiniteSet(D) /\ D \subseteq Int /\ p \in [D -> B] /\ DOMAIN items = D
      /\ \A i, j \in D : i # j => p[i] # p[j]
      /\ \A k \in D : items[k].index = p[k] /\ items[k].vector.of = p[k]
    BY DEF Carries
<1>1. PICK R : R = {q \in D \X D : \/ items[q[1]].index < items[q[2]].index
                                   \/ items[q[1]].index = items[q[2]].index /\ q[1] < q[2]}
    OBVIOUS
<1>2. ASSUME NEW x \in D, NEW y \in D PROVE <<x, y>> \in R <=> p[x] < p[y]
    <2>1. <<x, y>> \in R <=> (p[x] < p[y] \/ (p[x] = p[y] /\ x < y))
        BY <1>0, <1>1
    <2>2. p[x] = p[y] => x = y
        BY <1>0
    <2>3. x \in Int
        BY <1>0
    <2> QED
        BY <2>1, <2>2, <2>3
<1>3. Orders(R, D)
    <2>0. \A x \in D : p[x] \in Nat
        BY <1>0
    <2>1. ASSUME NEW x \in D PROVE <<x, x>> \notin R
        BY <1>2, <2>0
    <2>2. ASSUME NEW x \in D, NEW y \in D, NEW z \in D, <<x, y>> \in R, <<y, z>> \in R
          PROVE  <<x, z>> \in R
        <3>1. p[x] < p[y] /\ p[y] < p[z]
            BY <1>2, <2>2
        <3>2. p[x] < p[z]
            BY <2>0, <3>1
        <3> QED
            BY <1>2, <3>2
    <2>3. ASSUME NEW x \in D, NEW y \in D, x # y PROVE <<x, y>> \in R \/ <<y, x>> \in R
        <3>1. p[x] # p[y]
            BY <1>0, <2>3
        <3>2. p[x] < p[y] \/ p[y] < p[x]
            BY <2>0, <3>1
        <3> QED
            BY <1>2, <3>2
    <2>4. \A x, y, z \in D : <<x, y>> \in R /\ <<y, z>> \in R => <<x, z>> \in R
        BY <2>2
    <2>5. \A x, y \in D : x # y => <<x, y>> \in R \/ <<y, x>> \in R
        BY <1>0, <2>3
    <2>6. IsFiniteSet(D)
        BY <1>0
    <2> QED
        BY <2>1, <2>4, <2>5, <2>6, Zenon DEF Orders
<1>4. PICK o : o = InOrder(D, R)
    OBVIOUS
<1>5. PICK m : m = Cardinality(D)
    OBVIOUS
<1>6. /\ m \in Nat /\ o \in [1..m -> D]
       /\ \A i, j \in 1..m : i < j => <<o[i], o[j]>> \in R
    BY <1>3, <1>4, <1>5, InOrderIsBijective
<1>7. Ordered(items) = [k \in 1..m |-> items[o[k]].vector]
    <2>1. Ordered(items) = [k \in DOMAIN o |-> items[o[k]].vector]
        BY <1>0, <1>1, <1>4, OrderedBy
    <2>2. DOMAIN o = 1..m
        BY <1>0, <1>6
    <2> QED
        BY <2>1, <2>2
<1>8. ASSUME NEW k \in 1..m
       PROVE  items[o[k]].vector.of = p[o[k]] /\ p[o[k]] \in B
    BY <1>0, <1>6
<1>9. PICK v : v = Ordered(items)
    OBVIOUS
<1>10. v = [k \in 1..m |-> v[k]] /\ \A k \in 1..m : v[k].of \in B
    <2>1. ASSUME NEW k \in 1..m PROVE v[k].of \in B
        <3>1. v[k] = items[o[k]].vector
            BY <1>7, <1>9
        <3> QED
            BY <1>8, <3>1
    <2>2. v = [k \in 1..m |-> v[k]]
        BY <1>7, <1>9
    <2> QED
        BY <2>1, <2>2
<1>11. ASSUME NEW i \in 1..m, NEW j \in 1..m, i < j PROVE v[i].of < v[j].of
    <2>1. v[i].of = p[o[i]] /\ v[j].of = p[o[j]]
        <3>1. v[i] = items[o[i]].vector /\ v[j] = items[o[j]].vector
            BY <1>7, <1>9
        <3> QED
            BY <1>8, <3>1
    <2>2. o[i] \in D /\ o[j] \in D /\ <<o[i], o[j]>> \in R
        BY <1>6, <1>11
    <2> QED
        BY <1>2, <2>1, <2>2
<1> QED
    BY <1>6, <1>9, <1>10, <1>11 DEF Rises, Rising

(* sorted() by index puts the vectors of a sound response in order. *)
LEMMA OrderedRises ==
    ASSUME NEW B, B \subseteq Nat, IsFiniteSet(B), NEW p \in SetToAllKPermutations(B),
           NEW good \in BOOLEAN, NEW items, items = [k \in DOMAIN p |-> Item(p[k], good)]
    PROVE  Rising(Ordered(items), B)
<1>1. PICK S \in SUBSET B : p \in SetToSeqs(S)
    BY DEF SetToAllKPermutations
<1>2. IsFiniteSet(S) /\ Cardinality(S) \in Nat
    BY <1>1, FS_Subset, FS_CardinalityType
<1>3. PICK n : n = Cardinality(S)
    OBVIOUS
<1>4. p \in [1..n -> S] /\ \A i, j \in 1..n : i # j => p[i] # p[j]
    BY <1>1, <1>3 DEF SetToSeqs
<1>5. PICK D : D = 1..n
    OBVIOUS
<1>6. /\ DOMAIN items = D /\ D \subseteq Int /\ IsFiniteSet(D)
      /\ \A k \in D : items[k].index = p[k] /\ p[k] \in B /\ items[k].vector.of = p[k]
    <2>1. DOMAIN items = D /\ D \subseteq Int
        BY <1>4, <1>5
    <2>2. IsFiniteSet(D)
        BY <1>2, <1>3, <1>5, FS_Interval
    <2>3. ASSUME NEW k \in D
          PROVE  items[k].index = p[k] /\ p[k] \in B /\ items[k].vector.of = p[k]
        <3>1. items[k] = Item(p[k], good) /\ p[k] \in B
            BY <1>1, <1>4, <1>5
        <3> QED
            BY <3>1 DEF Item
    <2> QED
        BY <2>1, <2>2, <2>3
<1>7. p \in [D -> B] /\ \A i, j \in D : i # j => p[i] # p[j]
    BY <1>1, <1>4, <1>5
<1>8. DOMAIN items = D /\ \A k \in D : items[k].index = p[k] /\ items[k].vector.of = p[k]
    BY <1>6
<1>9. D \subseteq Int /\ IsFiniteSet(D)
    BY <1>6
<1>10. Carries(items, D, p, B)
    BY <1>7, <1>8, <1>9, Zenon DEF Carries
<1> QED
    BY <1>10, SortedRises, Zenon

(* The vectors of a batch come after those of the batches before it. *)
LEMMA RisesOn ==
    ASSUME NEW A, NEW B, NEW T, A \subseteq T, B \subseteq T, T \subseteq Nat,
           \A i \in A, j \in B : i < j, NEW v, NEW w, Rising(v, A), Rising(w, B)
    PROVE  Rising(v \o w, T)
<1>1. PICK n \in Nat : Rises(v, n, A)
    BY DEF Rising
<1>2. PICK m \in Nat : Rises(w, m, B)
    BY DEF Rising
<1>3. PICK V : V = {v[i] : i \in 1..n} \cup {w[i] : i \in 1..m}
    OBVIOUS
<1>4. v \in [1..n -> V] /\ w \in [1..m -> V]
    <2>1. v = [i \in 1..n |-> v[i]] /\ w = [i \in 1..m |-> w[i]]
        BY <1>1, <1>2 DEF Rises
    <2>2. (\A i \in 1..n : v[i] \in V) /\ \A i \in 1..m : w[i] \in V
        BY <1>3
    <2> QED
        BY <2>1, <2>2
<1>5. /\ v \o w \in [1..n + m -> V]
      /\ \A i \in 1..n : (v \o w)[i] = v[i]
      /\ \A i \in 1..m : (v \o w)[n + i] = w[i]
    <2>1. v \o w \in [1..n + m -> V]
        BY <1>4, Joined
    <2>2. \A i \in 1..n : (v \o w)[i] = v[i]
        BY <1>4, Joined
    <2>3. \A i \in 1..m : (v \o w)[n + i] = w[i]
        BY <1>4, Joined
    <2> QED
        BY <2>1, <2>2, <2>3
<1>6. /\ \A i \in 1..n : v[i].of \in A
      /\ \A i \in 1..m : w[i].of \in B
      /\ \A i, j \in 1..n : i < j => v[i].of < v[j].of
      /\ \A i, j \in 1..m : i < j => w[i].of < w[j].of
    <2>1. ASSUME NEW i \in 1..n PROVE v[i].of \in A
        BY <1>1 DEF Rises
    <2>2. ASSUME NEW i \in 1..m PROVE w[i].of \in B
        BY <1>2 DEF Rises
    <2>3. \A i, j \in 1..n : i < j => v[i].of < v[j].of
        BY <1>1, Zenon DEF Rises
    <2>4. \A i, j \in 1..m : i < j => w[i].of < w[j].of
        BY <1>2, Zenon DEF Rises
    <2> QED
        BY <2>1, <2>2, <2>3, <2>4
<1>7. PICK u : u = v \o w
    OBVIOUS
<1>8. ASSUME NEW i \in 1..n + m, NEW j \in 1..n + m, i < j PROVE u[i].of < u[j].of
    <2>1. CASE j <= n
        BY <1>5, <1>6, <1>7, <1>8, <2>1
    <2>2. CASE i <= n /\ j > n
        <3>1. i \in 1..n /\ j - n \in 1..m /\ n + (j - n) = j
            BY <2>2
        <3>2. u[i] = v[i] /\ u[j] = w[j - n]
            BY <1>5, <1>7, <3>1
        <3> QED
            BY <1>6, <3>1, <3>2
    <2>3. CASE i > n
        <3>1. /\ i - n \in 1..m /\ j - n \in 1..m /\ i - n < j - n
              /\ n + (j - n) = j /\ n + (i - n) = i
            BY <1>8, <2>3
        <3>2. u[i] = w[i - n] /\ u[j] = w[j - n]
            BY <1>5, <1>7, <3>1
        <3> QED
            BY <1>6, <3>1, <3>2
    <2> QED
        BY <2>1, <2>2, <2>3
<1>9. Rises(u, n + m, T)
    <2>1. u = [i \in 1..n + m |-> u[i]]
        BY <1>5, <1>7
    <2>2. ASSUME NEW i \in 1..n + m PROVE u[i].of \in T
        <3>1. CASE i <= n
            <4>1. i \in 1..n /\ u[i] = v[i]
                BY <1>5, <1>7, <3>1
            <4> QED
                BY <1>6, <4>1
        <3>2. CASE i > n
            <4>1. i - n \in 1..m /\ n + (i - n) = i
                BY <3>2
            <4>2. u[i] = w[i - n]
                BY <1>5, <1>7, <4>1
            <4> QED
                BY <1>6, <4>1, <4>2
        <3> QED
            BY <3>1, <3>2
    <2> QED
        BY <1>8, <2>1, <2>2 DEF Rises
<1> QED
    BY <1>7, <1>9 DEF Rising

(* As many vectors as texts are one for each, at its place. *)
LEMMA AllRise ==
    ASSUME NEW n \in Nat, NEW v, Rising(v, 1..n), Len(v) = n
    PROVE  [i \in DOMAIN v |-> v[i].of] = [i \in 1..n |-> i]
<1>1. PICK m \in Nat : Rises(v, m, 1..n)
    BY DEF Rising
<1>2. /\ v = [i \in 1..m |-> v[i]] /\ \A i \in 1..m : v[i].of \in 1..n
      /\ \A i, j \in 1..m : i < j => v[i].of < v[j].of
    BY <1>1, Zenon DEF Rises
<1>3. m = n /\ DOMAIN v = 1..n
    <2>1. v \in [1..m -> {v[i] : i \in 1..m}]
        BY <1>2
    <2> QED
        BY <2>1
<1>4. PICK f : f = [i \in 1..n |-> v[i].of]
    OBVIOUS
<1>5. f \in [1..n -> 1..n] /\ \A i, j \in 1..n : i < j => f[i] < f[j]
    BY <1>2, <1>3, <1>4
<1>6. ASSUME NEW T, T = {i \in 1..n : f[i] < i}, T # {} PROVE FALSE
    <2>0. T \subseteq Nat
        BY <1>6
    <2>1. PICK i \in T : \A j \in T : i <= j
        BY <1>6, <2>0, Smallest
    <2>2. i \in 1..n /\ f[i] < i /\ f[i] \in 1..n
        BY <1>5, <1>6
    <2>3. i - 1 \in 1..n /\ i - 1 < i
        BY <2>2
    <2>4. f[i - 1] < f[i] /\ f[i - 1] \in 1..n
        BY <1>5, <2>2, <2>3
    <2>5. i - 1 \in T
        BY <1>6, <2>2, <2>3, <2>4
    <2> QED
        BY <2>1, <2>2, <2>5
<1>7. ASSUME NEW T, T = {k \in 0..n : k < n /\ f[n - k] > n - k}, T # {} PROVE FALSE
    <2>0. T \subseteq Nat
        BY <1>7
    <2>1. PICK k \in T : \A j \in T : k <= j
        BY <1>7, <2>0, Smallest
    <2>2. k \in 0..n /\ k < n /\ n - k \in 1..n /\ f[n - k] > n - k /\ f[n - k] \in 1..n
        BY <1>5, <1>7
    <2>3. n - k < n
        BY <2>2
    <2>4. /\ k - 1 \in 0..n /\ k - 1 < n /\ n - (k - 1) = n - k + 1
          /\ n - (k - 1) \in 1..n /\ n - k < n - (k - 1)
        BY <2>2, <2>3
    <2>5. f[n - (k - 1)] > f[n - k] /\ f[n - (k - 1)] \in 1..n
        BY <1>5, <2>2, <2>4
    <2>6. k - 1 \in T
        BY <1>7, <2>2, <2>4, <2>5
    <2> QED
        BY <2>1, <2>2, <2>6
<1>8. ASSUME NEW i \in 1..n PROVE f[i] = i
    <2>1. ~(f[i] < i)
        BY <1>6
    <2>2. n - i \in 0..n /\ n - i < n /\ n - (n - i) = i
        OBVIOUS
    <2>3. ~(f[i] > i)
        BY <1>7, <2>2
    <2> QED
        BY <1>5, <2>1, <2>3
<1> QED
    BY <1>3, <1>4, <1>8

(* The vectors of a call so far: in order unless a response repeated an     *)
(* index, and as many as the texts once they are returned.                  *)
AlignedInv(c) ==
    /\ c.texts \in Nat /\ c.batch \in Nat
    /\ Embedding(c) /\ c.result = "ok" => Len(c.vectors) = c.texts
    /\ c.sound => Rising(c.vectors, Answered(c))

VectorsInv == CallsInv /\ AlignedInv(call)

(* No vectors are in order. *)
LEMMA NoneRise == \A T : Rising(<<>>, T)
<1>1. <<>> = [i \in 1..0 |-> <<>>[i]] /\ 1..0 = {} /\ 0 \in Nat
    OBVIOUS
<1> QED
    BY <1>1, Zenon DEF Rising, Rises

(* A call that begins has no vectors. *)
LEMMA BegunAligned ==
    ASSUME NEW c, c.texts \in Nat, c.batch = 0, c.vectors = <<>>, c.result # "ok"
    PROVE  AlignedInv(c)
<1>1. Rising(c.vectors, Answered(c))
    BY NoneRise
<1> QED
    BY <1>1 DEF AlignedInv

(* A call that keeps its vectors keeps their order. *)
LEMMA KeptAligned ==
    ASSUME NEW c, AlignedInv(c), NEW d, d.texts = c.texts, d.batch = c.batch,
           d.vectors = c.vectors, d.sound = c.sound, ~Embedding(d) \/ d.result # "ok"
    PROVE  AlignedInv(d)
<1>1. Answered(d) = Answered(c)
    BY DEF Answered
<1>2. d.sound => Rising(d.vectors, Answered(d))
    BY <1>1, Zenon DEF AlignedInv
<1>3. d.texts \in Nat /\ d.batch \in Nat
    BY DEF AlignedInv
<1> QED
    BY <1>2, <1>3 DEF AlignedInv

(* The start of a call. *)
LEMMA StartsAligned ==
    ASSUME generate_structured \/ decide_tool_call \/ embed_texts
    PROVE  AlignedInv(call')
<1>1. CASE generate_structured
    <2>1. call' = [NoCall EXCEPT !.pc = "attempt", !.kind = "structured"]
        BY <1>1 DEF generate_structured, Start
    <2>2. call'.texts = 0 /\ call'.batch = 0 /\ call'.vectors = <<>> /\ call'.result = "none"
        BY <2>1 DEF NoCall
    <2> QED
        BY <2>2, BegunAligned
<1>2. CASE decide_tool_call
    <2>1. call' = [NoCall EXCEPT !.pc = "attempt", !.kind = "tool"]
        BY <1>2 DEF decide_tool_call, Start
    <2>2. call'.texts = 0 /\ call'.batch = 0 /\ call'.vectors = <<>> /\ call'.result = "none"
        BY <2>1 DEF NoCall
    <2> QED
        BY <2>2, BegunAligned
<1>3. CASE embed_texts
    <2>1. PICK n \in TextCounts, blank \in BOOLEAN :
            LET c == [NoCall EXCEPT !.kind = "embed", !.texts = n]
            IN  Start(CASE n = 0 \/ blank ->
                            [c EXCEPT !.pc = "done", !.result = "invalid_embedding"]
                        [] n > 0 /\ ~blank /\ "openai" \notin keys ->
                            [c EXCEPT !.pc = "done", !.result = "embedding_not_configured"]
                        [] OTHER -> [c EXCEPT !.pc = "attempt"])
        BY <1>3 DEF embed_texts
    <2>2. PICK c : c = [NoCall EXCEPT !.kind = "embed", !.texts = n]
        OBVIOUS
    <2>3. \/ call' = [c EXCEPT !.pc = "done", !.result = "invalid_embedding"]
          \/ call' = [c EXCEPT !.pc = "done", !.result = "embedding_not_configured"]
          \/ call' = [c EXCEPT !.pc = "attempt"]
        BY <2>1, <2>2 DEF Start
    <2>4. c = [pc |-> "idle", kind |-> "embed", texts |-> n, batch |-> 0, attempt |-> 0,
               raised |-> "none", vectors |-> <<>>, sound |-> TRUE, result |-> "none"]
        BY <2>2 DEF NoCall
    <2>5. call'.texts = n /\ call'.batch = 0 /\ call'.vectors = <<>> /\ call'.result # "ok"
        BY <2>3, <2>4
    <2>6. n \in Nat
        BY RetryAssumption
    <2> QED
        BY <2>5, <2>6, BegunAligned
<1> QED
    BY <1>1, <1>2, <1>3

(* An attempt that fails. *)
LEMMA FailuresAligned ==
    ASSUME CallsInv, AlignedInv(call), NEW e, NEW x, AttemptFails(e, x)
    PROVE  AlignedInv(call')
<1>1. CallShape /\ call.pc = "attempt" /\ call.result = "none"
    BY DEF CallsInv, AttemptFails
<1>2. PICK failure : \/ call' = [call EXCEPT !.attempt = @ + 1]
                     \/ call' = Raise(call, failure)
    BY DEF AttemptFails
<1>3. CASE call' = [call EXCEPT !.attempt = @ + 1]
    <2>1. /\ call'.texts = call.texts /\ call'.batch = call.batch /\ call'.sound = call.sound
          /\ call'.vectors = call.vectors /\ call'.result = "none"
        BY <1>1, <1>3 DEF CallShape
    <2> QED
        BY <2>1, KeptAligned
<1>4. CASE call' = Raise(call, failure)
    <2>1. PICK seen : seen = IF Embedding(call) THEN EmbeddingError(failure) ELSE ChatError(failure)
        OBVIOUS
    <2>2. call' = [pc |-> "done", kind |-> call.kind, texts |-> call.texts, batch |-> call.batch,
                   attempt |-> call.attempt, raised |-> failure, vectors |-> call.vectors,
                   sound |-> call.sound, result |-> seen]
        BY <1>1, <1>4, <2>1 DEF Raise, CallShape
    <2>3. /\ call'.texts = call.texts /\ call'.batch = call.batch /\ call'.sound = call.sound
          /\ call'.vectors = call.vectors /\ call'.result = seen /\ call'.kind = call.kind
        BY <2>2
    <2>4. Embedding(call) => seen # "ok"
        BY <2>1 DEF EmbeddingError
    <2>5. ~Embedding(call') \/ call'.result # "ok"
        BY <2>3, <2>4 DEF Embedding
    <2> QED
        BY <2>3, <2>5, KeptAligned
<1> QED
    BY <1>2, <1>3, <1>4

(* The answers of the chat models. *)
LEMMA AnswersAligned ==
    ASSUME CallsInv, AlignedInv(call), StructuredAnswer \/ ToolAnswer
    PROVE  AlignedInv(call')
<1>1. PICK outcome : call' = [call EXCEPT !.pc = "done", !.result = outcome]
    BY DEF StructuredAnswer, ToolAnswer, Answer
<1>2. ~Embedding(call)
    BY DEF StructuredAnswer, ToolAnswer, Embedding
<1>3. /\ call'.texts = call.texts /\ call'.batch = call.batch /\ call'.sound = call.sound
      /\ call'.vectors = call.vectors /\ call'.kind = call.kind
    BY <1>1 DEF CallsInv, CallShape
<1>4. ~Embedding(call')
    BY <1>2, <1>3 DEF Embedding
<1> QED
    BY <1>3, <1>4, KeptAligned

(* The batches that follow one another. *)
LEMMA BatchFollows ==
    ASSUME NEW c, c.texts \in Nat, c.batch \in Nat, NEW d, d.texts = c.texts,
           d.batch = c.batch + BatchSize
    PROVE  /\ Answered(c) \subseteq Answered(d) /\ Batch(c) \subseteq Answered(d)
           /\ Answered(d) \subseteq Nat /\ Batch(c) \subseteq Nat /\ IsFiniteSet(Batch(c))
           /\ \A i \in Answered(c), j \in Batch(c) : i < j
<1>1. BatchSize \in Nat
    BY RetryAssumption
<1>2. Batch(c) \subseteq 1..c.texts
    BY DEF Batch
<1>3. IsFiniteSet(Batch(c))
    <2>1. IsFiniteSet(1..c.texts)
        BY FS_Interval
    <2> QED
        BY <1>2, <2>1, FS_Subset
<1>4. Answered(c) \subseteq Answered(d) /\ Batch(c) \subseteq Answered(d)
    BY <1>1 DEF Answered, Batch
<1>5. Answered(d) \subseteq Nat /\ Batch(c) \subseteq Nat
    BY <1>2 DEF Answered
<1>6. ASSUME NEW i \in Answered(c), NEW j \in Batch(c) PROVE i < j
    BY <1>6 DEF Answered, Batch
<1> QED
    BY <1>3, <1>4, <1>5, <1>6

(* The vectors of a sound response. *)
LEMMA ResponseRises ==
    ASSUME NEW B, B \subseteq Nat, IsFiniteSet(B), NEW r \in Responses(B), r.sound
    PROVE  Rising(Ordered(r.items), B)
<1>1. PICK p \in SetToAllKPermutations(B), good \in BOOLEAN :
        r.items = [k \in DOMAIN p |-> Item(p[k], good)]
    <2>1. r.items \in SoundItems(B)
        BY DEF Responses
    <2> QED
        BY <2>1 DEF SoundItems
<1> QED
    BY <1>1, OrderedRises

(* An answer to an embedding request. *)
LEMMA EmbeddingAligned ==
    ASSUME CallsInv, AlignedInv(call), EmbeddingAnswer
    PROVE  AlignedInv(call')
<1>1. CallShape /\ call.texts \in Nat /\ call.batch \in Nat
    BY DEF CallsInv, AlignedInv
<1>2. ASSUME NEW r \in Responses(Batch(call)),
             LET c == [call EXCEPT !.vectors = @ \o Ordered(r.items), !.attempt = 0,
                                   !.batch = @ + BatchSize, !.sound = @ /\ r.sound]
             IN  Answer(IF c.batch < c.texts THEN c ELSE Checked(c), FALSE)
      PROVE  AlignedInv(call')
    <2>1. PICK c : c = [call EXCEPT !.vectors = @ \o Ordered(r.items), !.attempt = 0,
                                    !.batch = @ + BatchSize, !.sound = @ /\ r.sound]
        OBVIOUS
    <2>2. PICK v, sound : v = call.vectors \o Ordered(r.items) /\ sound = (call.sound /\ r.sound)
        OBVIOUS
    <2>3. c = [pc |-> call.pc, kind |-> call.kind, texts |-> call.texts,
               batch |-> call.batch + BatchSize, attempt |-> 0, raised |-> call.raised,
               vectors |-> v, sound |-> sound, result |-> call.result]
        BY <1>1, <2>1, <2>2 DEF CallShape
    <2>4. c.texts = call.texts /\ c.batch = call.batch + BatchSize /\ c.batch \in Nat
        BY <1>1, <2>3, RetryAssumption
    <2>5. c.sound => Rising(c.vectors, Answered(c))
        <3>1. SUFFICES ASSUME c.sound PROVE Rising(c.vectors, Answered(c))
            OBVIOUS
        <3>2. sound
            BY <2>3, <3>1
        <3>3. call.sound /\ r.sound
            BY <2>2, <3>2
        <3>4. /\ Answered(call) \subseteq Answered(c) /\ Batch(call) \subseteq Answered(c)
              /\ Answered(c) \subseteq Nat /\ Batch(call) \subseteq Nat
              /\ IsFiniteSet(Batch(call))
              /\ \A i \in Answered(call), j \in Batch(call) : i < j
            BY <1>1, <2>4, BatchFollows
        <3>5. Rising(call.vectors, Answered(call))
            BY <3>3 DEF AlignedInv
        <3>6. Rising(Ordered(r.items), Batch(call))
            BY <1>2, <3>3, <3>4, ResponseRises
        <3>7. Rising(v, Answered(c))
            BY <2>2, <3>4, <3>5, <3>6, RisesOn
        <3> QED
            BY <2>3, <3>7
    <2>6. CASE c.batch < c.texts
        <3>1. call' = c /\ call.pc = "attempt"
            BY <1>2, <2>1, <2>6 DEF Answer
        <3>2. c.result = "none"
            BY <2>3, <3>1 DEF CallsInv
        <3> QED
            BY <1>1, <2>4, <2>5, <3>1, <3>2 DEF AlignedInv
    <2>7. CASE ~(c.batch < c.texts)
        <3>1. call' = Checked(c)
            BY <1>2, <2>1, <2>7 DEF Answer
        <3>2. PICK bad \in BOOLEAN :
                bad <=> \/ Len(c.vectors) # c.texts
                        \/ \E k \in DOMAIN c.vectors : ~c.vectors[k].good
            OBVIOUS
        <3>3. PICK outcome : outcome = IF bad THEN "invalid_embedding" ELSE "ok"
            OBVIOUS
        <3>4. call' = [c EXCEPT !.pc = "done", !.result = outcome]
            BY <3>1, <3>2, <3>3 DEF Checked
        <3>5. outcome = "ok" => Len(c.vectors) = c.texts
            BY <3>2, <3>3
        <3>6. /\ call'.texts = c.texts /\ call'.batch = c.batch /\ call'.sound = c.sound
              /\ call'.vectors = c.vectors /\ call'.result = outcome
            BY <2>3, <3>4
        <3>7. Answered(call') = Answered(c)
            BY <3>6 DEF Answered
        <3>8. call'.sound => Rising(call'.vectors, Answered(call'))
            BY <2>5, <3>6, <3>7
        <3> QED
            BY <1>1, <2>4, <3>5, <3>6, <3>8 DEF AlignedInv
    <2> QED
        BY <2>6, <2>7
<1>3. ASSUME NEW e \in {"AttributeError", "TypeError"}, Answer(Raise(call, e), FALSE)
      PROVE  AlignedInv(call')
    <2>1. Embedding(call)
        BY DEF EmbeddingAnswer
    <2>2. EmbeddingError(e) = "invalid_embedding"
        BY DEF EmbeddingError, ProviderErrors
    <2>3. call' = [pc |-> "done", kind |-> call.kind, texts |-> call.texts, batch |-> call.batch,
                   attempt |-> call.attempt, raised |-> e, vectors |-> call.vectors,
                   sound |-> call.sound, result |-> "invalid_embedding"]
        BY <1>1, <1>3, <2>1, <2>2 DEF Raise, CallShape, Answer
    <2>4. /\ call'.texts = call.texts /\ call'.batch = call.batch /\ call'.sound = call.sound
          /\ call'.vectors = call.vectors /\ call'.result # "ok"
        BY <2>3
    <2> QED
        BY <2>4, KeptAligned
<1> QED
    BY <1>2, <1>3 DEF EmbeddingAnswer

(* embed_texts returns the vector of each text at its place, over any       *)
(* number of texts, batches and retries, however a response orders its      *)
(* items and whichever it leaves out, as long as it repeats none            *)
(* (OpenAIEmbeddingProvider).                                               *)
THEOREM VectorsSafe == PartSpec => []VectorsAreAligned
<1>1. PartInit => VectorsInv
    <2> SUFFICES ASSUME PartInit PROVE VectorsInv
        OBVIOUS
    <2>1. call = NoCall \/ call = [NoCall EXCEPT !.pc = "ready"]
        BY PartBegins DEF CallIdle, CallBegin
    <2>2. call.texts = 0 /\ call.batch = 0 /\ call.vectors = <<>> /\ call.result = "none"
        BY <2>1 DEF NoCall
    <2>3. AlignedInv(call)
        BY <2>2, BegunAligned
    <2> QED
        BY <2>3, PartBegins, CallInit DEF VectorsInv
<1>2. VectorsInv /\ [PartNext]_partVars => VectorsInv'
    <2> SUFFICES ASSUME VectorsInv, [PartNext]_partVars PROVE VectorsInv'
        OBVIOUS
    <2>1. CallsInv /\ AlignedInv(call) /\ [CallNext]_callVars
        BY PartSteps DEF VectorsInv
    <2>2. CASE UNCHANGED callVars
        <3>1. call' = call
            BY <2>2 DEF callVars
        <3> QED
            BY <2>1, <3>1, CallStep DEF VectorsInv
    <2>3. CASE NotConfigured \/ ProviderFails
        <3>1. \E e, x : AttemptFails(e, x)
            BY <2>3 DEF NotConfigured, ProviderFails
        <3>2. AlignedInv(call')
            BY <2>1, <3>1, FailuresAligned
        <3> QED
            BY <2>1, <3>2, CallStep DEF VectorsInv
    <2>4. CASE generate_structured \/ decide_tool_call \/ embed_texts
        BY <2>1, <2>4, StartsAligned, CallStep DEF VectorsInv
    <2>5. CASE StructuredAnswer \/ ToolAnswer
        BY <2>1, <2>5, AnswersAligned, CallStep DEF VectorsInv
    <2>6. CASE EmbeddingAnswer
        BY <2>1, <2>6, EmbeddingAligned, CallStep DEF VectorsInv
    <2> QED
        BY <2>1, <2>2, <2>3, <2>4, <2>5, <2>6 DEF CallNext
<1>3. VectorsInv => VectorsAreAligned
    <2> SUFFICES ASSUME AlignedInv(call), Embedding(call), call.result = "ok", call.sound
                 PROVE  [i \in DOMAIN call.vectors |-> call.vectors[i].of] =
                            [i \in 1..call.texts |-> i]
        BY DEF VectorsInv, VectorsAreAligned
    <2>1. /\ call.texts \in Nat /\ Len(call.vectors) = call.texts
          /\ Rising(call.vectors, Answered(call))
        BY DEF AlignedInv
    <2>2. PICK n \in Nat : Rises(call.vectors, n, Answered(call))
        BY <2>1 DEF Rising
    <2>3. Answered(call) \subseteq 1..call.texts
        BY DEF Answered
    <2>4. Rises(call.vectors, n, 1..call.texts)
        BY <2>2, <2>3 DEF Rises
    <2>5. Rising(call.vectors, 1..call.texts)
        BY <2>4 DEF Rising
    <2> QED
        BY <2>1, <2>5, AllRise
<1> QED
    BY <1>1, <1>2, <1>3, PTL DEF PartSpec

-----------------------------------------------------------------------------
(* From settings to answers. *)

(* The parts of a deployment, one line per setting. *)
LEMMA PartsFacts ==
    ASSUME NEW s \in Deployments, NEW p, p = get_assessment_service(s)
    PROVE  /\ p.router \in BOOLEAN /\ p.multi \in BOOLEAN /\ p.agentic \in BOOLEAN
           /\ p.router <=> s.override # NoMode \/ s.routing_enabled
           /\ s.override # NoMode => /\ p.multi <=> s.override = "multi_agent"
                                     /\ p.agentic <=> s.override = "single_agent"
           /\ s.override = NoMode => (p.multi <=> s.multi_agent_workflow_enabled)
           /\ s.override = NoMode /\ s.routing_enabled =>
                (p.agentic <=> s.agentic_workflow_enabled)
           /\ s.override = NoMode /\ ~s.routing_enabled =>
                (p.agentic <=> s.agentic_workflow_enabled /\ ~s.multi_agent_workflow_enabled)
           /\ p.rag \in {"none", "vector", "hybrid"}
           /\ p.rag = "none" <=> ~s.rag_enabled
           /\ p.exporter = build_telemetry_exporter(s)
<1>1. /\ p.rag = get_assessment_rag_service(s) /\ p.agentic = get_agentic_assessment_workflow(s)
      /\ p.multi = get_multi_agent_assessment_workflow(s) /\ p.router = get_execution_router(s)
      /\ p.exporter = build_telemetry_exporter(s)
    BY DEF get_assessment_service
<1>2. /\ s.override \in ExecutionMode \cup {NoMode} /\ s.routing_enabled \in BOOLEAN
      /\ s.agentic_workflow_enabled \in BOOLEAN /\ s.multi_agent_workflow_enabled \in BOOLEAN
    BY SettingsTypeAssumption
<1>3. p.router \in BOOLEAN /\ (p.router <=> s.override # NoMode \/ s.routing_enabled)
    BY <1>1, <1>2 DEF get_execution_router
<1>4. /\ p.multi \in BOOLEAN
      /\ s.override # NoMode => (p.multi <=> s.override = "multi_agent")
      /\ s.override = NoMode => (p.multi <=> s.multi_agent_workflow_enabled)
    BY <1>1, <1>2 DEF get_multi_agent_assessment_workflow
<1>5. /\ p.agentic \in BOOLEAN
      /\ s.override # NoMode => (p.agentic <=> s.override = "single_agent")
      /\ s.override = NoMode /\ s.routing_enabled => (p.agentic <=> s.agentic_workflow_enabled)
      /\ s.override = NoMode /\ ~s.routing_enabled =>
            (p.agentic <=> s.agentic_workflow_enabled /\ ~s.multi_agent_workflow_enabled)
    <2>1. CASE s.override # NoMode
        BY <1>1, <1>2, <2>1 DEF get_agentic_assessment_workflow
    <2>2. CASE s.override = NoMode /\ s.routing_enabled
        BY <1>1, <1>2, <2>2 DEF get_agentic_assessment_workflow
    <2>3. CASE s.override = NoMode /\ ~s.routing_enabled
        BY <1>1, <1>2, <2>3 DEF get_agentic_assessment_workflow
    <2> QED
        BY <1>2, <2>1, <2>2, <2>3
<1>6. p.rag \in {"none", "vector", "hybrid"} /\ (p.rag = "none" <=> ~s.rag_enabled)
    BY <1>1 DEF get_assessment_rag_service
<1> QED
    BY <1>1, <1>3, <1>4, <1>5, <1>6

(* The router prefers the override, or any of the modes. *)
LEMMA PreferredMode ==
    ASSUME NEW s \in Deployments, NEW w, NEW preferred, preferred = RouteOf(s, w).preferred
    PROVE  /\ preferred \in ExecutionMode
           /\ s.override # NoMode => preferred = s.override
<1> DEFINE cues ==
            (IF w.pain_points >= 2 THEN {"multiple_pain_points"} ELSE {}) \cup
            (IF w.constraints >= 2 THEN {"multiple_constraints"} ELSE {}) \cup
            (IF w.concerns >= 2 THEN {"multiple_workload_concerns"} ELSE {}) \cup
            (IF w.rich THEN {"rich_process_context"} ELSE {})
           specialist == /\ w.concerns >= 3
                         /\ w.coordination \/ w.pain_points >= 3 \/ w.constraints >= 3
           more == IF w.coordination THEN {"cross_functional_coordination"} ELSE {}
<1>1. RouteOf(s, w) =
        CASE s.override # NoMode ->
                [preferred |-> s.override, reasons |-> {"environment_override"}]
          [] s.override = NoMode /\ specialist ->
                [preferred |-> "multi_agent",
                 reasons |-> cues \cup {"specialist_separation_beneficial"} \cup more]
          [] s.override = NoMode /\ ~specialist /\ cues # {} ->
                [preferred |-> "single_agent",
                 reasons |-> cues \cup {"single_reasoning_context_sufficient"}]
          [] OTHER -> [preferred |-> "deterministic",
                       reasons |-> {"bounded_scope", "low_coordination_complexity"}]
    BY DEF RouteOf
<1>2. PICK all, few, special : all = cues \cup {"specialist_separation_beneficial"} \cup more
                    /\ few = cues \cup {"single_reasoning_context_sufficient"}
                    /\ special \in BOOLEAN /\ (special <=> specialist)
    OBVIOUS
<1>3. PICK none \in BOOLEAN : none <=> cues = {}
    OBVIOUS
<1> HIDE DEF cues, specialist, more
<1>4. RouteOf(s, w) =
        CASE s.override # NoMode ->
                [preferred |-> s.override, reasons |-> {"environment_override"}]
          [] s.override = NoMode /\ special -> [preferred |-> "multi_agent", reasons |-> all]
          [] s.override = NoMode /\ ~special /\ ~none ->
                [preferred |-> "single_agent", reasons |-> few]
          [] OTHER -> [preferred |-> "deterministic",
                       reasons |-> {"bounded_scope", "low_coordination_complexity"}]
    BY <1>1, <1>2, <1>3
<1>5. CASE s.override # NoMode
    BY <1>4, <1>5, SettingsTypeAssumption DEF ExecutionMode
<1>6. CASE s.override = NoMode
    BY <1>4, <1>6 DEF ExecutionMode
<1> QED
    BY <1>5, <1>6

(* The route a request takes: a mode that was built, and the one preferred  *)
(* or a smaller one, with reasons.                                          *)
LEMMA RouteFields ==
    ASSUME NEW s, NEW p, NEW w, NEW r, r = _route_execution(s, p, w),
           p.router \in BOOLEAN, p.multi \in BOOLEAN, p.agentic \in BOOLEAN,
           NEW preferred \in ExecutionMode, preferred = RouteOf(s, w).preferred
    PROVE  /\ ~p.router =>
                /\ r.mode = LegacyMode(p) /\ r.preferred = r.mode /\ r.fallback = {}
           /\ p.router =>
                /\ r.preferred = preferred
                /\ r.mode \in ExecutionMode
                /\ r.mode = "multi_agent" <=> preferred = "multi_agent" /\ p.multi
                /\ r.mode = "single_agent" <=>
                        /\ p.agentic
                        /\ preferred = "single_agent" \/ (preferred = "multi_agent" /\ ~p.multi)
                /\ r.fallback = {} <=> r.mode = preferred
<1>1. PICK reasons : reasons = RouteOf(s, w).reasons
    OBVIOUS
<1>2. PICK noMulti \in BOOLEAN : noMulti <=> preferred = "multi_agent" /\ ~p.multi
    OBVIOUS
<1>3. PICK noSingle \in BOOLEAN :
        noSingle <=> ~p.agentic /\ (noMulti \/ preferred = "single_agent")
    OBVIOUS
<1>4. PICK actual : actual = CASE noSingle -> "deterministic"
                               [] ~noSingle /\ noMulti -> "single_agent"
                               [] OTHER -> preferred
    OBVIOUS
<1>5. PICK fallback : fallback =
                (IF noMulti THEN {"multi_agent_capability_unavailable"} ELSE {}) \cup
                (IF noSingle THEN {"single_agent_capability_unavailable", "fallback_to_deterministic"}
                 ELSE {}) \cup
                (IF noMulti /\ ~noSingle THEN {"fallback_to_single_agent"} ELSE {})
    OBVIOUS
<1>6. /\ ~p.router => r = [preferred |-> LegacyMode(p), mode |-> LegacyMode(p),
                           reasons |-> {"legacy_flag_selection"}, fallback |-> {}]
      /\ p.router => r = [preferred |-> preferred, mode |-> actual, reasons |-> reasons,
                          fallback |-> fallback]
    BY <1>1, <1>2, <1>3, <1>4, <1>5 DEF _route_execution
<1>7. fallback = {} <=> ~noMulti /\ ~noSingle
    BY <1>5
<1>8. CASE ~p.router
    BY <1>6, <1>8
<1>9. CASE p.router
    <2>1. r.preferred = preferred /\ r.mode = actual /\ r.fallback = fallback
        BY <1>6, <1>9
    <2>2. CASE noSingle
        BY <1>2, <1>3, <1>4, <1>7, <1>9, <2>1, <2>2 DEF ExecutionMode
    <2>3. CASE ~noSingle /\ noMulti
        BY <1>2, <1>3, <1>4, <1>7, <1>9, <2>1, <2>3 DEF ExecutionMode
    <2>4. CASE ~noSingle /\ ~noMulti
        BY <1>2, <1>3, <1>4, <1>7, <1>9, <2>1, <2>4 DEF ExecutionMode
    <2> QED
        BY <2>2, <2>3, <2>4
<1> QED
    BY <1>8, <1>9

(* The flags of the deployment decide, or its override does. *)
ByPrecedence(s, r) ==
    /\ s.override # NoMode => r.mode = s.override
    /\ (s.override = NoMode /\ s.routing_enabled) =>
        /\ r.mode = "single_agent" => s.agentic_workflow_enabled
        /\ r.mode = "multi_agent" => s.multi_agent_workflow_enabled
    /\ (s.override = NoMode /\ ~s.routing_enabled) =>
        r.mode = CASE s.multi_agent_workflow_enabled -> "multi_agent"
                   [] ~s.multi_agent_workflow_enabled /\ s.agentic_workflow_enabled ->
                        "single_agent"
                   [] OTHER -> "deterministic"
    /\ r.fallback = {} <=> r.mode = r.preferred
    /\ Size(r.mode) <= Size(r.preferred)

(* The order of the execution modes. *)
LEMMA Sizes ==
    /\ Size("deterministic") = 1 /\ Size("single_agent") = 2 /\ Size("multi_agent") = 3
BY DEF Size

(* The router follows the precedence and chooses only what is wired. *)
LEMMA RouteFacts ==
    ASSUME NEW s \in Deployments, NEW w, NEW p, p = get_assessment_service(s),
           NEW r, r = _route_execution(s, p, w)
    PROVE  /\ ByPrecedence(s, r)
           /\ r.mode \in ExecutionMode
           /\ r.mode = "multi_agent" => p.multi
           /\ r.mode = "single_agent" => p.agentic
<1>1. PICK preferred : preferred = RouteOf(s, w).preferred
    OBVIOUS
<1>2. preferred \in ExecutionMode /\ (s.override # NoMode => preferred = s.override)
    BY <1>1, PreferredMode
<1>3. /\ p.router \in BOOLEAN /\ p.multi \in BOOLEAN /\ p.agentic \in BOOLEAN
      /\ p.router <=> s.override # NoMode \/ s.routing_enabled
      /\ s.override # NoMode => /\ p.multi <=> s.override = "multi_agent"
                                /\ p.agentic <=> s.override = "single_agent"
      /\ s.override = NoMode => (p.multi <=> s.multi_agent_workflow_enabled)
      /\ s.override = NoMode /\ s.routing_enabled =>
           (p.agentic <=> s.agentic_workflow_enabled)
      /\ s.override = NoMode /\ ~s.routing_enabled =>
           (p.agentic <=> s.agentic_workflow_enabled /\ ~s.multi_agent_workflow_enabled)
    BY PartsFacts
<1>4. /\ ~p.router =>
           /\ r.mode = LegacyMode(p) /\ r.preferred = r.mode /\ r.fallback = {}
      /\ p.router =>
           /\ r.preferred = preferred
           /\ r.mode \in ExecutionMode
           /\ r.mode = "multi_agent" <=> preferred = "multi_agent" /\ p.multi
           /\ r.mode = "single_agent" <=>
                   /\ p.agentic
                   /\ preferred = "single_agent" \/ (preferred = "multi_agent" /\ ~p.multi)
           /\ r.fallback = {} <=> r.mode = preferred
    BY <1>1, <1>2, <1>3, RouteFields
<1>5. /\ s.routing_enabled \in BOOLEAN /\ s.agentic_workflow_enabled \in BOOLEAN
      /\ s.multi_agent_workflow_enabled \in BOOLEAN
    BY SettingsTypeAssumption
<1>6. CASE s.override # NoMode
    <2>1. r.mode = s.override /\ r.preferred = r.mode /\ r.fallback = {}
        BY <1>2, <1>3, <1>4, <1>6 DEF ExecutionMode
    <2>2. r.mode \in ExecutionMode /\ Size(r.mode) <= Size(r.preferred)
        BY <1>2, <1>6, <2>1, Sizes DEF ExecutionMode
    <2>3. ByPrecedence(s, r)
        BY <1>6, <2>1, <2>2 DEF ByPrecedence
    <2> QED
        BY <1>3, <1>6, <2>1, <2>2, <2>3
<1>7. CASE s.override = NoMode /\ s.routing_enabled
    <2>1. p.router
        BY <1>3, <1>7
    <2>2. Size(r.mode) <= Size(r.preferred)
        BY <1>2, <1>3, <1>4, <2>1, Sizes DEF ExecutionMode
    <2>3. ByPrecedence(s, r)
        BY <1>3, <1>4, <1>5, <1>7, <2>1, <2>2 DEF ByPrecedence
    <2> QED
        BY <1>3, <1>4, <2>1, <2>3
<1>8. CASE s.override = NoMode /\ ~s.routing_enabled
    <2>1. /\ ~p.router /\ r.mode = LegacyMode(p) /\ r.preferred = r.mode /\ r.fallback = {}
        BY <1>3, <1>4, <1>8
    <2>2. /\ r.mode \in ExecutionMode
          /\ r.mode = "multi_agent" <=> p.multi
          /\ r.mode = "single_agent" <=> ~p.multi /\ p.agentic
        BY <1>3, <2>1 DEF LegacyMode, ExecutionMode
    <2>3. Size(r.mode) <= Size(r.preferred)
        BY <2>1, <2>2, Sizes DEF ExecutionMode
    <2>4. r.mode = CASE s.multi_agent_workflow_enabled -> "multi_agent"
                     [] ~s.multi_agent_workflow_enabled /\ s.agentic_workflow_enabled ->
                          "single_agent"
                     [] OTHER -> "deterministic"
        BY <1>3, <1>5, <1>8, <2>2 DEF ExecutionMode
    <2>5. ByPrecedence(s, r)
        BY <1>8, <2>1, <2>3, <2>4 DEF ByPrecedence
    <2> QED
        BY <2>2, <2>5
<1> QED
    BY <1>5, <1>6, <1>7, <1>8

(* References that the model gives. *)
Citations == UNION {[1..n -> Chunks] : n \in 0..MaxCited}

(* The references kept are those that are evidence, each once, in the order *)
(* in which the model first gives them.                                     *)
LEMMA KeptIsExact ==
    ASSUME NEW cited \in Citations, NEW E, NEW kept, kept = Kept(cited, E)
    PROVE  /\ {kept[i] : i \in DOMAIN kept} = {cited[i] : i \in DOMAIN cited} \cap E
           /\ \A i, k \in DOMAIN kept : kept[i] = kept[k] => i = k
           /\ \A i, k \in DOMAIN kept : i < k =>
                \E p \in DOMAIN cited : cited[p] = kept[i] /\ \A q \in 1..p : cited[q] # kept[k]
<1>1. PICK n \in Nat : cited \in [1..n -> Chunks]
    BY MaxCitedAssumption DEF Citations
<1>2. PICK first : first = {i \in DOMAIN cited :
                                cited[i] \in E /\ \A k \in 1..i - 1 : cited[k] # cited[i]}
    OBVIOUS
<1>3. DOMAIN cited = 1..n /\ IsFiniteSet(1..n)
    BY <1>1, FS_Interval
<1>4. first \subseteq Int /\ IsFiniteSet(first)
    BY <1>2, <1>3, FS_Subset
<1>5. PICK R, m, o : R = Ascending(first) /\ m = Cardinality(first) /\ o = InOrder(first, R)
    OBVIOUS
<1>6. /\ m \in Nat /\ o \in [1..m -> first]
      /\ \A x \in first : \E i \in 1..m : o[i] = x
      /\ \A i, k \in 1..m : i < k => o[i] < o[k]
    <2>1. Orders(R, first)
        BY <1>4, <1>5, AscendingOrders
    <2>2. /\ m \in Nat /\ o \in [1..m -> first]
          /\ \A x \in first : \E i \in 1..m : o[i] = x
          /\ \A i, k \in 1..m : i < k => <<o[i], o[k]>> \in R
        BY <1>5, <2>1, InOrderIsBijective
    <2>3. \A x, y : <<x, y>> \in R => x < y
        BY <1>5 DEF Ascending
    <2> QED
        BY <2>2, <2>3
<1>7. kept = [i \in DOMAIN o |-> cited[o[i]]]
    BY <1>2, <1>5 DEF Kept
<1>8. DOMAIN kept = 1..m /\ \A i \in 1..m : kept[i] = cited[o[i]]
    BY <1>6, <1>7
<1>9. \A i \in 1..m : /\ o[i] \in 1..n /\ cited[o[i]] \in E
                       /\ \A q \in 1..o[i] - 1 : cited[q] # cited[o[i]]
    BY <1>2, <1>3, <1>6
<1>10. ASSUME NEW i \in 1..m, NEW k \in 1..m, i < k
       PROVE  \A q \in 1..o[i] : cited[q] # kept[k]
    <2>1. o[i] \in 1..n /\ o[k] \in 1..n /\ o[i] < o[k]
        BY <1>6, <1>9, <1>10
    <2>2. \A q \in 1..o[i] : q \in 1..o[k] - 1
        BY <2>1
    <2> QED
        BY <1>8, <1>9, <2>2
<1>11. ASSUME NEW i \in 1..m, NEW k \in 1..m, i < k PROVE kept[i] # kept[k]
    <2>1. o[i] \in 1..o[i]
        BY <1>9
    <2> QED
        BY <1>8, <1>10, <1>11, <2>1
<1>12. ASSUME NEW p \in 1..n, cited[p] \in E PROVE \E i \in 1..m : kept[i] = cited[p]
    <2>1. PICK S : S = {q \in 1..n : cited[q] = cited[p]}
        OBVIOUS
    <2>2. S \subseteq Nat /\ S # {}
        BY <2>1
    <2>3. PICK q \in S : \A y \in S : q <= y
        BY <2>2, Smallest
    <2>4. q \in 1..n /\ cited[q] = cited[p] /\ \A k \in 1..q - 1 : cited[k] # cited[q]
        BY <1>1, <2>1, <2>3
    <2>5. q \in first
        BY <1>2, <1>3, <1>12, <2>4
    <2> QED
        BY <1>6, <1>8, <2>4, <2>5
<1>13. \A i, k \in 1..m : kept[i] = kept[k] => i = k
    <2>1. \A i, k \in 1..m : i = k \/ i < k \/ k < i
        BY <1>6
    <2> QED
        BY <1>11, <2>1
<1>14. {kept[i] : i \in 1..m} = {cited[i] : i \in 1..n} \cap E
    BY <1>8, <1>9, <1>12
<1>15. \A i, k \in 1..m : i < k =>
            \E p \in 1..n : cited[p] = kept[i] /\ \A q \in 1..p : cited[q] # kept[k]
    BY <1>8, <1>9, <1>10
<1> QED
    BY <1>3, <1>8, <1>13, <1>14, <1>15

JobShape ==
    job = [pc |-> job.pc, evidence |-> job.evidence, cited |-> job.cited, hybrid |-> job.hybrid,
           status |-> job.status, references |-> job.references, grounded |-> job.grounded,
           provenance |-> job.provenance, reported |-> job.reported]

(* The settings were accepted. *)
Accepted == deployment \in Deployments /\ Settings(deployment)

(* So were they by the providers, and the parts are the ones they ask for. *)
Prepared ==
    /\ Accepted /\ deployment.retry_base_delay_ms <= MaxDelayMs
    /\ parts = get_assessment_service(deployment)

(* A provider could not be made. *)
Unserved == job.status = "internal_server_error"

(* The deterministic path of a deployment without retrieval. *)
Unaided == routing.mode = "deterministic" /\ parts.rag = "none"

Unrouted == {"idle", "start", "refused", "serving", "ready"}

Working == {"workflow", "retrieve", "generate", "ground"}

Underway == Working \cup {"answered"}

(* Why a configured call failed. *)
FailureExplained ==
    /\ job.status # "missing_workflow"
    /\ job.status = "embedding_not_configured" =>
        deployment.keys["openai"] = "absent" /\ parts.rag = "vector"
    /\ job.status = "provider_not_configured" => ~provider_is_configured(deployment)

ExecutionInv ==
    /\ JobShape
    /\ job.pc \in Unrouted \cup Underway
    /\ job.pc = "start" => deployment \in Deployments
    /\ job.pc = "serving" => Accepted
    /\ job.pc \in Unrouted \/ Unserved => routing = NoRoute
    /\ Unserved => deployment.retry_base_delay_ms > MaxDelayMs
    /\ job.pc \in {"ready"} \cup Underway /\ ~Unserved => Prepared
    /\ job.pc \in Underway /\ ~Unserved =>
        /\ ByPrecedence(deployment, routing) /\ routing.mode \in ExecutionMode
    /\ job.pc # "answered" => job.status = "none"
    /\ job.pc = "workflow" => routing.mode # "deterministic"
    /\ job.pc \in {"generate", "ground"} /\ Unaided => job.evidence = {}
    /\ job.pc = "ground" => job.cited \in Citations
    /\ FailureExplained
    /\ AnswerIsGrounded
    /\ job.status = "ok" /\ parts.router => job.reported = routing

(* ExecutionInv holds before the settings are read. *)
LEMMA ExecutionInit ==
    ASSUME ExecutionIdle \/ ExecutionBegin
    PROVE  ExecutionInv
<1>1. /\ routing = NoRoute
      /\ job = NoJob \/ (job = [NoJob EXCEPT !.pc = "start"] /\ deployment \in Deployments)
    BY DEF ExecutionIdle, ExecutionBegin
<1>2. /\ JobShape /\ job.status = "none"
      /\ job.pc = "idle" \/ (job.pc = "start" /\ deployment \in Deployments)
    BY <1>1 DEF NoJob, JobShape
<1> QED
    BY <1>1, <1>2
       DEF ExecutionInv, Unrouted, Underway, Working, Unserved, FailureExplained,
           AnswerIsGrounded

(* A step of a job that is under way and stays so, or is answered. *)
LEMMA Moved ==
    ASSUME ExecutionInv, NEW j, Continue(j),
           j = [pc |-> j.pc, evidence |-> j.evidence, cited |-> j.cited, hybrid |-> j.hybrid,
                status |-> j.status, references |-> j.references, grounded |-> j.grounded,
                provenance |-> j.provenance, reported |-> j.reported],
           job.pc \in Working, j.pc \in {"generate", "ground", "answered"},
           j.pc # "answered" => j.status = "none", j.status # "internal_server_error",
           j.pc \in {"generate", "ground"} /\ Unaided => j.evidence = {},
           j.pc = "ground" => j.cited \in Citations,
           FailureExplained',
           AnswerIsGrounded', j.status = "ok" /\ parts.router => j.reported = routing
    PROVE  ExecutionInv'
<1>1. job' = j /\ deployment' = deployment /\ parts' = parts /\ routing' = routing
    BY DEF Continue
<1>2. JobShape'
    BY <1>1 DEF JobShape
<1>3. Prepared /\ ByPrecedence(deployment, routing) /\ routing.mode \in ExecutionMode
    BY DEF ExecutionInv, Working, Underway, Unserved
<1>4. Prepared' /\ (Unaided' <=> Unaided)
    BY <1>1, <1>3 DEF Prepared, Accepted, Unaided
<1>5. ByPrecedence(deployment, routing)' /\ (routing.mode \in ExecutionMode)'
    BY <1>1, <1>3
<1>6. ~Unserved'
    BY <1>1 DEF Unserved
<1> QED
    BY <1>1, <1>2, <1>4, <1>5, <1>6 DEF ExecutionInv, Unrouted, Underway, Working

(* A job that fails, for a reason. *)
LEMMA Failed ==
    ASSUME ExecutionInv, NEW code, Continue(Fails(job, code)), job.pc \in Working,
           code \notin {"ok", "none", "missing_workflow", "internal_server_error"},
           code = "embedding_not_configured" =>
                deployment.keys["openai"] = "absent" /\ parts.rag = "vector",
           code = "provider_not_configured" => ~provider_is_configured(deployment)
    PROVE  ExecutionInv'
<1>1. PICK j : j = Fails(job, code)
    OBVIOUS
<1>2. j = [pc |-> "answered", evidence |-> job.evidence, cited |-> job.cited,
           hybrid |-> job.hybrid, status |-> code, references |-> job.references,
           grounded |-> job.grounded, provenance |-> job.provenance, reported |-> job.reported]
    BY <1>1 DEF Fails, ExecutionInv, JobShape
<1>3. job' = j /\ deployment' = deployment /\ parts' = parts /\ routing' = routing
    BY <1>1 DEF Continue
<1>4. FailureExplained' /\ AnswerIsGrounded'
    BY <1>2, <1>3 DEF FailureExplained, AnswerIsGrounded, provider_is_configured
<1>5. Continue(j)
    BY <1>1
<1> QED
    BY <1>2, <1>4, <1>5, Moved

(* Boot preserves ExecutionInv. *)
LEMMA BootKeeps ==
    ASSUME ExecutionInv, Boot
    PROVE  ExecutionInv'
<1>1. /\ job.pc = "start" /\ deployment' = deployment /\ routing' = routing
      /\ deployment \in Deployments /\ routing = NoRoute /\ job.status = "none" /\ JobShape
    BY DEF Boot, Continue, ExecutionInv, Unrouted
<1>2. PICK to : to = IF Settings(deployment) THEN "serving" ELSE "refused"
    OBVIOUS
<1>3. job' = [job EXCEPT !.pc = to]
    BY <1>2 DEF Boot, Continue
<1>4. JobShape' /\ job'.pc = to /\ job'.status = "none"
    BY <1>1, <1>3 DEF JobShape
<1>5. to = "refused" \/ (to = "serving" /\ Accepted')
    BY <1>1, <1>2 DEF Accepted
<1>6. FailureExplained' /\ AnswerIsGrounded' /\ ~Unserved'
    BY <1>4 DEF FailureExplained, AnswerIsGrounded, Unserved
<1> QED
    BY <1>1, <1>4, <1>5, <1>6 DEF ExecutionInv, Unrouted, Underway, Working

(* SolveDependencies preserves ExecutionInv. *)
LEMMA SolveKeeps ==
    ASSUME ExecutionInv, SolveDependencies
    PROVE  ExecutionInv'
<1>1. /\ job.pc = "serving" /\ deployment' = deployment /\ routing' = routing
      /\ Accepted /\ routing = NoRoute /\ job.status = "none" /\ JobShape
    BY DEF SolveDependencies, ExecutionInv, Unrouted
<1>2. deployment.retry_base_delay_ms \in Int
    BY <1>1, SettingsTypeAssumption DEF Accepted
<1>3. CASE deployment.retry_base_delay_ms <= MaxDelayMs
    <2>1. parts' = get_assessment_service(deployment) /\ job' = [job EXCEPT !.pc = "ready"]
        BY <1>3 DEF SolveDependencies, build_structured_model_provider, build_embedding_provider,
           RetryPolicy
    <2>2. JobShape' /\ job'.pc = "ready" /\ job'.status = "none"
        BY <1>1, <2>1 DEF JobShape
    <2>3. Prepared'
        BY <1>1, <1>3, <2>1 DEF Prepared, Accepted
    <2>4. FailureExplained' /\ AnswerIsGrounded' /\ ~Unserved'
        BY <2>2 DEF FailureExplained, AnswerIsGrounded, Unserved
    <2> QED
        BY <1>1, <2>2, <2>3, <2>4 DEF ExecutionInv, Unrouted, Underway, Working
<1>4. CASE ~(deployment.retry_base_delay_ms <= MaxDelayMs)
    <2>1. job' = Fails(job, "internal_server_error")
        BY <1>4 DEF SolveDependencies, build_structured_model_provider, RetryPolicy
    <2>2. JobShape' /\ job'.pc = "answered" /\ job'.status = "internal_server_error"
        BY <1>1, <2>1 DEF JobShape, Fails
    <2>3. FailureExplained' /\ AnswerIsGrounded' /\ Unserved'
        BY <2>2 DEF FailureExplained, AnswerIsGrounded, Unserved
    <2>4. deployment'.retry_base_delay_ms > MaxDelayMs
        BY <1>1, <1>2, <1>4 DEF MaxDelayMs
    <2> QED
        BY <1>1, <2>2, <2>3, <2>4 DEF ExecutionInv, Unrouted, Underway, Working
<1> QED
    BY <1>3, <1>4

(* Dispatch preserves ExecutionInv. *)
LEMMA DispatchKeeps ==
    ASSUME ExecutionInv, Dispatch
    PROVE  ExecutionInv'
<1>1. /\ job.pc = "ready" /\ deployment' = deployment /\ parts' = parts
      /\ Prepared /\ job.status = "none" /\ JobShape
    BY DEF Dispatch, ExecutionInv, Unserved
<1>2. PICK w \in Workloads :
        /\ routing' = _route_execution(deployment, parts, w)
        /\ job' = [job EXCEPT !.pc = CASE routing'.mode = "multi_agent" /\ parts.multi -> "workflow"
                                       [] routing'.mode = "single_agent" /\ parts.agentic -> "workflow"
                                       [] routing'.mode = "deterministic" -> "retrieve"
                                       [] OTHER -> "assertion"]
    BY DEF Dispatch
<1>3. PICK r : r = _route_execution(deployment, parts, w)
    OBVIOUS
<1>4. /\ ByPrecedence(deployment, r) /\ r.mode \in ExecutionMode
      /\ r.mode = "multi_agent" => parts.multi
      /\ r.mode = "single_agent" => parts.agentic
    BY <1>1, <1>3, RouteFacts DEF Prepared, Accepted
<1>5. PICK to : to = CASE r.mode = "multi_agent" /\ parts.multi -> "workflow"
                       [] r.mode = "single_agent" /\ parts.agentic -> "workflow"
                       [] r.mode = "deterministic" -> "retrieve"
                       [] OTHER -> "assertion"
    OBVIOUS
<1>6. routing' = r /\ job' = [job EXCEPT !.pc = to]
    BY <1>2, <1>3, <1>5
<1>7. /\ to \in {"workflow", "retrieve"}
      /\ to = "workflow" => r.mode # "deterministic"
    BY <1>4, <1>5 DEF ExecutionMode
<1>8. JobShape' /\ job'.pc = to /\ job'.status = "none"
    BY <1>1, <1>6 DEF JobShape
<1>9. Prepared'
    BY <1>1 DEF Prepared, Accepted
<1>10. FailureExplained' /\ AnswerIsGrounded' /\ ~Unserved'
    BY <1>8 DEF FailureExplained, AnswerIsGrounded, Unserved
<1>11. ByPrecedence(deployment, routing)' /\ routing'.mode \in ExecutionMode
    BY <1>1, <1>4, <1>6
<1> QED
    BY <1>6, <1>7, <1>8, <1>9, <1>10, <1>11 DEF ExecutionInv, Unrouted, Underway, Working

(* The failures of a run preserve ExecutionInv. *)
LEMMA FailuresAreKept ==
    ASSUME ExecutionInv, Unexpected \/ GenerationError
    PROVE  ExecutionInv'
<1>1. CASE Unexpected
    <2>1. job.pc \in Working /\ job.pc # "assertion"
        BY <1>1 DEF Unexpected, ExecutionInv, Unrouted, Underway, Working
    <2>2. Continue(Fails(job, "assessment_generation_error"))
        BY <1>1, <2>1 DEF Unexpected
    <2> QED
        BY <2>1, <2>2, Failed
<1>2. CASE GenerationError
    <2>1. PICK code : code = IF ChatConfigured THEN "llm_provider_error"
                             ELSE "provider_not_configured"
        OBVIOUS
    <2>2. job.pc \in Working /\ Continue(Fails(job, code))
        BY <1>2, <2>1 DEF GenerationError, Working
    <2> QED
        BY <2>1, <2>2, Failed DEF ChatConfigured
<1> QED
    BY <1>1, <1>2

(* Retrieve preserves ExecutionInv. *)
LEMMA RetrieveKeeps ==
    ASSUME ExecutionInv, Retrieve
    PROVE  ExecutionInv'
<1>1. job.pc = "retrieve" /\ job.pc \in Working /\ job.status = "none" /\ JobShape
    BY DEF Retrieve, ExecutionInv, Working
<1>2. ASSUME NEW E, parts.rag = "none" => E = {},
             Continue([job EXCEPT !.pc = "generate", !.evidence = E,
                                  !.hybrid = parts.rag = "hybrid"])
      PROVE  ExecutionInv'
    <2>1. PICK j : j = [job EXCEPT !.pc = "generate", !.evidence = E,
                                   !.hybrid = parts.rag = "hybrid"]
        OBVIOUS
    <2>2. PICK hybrid : hybrid = (parts.rag = "hybrid")
        OBVIOUS
    <2>3. j = [pc |-> "generate", evidence |-> E, cited |-> job.cited, hybrid |-> hybrid,
               status |-> job.status, references |-> job.references,
               grounded |-> job.grounded, provenance |-> job.provenance,
               reported |-> job.reported]
        BY <1>1, <2>1, <2>2 DEF JobShape
    <2>4. job' = j /\ Continue(j)
        BY <1>2, <2>1 DEF Continue
    <2>5. FailureExplained' /\ AnswerIsGrounded'
        BY <1>1, <2>3, <2>4 DEF FailureExplained, AnswerIsGrounded
    <2>6. Unaided => E = {}
        BY <1>2 DEF Unaided
    <2> QED
        BY <1>1, <2>3, <2>4, <2>5, <2>6, Moved
<1>3. ASSUME parts.rag = "vector",
             NEW code, code = IF deployment.keys["openai"] # "absent" THEN "embedding_provider_error"
                              ELSE "embedding_not_configured",
             Continue(Fails(job, code))
      PROVE  ExecutionInv'
    BY <1>1, <1>3, Failed
<1>4. \/ parts.rag = "none" /\ Continue([job EXCEPT !.pc = "generate", !.evidence = {},
                                                    !.hybrid = parts.rag = "hybrid"])
      \/ /\ parts.rag # "none"
         /\ \E E \in SUBSET Chunks :
                Continue([job EXCEPT !.pc = "generate", !.evidence = E,
                                     !.hybrid = parts.rag = "hybrid"])
      \/ /\ parts.rag = "vector"
         /\ Continue(Fails(job, IF deployment.keys["openai"] # "absent"
                                THEN "embedding_provider_error"
                                ELSE "embedding_not_configured"))
    BY DEF Retrieve
<1> QED
    BY <1>2, <1>3, <1>4

(* Generate preserves ExecutionInv. *)
LEMMA GenerateKeeps ==
    ASSUME ExecutionInv, Generate
    PROVE  ExecutionInv'
<1>1. job.pc \in {"workflow", "generate"} /\ job.pc \in Working /\ job.status = "none" /\ JobShape
    BY DEF Generate, ExecutionInv, Working
<1>2. PICK E \in SUBSET Chunks, cited \in Citations :
        /\ job.pc = "generate" => E = job.evidence
        /\ Continue([job EXCEPT !.pc = "ground", !.evidence = E, !.cited = cited])
    BY DEF Generate, Citations
<1>3. PICK j : j = [job EXCEPT !.pc = "ground", !.evidence = E, !.cited = cited]
    OBVIOUS
<1>4. j = [pc |-> "ground", evidence |-> E, cited |-> cited, hybrid |-> job.hybrid,
           status |-> job.status, references |-> job.references,
           grounded |-> job.grounded, provenance |-> job.provenance,
           reported |-> job.reported]
    BY <1>1, <1>3 DEF JobShape
<1>5. job' = j /\ Continue(j)
    BY <1>2, <1>3 DEF Continue
<1>6. FailureExplained' /\ AnswerIsGrounded'
    BY <1>1, <1>4, <1>5 DEF FailureExplained, AnswerIsGrounded
<1>7. Unaided => E = {}
    BY <1>1, <1>2 DEF Unaided, ExecutionInv
<1> QED
    BY <1>1, <1>4, <1>5, <1>6, <1>7, Moved

(* Ground preserves ExecutionInv. *)
LEMMA GroundKeeps ==
    ASSUME ExecutionInv, Ground
    PROVE  ExecutionInv'
<1>1. job.pc = "ground" /\ job.pc \in Working /\ JobShape /\ job.cited \in Citations
    BY DEF Ground, ExecutionInv, Working
<1>2. PICK valid : valid = _provenance_is_valid(job.cited, job.evidence)
    OBVIOUS
<1>3. PICK kept : kept = Kept(job.cited, job.evidence)
    OBVIOUS
<1>4. PICK grounded : grounded = (job.evidence # {})
    OBVIOUS
<1>5. PICK reported : reported = IF parts.router THEN routing
                                 ELSE [NoRoute EXCEPT !.mode = routing.mode]
    OBVIOUS
<1>6. PICK j : j = [job EXCEPT !.pc = "answered", !.status = "ok", !.provenance = valid,
                               !.references = kept, !.grounded = grounded,
                               !.reported = reported]
    OBVIOUS
<1>7. j = [pc |-> "answered", evidence |-> job.evidence, cited |-> job.cited,
           hybrid |-> job.hybrid, status |-> "ok", references |-> kept,
           grounded |-> grounded, provenance |-> valid, reported |-> reported]
    BY <1>1, <1>6 DEF JobShape
<1>8. Continue(j)
    BY <1>2, <1>3, <1>4, <1>5, <1>6 DEF Ground
<1>9. job' = j /\ parts' = parts /\ routing' = routing
    BY <1>8 DEF Continue
<1>10. /\ {kept[i] : i \in DOMAIN kept} =
            {job.cited[i] : i \in DOMAIN job.cited} \cap job.evidence
       /\ \A i, k \in DOMAIN kept : kept[i] = kept[k] => i = k
       /\ \A i, k \in DOMAIN kept : i < k =>
            \E p \in DOMAIN job.cited :
                job.cited[p] = kept[i] /\ \A q \in 1..p : job.cited[q] # kept[k]
    BY <1>1, <1>3, KeptIsExact
<1>11. FailureExplained'
    BY <1>7, <1>9 DEF FailureExplained
<1>12. AnswerIsGrounded'
    <2>1. /\ job'.references = kept /\ job'.evidence = job.evidence /\ job'.cited = job.cited
          /\ job'.provenance = valid /\ job'.grounded = grounded
        BY <1>7, <1>9
    <2>2. PICK all, some : /\ all = {job.cited[i] : i \in DOMAIN job.cited}
                           /\ some = {kept[i] : i \in DOMAIN kept}
        OBVIOUS
    <2>3. some = all \cap job.evidence
        BY <1>10, <2>2
    <2>4. valid <=> some = all
        <3>1. valid <=> \A i \in DOMAIN job.cited : job.cited[i] \in job.evidence
            BY <1>2 DEF _provenance_is_valid
        <3>2. valid <=> all \subseteq job.evidence
            BY <2>2, <3>1
        <3> QED
            BY <2>3, <3>2
    <2>5. grounded <=> job.evidence # {}
        BY <1>4
    <2>6. Unaided => ~grounded
        BY <1>1, <1>4 DEF ExecutionInv
    <2>7. some \subseteq job.evidence
        BY <2>3
    <2> QED
        <3>1. {job'.references[i] : i \in DOMAIN job'.references} = some
            BY <2>1, <2>2
        <3>2. {job'.cited[i] : i \in DOMAIN job'.cited} = all
            BY <2>1, <2>2
        <3>3. \A i, k \in DOMAIN job'.references :
                job'.references[i] = job'.references[k] => i = k
            BY <1>10, <2>1
        <3>4. job'.provenance <=> some = all
            BY <2>1, <2>4
        <3>5. (routing'.mode = "deterministic" /\ parts'.rag = "none") => ~job'.grounded
            BY <1>9, <2>1, <2>6 DEF Unaided
        <3>6. some \subseteq job'.evidence /\ (job'.grounded <=> job'.evidence # {})
            BY <2>1, <2>5, <2>7
        <3>7. \A i, k \in DOMAIN job'.references : i < k =>
                \E p \in DOMAIN job'.cited :
                    /\ job'.cited[p] = job'.references[i]
                    /\ \A q \in 1..p : job'.cited[q] # job'.references[k]
            BY <1>10, <2>1
        <3> QED
            BY <3>1, <3>2, <3>3, <3>4, <3>5, <3>6, <3>7 DEF AnswerIsGrounded
<1>13. parts.router => reported = routing
    BY <1>5
<1> QED
    BY <1>1, <1>7, <1>8, <1>11, <1>12, <1>13, Moved

(* ExecutionInv is inductive. *)
LEMMA ExecutionStep ==
    ASSUME ExecutionInv, [ExecutionNext]_executionVars
    PROVE  ExecutionInv'
<1>1. CASE UNCHANGED executionVars
    <2>1. deployment' = deployment /\ parts' = parts /\ routing' = routing /\ job' = job
        BY <1>1 DEF executionVars
    <2>2. /\ (JobShape => JobShape') /\ (Unaided' => Unaided) /\ (Unserved' <=> Unserved)
          /\ (Accepted => Accepted') /\ (Prepared => Prepared')
        BY <2>1 DEF JobShape, Accepted, Prepared, Unaided, Unserved
    <2>3. FailureExplained => FailureExplained'
        BY <2>1 DEF FailureExplained, provider_is_configured
    <2>4. AnswerIsGrounded => AnswerIsGrounded'
        <3>1. {job'.references[i] : i \in DOMAIN job'.references} =
                {job.references[i] : i \in DOMAIN job.references}
            BY <2>1
        <3>2. {job'.cited[i] : i \in DOMAIN job'.cited} = {job.cited[i] : i \in DOMAIN job.cited}
            BY <2>1
        <3>3. ASSUME \A i, k \in DOMAIN job.references : i < k =>
                        \E p \in DOMAIN job.cited :
                            /\ job.cited[p] = job.references[i]
                            /\ \A q \in 1..p : job.cited[q] # job.references[k]
              PROVE  \A i, k \in DOMAIN job'.references : i < k =>
                        \E p \in DOMAIN job'.cited :
                            /\ job'.cited[p] = job'.references[i]
                            /\ \A q \in 1..p : job'.cited[q] # job'.references[k]
            BY <2>1, <3>3
        <3> SUFFICES ASSUME AnswerIsGrounded, job.status = "ok" PROVE AnswerIsGrounded'
            BY <2>1 DEF AnswerIsGrounded
        <3>4. PICK kept, all : /\ kept = {job.references[i] : i \in DOMAIN job.references}
                               /\ all = {job.cited[i] : i \in DOMAIN job.cited}
            OBVIOUS
        <3>5. /\ kept \subseteq job.evidence /\ (job.provenance <=> kept = all)
              /\ job.grounded <=> job.evidence # {}
              /\ (routing.mode = "deterministic" /\ parts.rag = "none") => ~job.grounded
            BY <3>4 DEF AnswerIsGrounded
        <3>6. /\ \A i, k \in DOMAIN job.references : job.references[i] = job.references[k] => i = k
              /\ \A i, k \in DOMAIN job.references : i < k =>
                    \E p \in DOMAIN job.cited :
                        /\ job.cited[p] = job.references[i]
                        /\ \A q \in 1..p : job.cited[q] # job.references[k]
            BY DEF AnswerIsGrounded
        <3> QED
            BY <2>1, <3>1, <3>2, <3>3, <3>4, <3>5, <3>6 DEF AnswerIsGrounded
    <2>5. ByPrecedence(deployment, routing) => ByPrecedence(deployment, routing)'
        BY <2>1
    <2> QED
        BY <2>1, <2>2, <2>3, <2>4, <2>5 DEF ExecutionInv
<1>2. CASE ExecutionNext
    BY <1>2, BootKeeps, SolveKeeps, DispatchKeeps, FailuresAreKept, RetrieveKeeps, GenerateKeeps, GroundKeeps
       DEF ExecutionNext
<1> QED
    BY <1>1, <1>2

(* ExecutionInv holds in every reachable state. *)
LEMMA ExecutionInvariance == PartSpec => []ExecutionInv
<1>1. PartInit => ExecutionInv
    BY PartBegins, ExecutionInit
<1>2. ExecutionInv /\ [PartNext]_partVars => ExecutionInv'
    BY PartSteps, ExecutionStep
<1> QED
    BY <1>1, <1>2, PTL DEF PartSpec

(* What Settings accepts has passed its validator (validate_chunk_settings). *)
LEMMA AcceptedIsValid ==
    ASSUME Accepted
    PROVE  deployment \in Deployments /\ validate_chunk_settings(deployment)
BY Zenon DEF Accepted, Settings

(* What Settings accepts can be run, but for a base delay of retries above  *)
(* the maximum of RetryPolicy: the mode follows the precedence of override, *)
(* router and flags, its workflow was built, and a production deployment    *)
(* lacks no key it needs (validate_chunk_settings, get_assessment_service   *)
(* with its providers, _route_execution, generate_assessment), for any      *)
(* deployments and requests.                                                *)
THEOREM SettingsSafe == PartSpec => []SettingsAreRunnable
<1>1. ASSUME ExecutionInv PROVE SettingsAreRunnable
    <2>1. Served => job.pc \in Underway /\ ~Unserved
        BY <1>1 DEF ExecutionInv, Served
    <2>2. Served => Prepared /\ ByPrecedence(deployment, routing)
        BY <1>1, <2>1 DEF ExecutionInv
    <2>3. Served => (parts.router <=> deployment.override # NoMode \/ deployment.routing_enabled)
        BY <2>2, PartsFacts DEF Prepared, Accepted
    <2>4. RouteIsRunnable
        <3>1. job.pc # "assertion" /\ job.status # "missing_workflow"
            BY <1>1 DEF ExecutionInv, FailureExplained, Unrouted, Underway, Working
        <3>2. Served => (job.status = "ok"
                            /\ (deployment.override # NoMode \/ deployment.routing_enabled)
                                => job.reported = routing)
            BY <1>1, <2>3 DEF ExecutionInv
        <3> QED
            BY <2>2, <3>1, <3>2 DEF RouteIsRunnable, ByPrecedence
    <2>5. ASSUME Served PROVE parts.exporter # "unsupported"
        <3>1. parts.exporter = build_telemetry_exporter(deployment)
            BY <2>2, <2>5, PartsFacts DEF Prepared, Accepted
        <3>2. deployment.exporter = "none" \/ deployment.otlp_endpoint # "absent"
            <4>1. deployment \in Deployments /\ validate_chunk_settings(deployment)
                BY <2>2, <2>5, AcceptedIsValid DEF Prepared
            <4> QED
                BY <4>1, SettingsTypeAssumption DEF validate_chunk_settings
        <3> QED
            BY <3>1, <3>2 DEF build_telemetry_exporter
    <2>6. ASSUME Served, deployment.environment = "production"
          PROVE  /\ job.status # "embedding_not_configured"
                 /\ job.status = "provider_not_configured" =>
                        /\ ~deployment.provider_required /\ ~deployment.rag_enabled
                        /\ ~deployment.agentic_workflow_enabled
                        /\ ~deployment.multi_agent_workflow_enabled
                        /\ ~deployment.knowledge_graph_enabled /\ ~deployment.judge_enabled
        <3>1. ProviderKeys(deployment)
            <4>1. validate_chunk_settings(deployment)
                BY <2>2, <2>6, AcceptedIsValid DEF Prepared
            <4> QED
                BY <2>6, <4>1 DEF validate_chunk_settings, _validate_production_settings
        <3>2. parts.rag = "none" <=> ~deployment.rag_enabled
            BY <2>2, <2>6, PartsFacts DEF Prepared, Accepted
        <3> QED
            BY <1>1, <3>1, <3>2 DEF ProviderKeys, ExecutionInv, FailureExplained
    <2>7. ProductionIsConfigured
        BY <2>5, <2>6 DEF ProductionIsConfigured
    <2>8. ASSUME job.pc \notin {"idle", "start", "refused", "serving"}
          PROVE  job.status = "internal_server_error" <=>
                    deployment.retry_base_delay_ms > MaxDelayMs
        <3>1. job.pc \in {"ready"} \cup Underway
            BY <1>1, <2>8 DEF ExecutionInv, Unrouted
        <3>2. CASE Unserved
            BY <1>1, <3>2 DEF ExecutionInv, Unserved
        <3>3. CASE ~Unserved
            <4>1. Prepared
                BY <1>1, <3>1, <3>3 DEF ExecutionInv
            <4>2. /\ deployment.retry_base_delay_ms \in Int
                  /\ deployment.retry_base_delay_ms <= MaxDelayMs
                BY <4>1, SettingsTypeAssumption DEF Prepared, Accepted
            <4> QED
                BY <3>3, <4>2 DEF Unserved, MaxDelayMs
        <3> QED
            BY <3>2, <3>3
    <2> QED
        BY <2>4, <2>7, <2>8 DEF SettingsAreRunnable
<1> QED
    BY <1>1, ExecutionInvariance, PTL

(* Answers cite nothing but the evidence of their own run, each piece once, *)
(* in the model's order, and say so (_apply_grounding_metadata,             *)
(* _provenance_is_valid), for any set of chunks, any number of references   *)
(* and whatever the retrieval returns.                                      *)
THEOREM GroundingSafe == PartSpec => []AnswerIsGrounded
<1>1. ExecutionInv => AnswerIsGrounded
    BY DEF ExecutionInv
<1> QED
    BY <1>1, ExecutionInvariance, PTL

-----------------------------------------------------------------------------
(* Walks. *)

(* A step of a walk. *)
Step(E, x, y) == x = y \/ \E e \in E : {x, y} \subseteq Endpoints(e)

(* What a walk is. *)
LEMMA WalkFacts ==
    ASSUME NEW A, NEW E, NEW n \in Nat, NEW w
    PROVE  w \in Walks(A, E, n) <=> /\ w \in [0..n -> Entities] /\ w[0] \in A
                                    /\ \A k \in 1..n : Step(E, w[k - 1], w[k])
BY DEF Walks, Step

(* One walk goes nowhere. *)
LEMMA WithinNone ==
    ASSUME NEW A, A \subseteq Entities, NEW E
    PROVE  A \subseteq Within(A, E, 0)
<1> SUFFICES ASSUME NEW x \in A PROVE x \in Within(A, E, 0)
    OBVIOUS
<1>1. PICK w : w = [k \in 0..0 |-> x]
    OBVIOUS
<1>2. w \in [0..0 -> Entities] /\ w[0] = x /\ 1..0 = {}
    BY <1>1
<1>3. w \in Walks(A, E, 0)
    BY <1>2, WalkFacts
<1> QED
    BY <1>2, <1>3 DEF Within

(* What is within n is an entity. *)
LEMMA WithinType ==
    ASSUME NEW A, NEW E, NEW n \in Nat
    PROVE  Within(A, E, n) \subseteq Entities
<1> SUFFICES ASSUME NEW w \in Walks(A, E, n) PROVE w[n] \in Entities
    BY DEF Within
<1>1. w \in [0..n -> Entities]
    BY WalkFacts
<1> QED
    BY <1>1

(* A longer walk. *)
LEMMA WithinStep ==
    ASSUME NEW A, NEW E, NEW n \in Nat, NEW x \in Within(A, E, n), NEW y \in Entities, Step(E, x, y)
    PROVE  y \in Within(A, E, n + 1)
<1>1. PICK w \in Walks(A, E, n) : w[n] = x
    BY DEF Within
<1>2. /\ w \in [0..n -> Entities] /\ w[0] \in A
      /\ \A k \in 1..n : Step(E, w[k - 1], w[k])
    BY <1>1, WalkFacts
<1>3. PICK v : v = [k \in 0..n + 1 |-> IF k = n + 1 THEN y ELSE w[k]]
    OBVIOUS
<1>4. v \in [0..n + 1 -> Entities] /\ v[n + 1] = y /\ \A k \in 0..n : v[k] = w[k]
    BY <1>2, <1>3
<1>5. ASSUME NEW k \in 1..n + 1 PROVE Step(E, v[k - 1], v[k])
    <2>1. CASE k = n + 1
        <3>1. k - 1 = n /\ n \in 0..n
            BY <2>1
        <3> QED
            BY <1>1, <1>4, <2>1, <3>1
    <2>2. CASE k # n + 1
        <3>1. k \in 1..n /\ k \in 0..n /\ k - 1 \in 0..n
            BY <2>2
        <3> QED
            BY <1>2, <1>4, <3>1
    <2> QED
        BY <2>1, <2>2
<1>6. v[0] \in A
    <2>1. 0 \in 0..n
        OBVIOUS
    <2> QED
        BY <1>2, <1>4, <2>1
<1>7. v \in Walks(A, E, n + 1)
    BY <1>4, <1>5, <1>6, WalkFacts
<1> QED
    BY <1>4, <1>7 DEF Within

(* The last step of a walk. *)
LEMMA WithinLast ==
    ASSUME NEW A, NEW E, NEW n \in Nat, NEW y \in Within(A, E, n + 1)
    PROVE  \E x \in Within(A, E, n) : Step(E, x, y)
<1>1. PICK w \in Walks(A, E, n + 1) : w[n + 1] = y
    BY DEF Within
<1>2. /\ w \in [0..n + 1 -> Entities] /\ w[0] \in A
      /\ \A k \in 1..n + 1 : Step(E, w[k - 1], w[k])
    BY <1>1, WalkFacts
<1>3. PICK v : v = [k \in 0..n |-> w[k]]
    OBVIOUS
<1>4. v \in [0..n -> Entities] /\ \A k \in 0..n : v[k] = w[k]
    BY <1>2, <1>3
<1>5. ASSUME NEW k \in 1..n PROVE Step(E, v[k - 1], v[k])
    <2>1. k \in 1..n + 1 /\ k \in 0..n /\ k - 1 \in 0..n
        OBVIOUS
    <2> QED
        BY <1>2, <1>4, <2>1
<1>6. v[0] \in A /\ v[n] = w[n]
    <2>1. 0 \in 0..n /\ n \in 0..n
        OBVIOUS
    <2> QED
        BY <1>2, <1>4, <2>1
<1>7. v[n] \in Within(A, E, n)
    BY <1>4, <1>5, <1>6, WalkFacts DEF Within
<1>8. n + 1 \in 1..n + 1 /\ (n + 1) - 1 = n
    OBVIOUS
<1>9. Step(E, w[n], w[n + 1])
    BY <1>2, <1>8
<1> QED
    BY <1>1, <1>6, <1>7, <1>9

(* Walks from nowhere do not exist, and a walk of no steps stays. *)
LEMMA WithinStart ==
    ASSUME NEW A, NEW E, NEW n \in Nat
    PROVE  Within({}, E, n) = {} /\ Within(A, E, 0) \subseteq A
BY WalkFacts DEF Within

(* More edges, more walks. *)
LEMMA WithinMore ==
    ASSUME NEW A, NEW E, NEW F, E \subseteq F, NEW n \in Nat
    PROVE  Within(A, E, n) \subseteq Within(A, F, n)
<1> SUFFICES ASSUME NEW w \in Walks(A, E, n) PROVE w \in Walks(A, F, n)
    BY DEF Within
<1> QED
    BY DEF Walks

(* A longer walk may stay. *)
LEMMA WithinLonger ==
    ASSUME NEW A, NEW E, NEW n \in Nat, NEW m \in Nat, n <= m
    PROVE  Within(A, E, n) \subseteq Within(A, E, m)
<1> SUFFICES ASSUME NEW w \in Walks(A, E, n) PROVE w[n] \in Within(A, E, m)
    BY DEF Within
<1>2. /\ w \in [0..n -> Entities] /\ w[0] \in A
      /\ \A k \in 1..n : Step(E, w[k - 1], w[k])
    BY WalkFacts
<1>3. PICK v : v = [k \in 0..m |-> IF k <= n THEN w[k] ELSE w[n]]
    OBVIOUS
<1>4. v \in [0..m -> Entities] /\ (\A k \in 0..n : v[k] = w[k]) /\ (\A k \in n..m : v[k] = w[n])
    BY <1>2, <1>3
<1>5. ASSUME NEW k \in 1..m PROVE Step(E, v[k - 1], v[k])
    <2>1. CASE k <= n
        <3>1. k \in 1..n /\ k \in 0..n /\ k - 1 \in 0..n
            BY <2>1
        <3> QED
            BY <1>2, <1>4, <3>1
    <2>2. CASE ~(k <= n)
        <3>1. k \in n..m /\ k - 1 \in n..m
            BY <2>2
        <3> QED
            BY <1>4, <3>1 DEF Step
    <2> QED
        BY <2>1, <2>2
<1>6. v[0] \in A /\ v[m] = w[n]
    <2>1. 0 \in 0..n /\ m \in n..m
        OBVIOUS
    <2> QED
        BY <1>2, <1>4, <2>1
<1>7. v \in Walks(A, E, m)
    BY <1>4, <1>5, <1>6, WalkFacts
<1> QED
    BY <1>6, <1>7 DEF Within

(* A walk does not leave a set that the edges do not leave. *)
LEMMA WithinClosed ==
    ASSUME NEW A, NEW E, NEW n \in Nat, NEW V, A \subseteq V,
           \A e \in E : Endpoints(e) \cap V # {} => Endpoints(e) \subseteq V
    PROVE  Within(A, E, n) \subseteq V
<1> SUFFICES ASSUME NEW w \in Walks(A, E, n), w[n] \notin V PROVE FALSE
    BY DEF Within
<1>1. /\ w[0] \in A /\ \A k \in 1..n : Step(E, w[k - 1], w[k])
    BY WalkFacts
<1>2. PICK T : T = {k \in 0..n : w[k] \notin V}
    OBVIOUS
<1>3. T \subseteq Nat /\ n \in T
    BY <1>2
<1>4. PICK k \in T : \A m \in T : k <= m
    BY <1>3, Smallest
<1>5. k \in 0..n /\ w[k] \notin V /\ k # 0
    BY <1>1, <1>2
<1>6. k \in 1..n /\ k - 1 \in 0..n /\ ~(k <= k - 1)
    BY <1>5
<1>7. w[k - 1] \in V
    BY <1>2, <1>4, <1>6
<1>8. Step(E, w[k - 1], w[k])
    BY <1>1, <1>6
<1> QED
    BY <1>5, <1>7, <1>8 DEF Step

-----------------------------------------------------------------------------
(* Searches. *)

SearchShape(s) ==
    s = [pc |-> s.pc, mode |-> s.mode, limit |-> s.limit, depth |-> s.depth,
         vector |-> s.vector, vectorError |-> s.vectorError, seeds |-> s.seeds,
         visited |-> s.visited, frontier |-> s.frontier, level |-> s.level, queue |-> s.queue,
         edges |-> s.edges, bounded |-> s.bounded, entities |-> s.entities, cited |-> s.cited,
         evidence |-> s.evidence, graphError |-> s.graphError, answer |-> s.answer,
         status |-> s.status]

(* The relationships a complete traversal follows. *)
SolidEdges == {e \in before : Edges[e].confident}

(* Rows come with the rows they refer to. *)
TablesInv ==
    /\ related \subseteq DOMAIN Edges /\ stored \subseteq DOMAIN Similarity
    /\ mentions = UNION {Grounds(e) : e \in related}
    /\ \A e \in related : Edges[e].chunk \in stored
    /\ before \subseteq related

(* A search before, and without, a traversal. *)
Untouched(s) ==
    /\ s.seeds = {} /\ s.visited = {} /\ s.frontier = {} /\ s.level = 0 /\ s.queue = {}
    /\ s.edges = {} /\ s.bounded = FALSE /\ s.entities = {} /\ s.cited = {} /\ s.evidence = {}

(* A search whose traversal has begun. *)
Traversing(s) ==
    \/ s.pc \in {"expand", "follow", "entities", "mentions", "evidence"}
    \/ s.pc = "done" /\ s.mode = "hybrid" /\ s.graphError = FALSE /\ s.status # "raised"

(* Everything found is reached along what is found, within the bounds. *)
Reached(s) ==
    /\ s.level \in Nat /\ s.depth \in Nat \ {0} /\ s.level <= s.depth
    /\ IsFiniteSet(s.visited) /\ Cardinality(s.visited) <= MaxEntities
    /\ s.seeds \subseteq s.visited /\ s.frontier \subseteq s.visited
    /\ s.visited \subseteq Known
    /\ s.edges \subseteq related
    /\ \A e \in s.edges : Endpoints(e) \subseteq s.visited
    /\ s.visited \subseteq Within(s.seeds, s.edges, s.level)

(* The rows the loop has still to look at. *)
Queued(s) ==
    /\ s.pc = "expand" => s.level < s.depth
    /\ s.pc # "follow" => s.queue = {}
    /\ s.pc = "follow" =>
        /\ s.level > 0 /\ s.queue \subseteq related
        /\ \A e \in s.queue : Endpoints(e) \cap Within(s.seeds, s.edges, s.level - 1) # {}

(* A loop that met no limit has seen every edge of the nodes before the     *)
(* frontier, and all that is within its level.                              *)
Seen(s, E) ==
    /\ \A e \in E : Endpoints(e) \cap (s.visited \ s.frontier) # {} => e \in s.edges \cup s.queue
    /\ s.level > 0 => Within(s.seeds, E, s.level - 1) \subseteq s.visited \ s.frontier
    /\ s.pc = "expand" => Within(s.seeds, E, s.level) \subseteq s.visited

(* After the loop nothing is missing. *)
Whole(s, E) ==
    /\ Within(s.seeds, E, s.depth) \subseteq s.visited
    /\ \A e \in E : Endpoints(e) \cap Within(s.seeds, E, s.depth - 1) # {} => e \in s.edges

(* What the statements after the loop have loaded. *)
Loaded(s) ==
    /\ s.pc \in {"mentions", "evidence", "done"} => s.entities = s.visited
    /\ s.pc \in {"evidence", "done"} =>
        /\ s.cited \subseteq stored
        /\ \A e \in s.edges : Edges[e].chunk \in s.cited
        /\ \A x \in s.visited : \E c \in s.cited : <<x, c>> \in mentions
    /\ s.pc = "done" => s.evidence = s.cited

(* The traversal of the relationships in E. *)
TraversalInv(s, E) ==
    /\ Reached(s) /\ Queued(s) /\ Loaded(s)
    /\ ~s.bounded => IF s.pc \in {"expand", "follow"} THEN Seen(s, E) ELSE Whole(s, E)

(* The rows of search_similar. *)
IsRanking(v) ==
    /\ \E n \in Nat : v \in [1..n -> DOMAIN Similarity]
    /\ \A i, j \in DOMAIN v : v[i] = v[j] => i = j

(* The hybrid answer is that of the two paths. *)
AnswerInv(s) ==
    /\ s.pc = "done" /\ s.mode = "hybrid" /\ s.status # "raised" =>
        /\ s.answer = Merged(s)
        /\ s.status = IF Merged(s) = <<>> /\ Shown(s) = {} THEN "no_evidence" ELSE "ok"
    /\ s.pc = "done" /\ s.status = "failed" => s.mode = "vector"
    /\ s.pc = "done" /\ s.status = "raised" => s.answer = <<>>

(* What is known of the two paths. *)
PathInv(s) ==
    /\ s.limit \in Nat
    /\ s.pc = "similar" =>
        s.mode \in {"vector", "hybrid"} /\ s.vector = <<>> /\ s.vectorError = FALSE
    /\ IsRanking(s.vector)
    /\ s.vectorError \in BOOLEAN /\ (s.vectorError => s.vector = <<>>)
    /\ s.evidence \subseteq DOMAIN Similarity
    /\ s.graphError \in BOOLEAN /\ (s.graphError => s.evidence = {})
    /\ s.pc # "done" => s.graphError = FALSE

(* A search between two of its statements. *)
StageInv(s, E) ==
    /\ s.pc \in {"idle", "similar", "match", "expand", "follow", "entities", "mentions",
                 "evidence", "done"}
    /\ s.pc \notin {"idle", "similar", "done"} => s.mode = "hybrid"
    /\ s.pc # "idle" => s.depth \in Nat \ {0}
    /\ s.pc \in {"idle", "similar", "match"} => Untouched(s)
    /\ Traversing(s) => TraversalInv(s, E)
    /\ PathInv(s) /\ AnswerInv(s)

SearchInv == SearchShape(search) /\ TablesInv /\ StageInv(search, SolidEdges)

(* The fields no statement of the traversal changes. *)
SameAnswer(t, s) ==
    /\ t.mode = s.mode /\ t.limit = s.limit /\ t.depth = s.depth /\ t.vector = s.vector
    /\ t.vectorError = s.vectorError /\ t.graphError = s.graphError

SameRows(t, s) ==
    /\ t.entities = s.entities /\ t.cited = s.cited /\ t.evidence = s.evidence

SameGraph(t, s) ==
    /\ t.seeds = s.seeds /\ t.visited = s.visited /\ t.frontier = s.frontier
    /\ t.level = s.level /\ t.queue = s.queue /\ t.edges = s.edges /\ t.bounded = s.bounded

(* A search that only moves on. *)
LEMMA SearchMoved ==
    ASSUME NEW s, SearchShape(s), NEW pc, NEW t, t = [s EXCEPT !.pc = pc]
    PROVE  /\ SearchShape(t) /\ t.pc = pc
           /\ SameAnswer(t, s) /\ SameRows(t, s) /\ SameGraph(t, s)
<1>1. t = [pc |-> pc, mode |-> s.mode, limit |-> s.limit, depth |-> s.depth,
         vector |-> s.vector, vectorError |-> s.vectorError, seeds |-> s.seeds,
         visited |-> s.visited, frontier |-> s.frontier, level |-> s.level, queue |-> s.queue,
         edges |-> s.edges, bounded |-> s.bounded, entities |-> s.entities, cited |-> s.cited,
         evidence |-> s.evidence, graphError |-> s.graphError, answer |-> s.answer,
         status |-> s.status]
    BY DEF SearchShape
<1> QED
    BY <1>1 DEF SearchShape, SameAnswer, SameRows, SameGraph

(* Whether the endpoints of an edge fit. *)
Fits(s, e) ==
    LET new == Endpoints(e) \ s.visited
    IN  ~(new # {} /\ Cardinality(s.visited) + Cardinality(new) > MaxEntities)

(* What one edge makes of a search. *)
Takes(t, s, e) ==
    /\ SameAnswer(t, s) /\ SameRows(t, s) /\ t.seeds = s.seeds /\ t.level = s.level
    /\ t.queue = s.queue \ {e}
    /\ ~Fits(s, e) => /\ t.bounded = TRUE /\ t.edges = s.edges
                      /\ t.visited = s.visited /\ t.frontier = s.frontier
    /\ Fits(s, e) => /\ t.bounded = s.bounded /\ t.edges = s.edges \cup {e}
                     /\ t.visited = s.visited \cup (Endpoints(e) \ s.visited)
                     /\ t.frontier = s.frontier \cup (Endpoints(e) \ s.visited)

(* Follow takes an edge. *)
LEMMA FollowTakes ==
    ASSUME NEW s, SearchShape(s), NEW e, NEW t, t = Follow([s EXCEPT !.queue = @ \ {e}], e)
    PROVE  SearchShape(t) /\ t.pc = s.pc /\ Takes(t, s, e)
<1> DEFINE new == Endpoints(e) \ s.visited
           Makes(edges, visited, frontier, bounded) ==
            [pc |-> s.pc, mode |-> s.mode, limit |-> s.limit, depth |-> s.depth,
             vector |-> s.vector, vectorError |-> s.vectorError, seeds |-> s.seeds,
             visited |-> visited, frontier |-> frontier, level |-> s.level,
             queue |-> s.queue \ {e}, edges |-> edges, bounded |-> bounded,
             entities |-> s.entities, cited |-> s.cited,
             evidence |-> s.evidence, graphError |-> s.graphError, answer |-> s.answer,
             status |-> s.status]
<1>1. PICK r : r = [s EXCEPT !.queue = @ \ {e}]
    OBVIOUS
<1>2. r = Makes(s.edges, s.visited, s.frontier, s.bounded)
    BY <1>1 DEF SearchShape
<1>3. r.visited = s.visited
    BY <1>2
<1>4. t = IF ~Fits(s, e) THEN [r EXCEPT !.bounded = TRUE]
          ELSE [r EXCEPT !.edges = @ \cup {e}, !.visited = @ \cup new, !.frontier = @ \cup new]
    BY <1>1, <1>3 DEF Follow, Fits
<1>5. CASE ~Fits(s, e)
    <2>1. t = Makes(s.edges, s.visited, s.frontier, TRUE)
        BY <1>2, <1>4, <1>5, ZenonT(40)
    <2> QED
        BY <1>5, <2>1 DEF SearchShape, Takes, SameAnswer, SameRows
<1>6. CASE Fits(s, e)
    <2>1. PICK edges, visited, frontier : /\ edges = s.edges \cup {e}
                                          /\ visited = s.visited \cup new
                                          /\ frontier = s.frontier \cup new
        OBVIOUS
    <2>2. r.edges = s.edges /\ r.visited = s.visited /\ r.frontier = s.frontier
        BY <1>2
    <2>3. t = [r EXCEPT !.edges = edges, !.visited = visited, !.frontier = frontier]
        BY <1>4, <1>6, <2>1, <2>2
    <2>4. t = Makes(edges, visited, frontier, s.bounded)
        BY <1>2, <2>3, ZenonT(40)
    <2>5. /\ SearchShape(t) /\ SameAnswer(t, s) /\ SameRows(t, s) /\ t.seeds = s.seeds
          /\ t.pc = s.pc /\ t.level = s.level /\ t.queue = s.queue \ {e}
          /\ t.edges = edges /\ t.visited = visited /\ t.frontier = frontier
          /\ t.bounded = s.bounded
        BY <2>4 DEF SearchShape, SameAnswer, SameRows
    <2> QED
        BY <1>6, <2>1, <2>5 DEF Takes
<1> QED
    BY <1>5, <1>6

(* What is mentioned is an entity, and the ends of a relationship are. *)
LEMMA KnownEntities ==
    ASSUME TablesInv
    PROVE  /\ Known \subseteq Entities
           /\ \A e \in related : Endpoints(e) \subseteq Known
<1>1. ASSUME NEW x \in Known PROVE x \in Entities
    <2>1. PICK e \in related : \E m \in Grounds(e) : x = m[1]
        BY DEF Known, TablesInv
    <2>2. x \in Endpoints(e) /\ e \in DOMAIN Edges
        BY <2>1 DEF Grounds, TablesInv
    <2> QED
        BY <2>2 DEF Entities
<1>2. ASSUME NEW e \in related, NEW x \in Endpoints(e) PROVE x \in Known
    <2>1. PICK m : m = <<x, Edges[e].chunk>>
        OBVIOUS
    <2>2. m \in Grounds(e) /\ m[1] = x
        BY <1>2, <2>1 DEF Grounds
    <2>3. m \in mentions
        BY <2>2 DEF TablesInv
    <2> QED
        BY <2>2, <2>3 DEF Known
<1> QED
    BY <1>1, <1>2

(* Both ends of an edge. *)
LEMMA TwoEndpoints ==
    ASSUME NEW e
    PROVE  IsFiniteSet(Endpoints(e))
<1>1. IsFiniteSet({Edges[e].source})
    BY FS_Singleton
<1>2. IsFiniteSet({Edges[e].source} \cup {Edges[e].target})
    BY <1>1, FS_AddElement
<1>3. {Edges[e].source} \cup {Edges[e].target} = Endpoints(e)
    BY DEF Endpoints
<1> QED
    BY <1>2, <1>3

(* Entities that fit keep the bound. *)
LEMMA FitsBound ==
    ASSUME NEW s, NEW e, IsFiniteSet(s.visited), Cardinality(s.visited) <= MaxEntities, Fits(s, e)
    PROVE  /\ IsFiniteSet(s.visited \cup (Endpoints(e) \ s.visited))
           /\ Cardinality(s.visited \cup (Endpoints(e) \ s.visited)) <= MaxEntities
<1>1. PICK V, new : V = s.visited /\ new = Endpoints(e) \ s.visited
    OBVIOUS
<1>2. IsFiniteSet(V) /\ IsFiniteSet(new) /\ V \cap new = {}
    BY <1>1, TwoEndpoints, FS_Difference
<1>3. /\ IsFiniteSet(V \cup new)
      /\ Cardinality(V \cup new) = Cardinality(V) + Cardinality(new) - Cardinality({})
    BY <1>2, FS_Union
<1>4. Cardinality({}) = 0 /\ Cardinality(V) \in Nat /\ Cardinality(new) \in Nat
    BY <1>2, FS_EmptySet, FS_CardinalityType
<1>5. MaxEntities \in Nat
    BY BoundAssumption
<1>6. new = {} => V \cup new = V
    OBVIOUS
<1>7. new = {} \/ ~(Cardinality(V) + Cardinality(new) > MaxEntities)
    BY <1>1 DEF Fits
<1>8. Cardinality(V \cup new) <= MaxEntities
    <2>1. CASE new = {}
        BY <1>1, <1>6, <2>1
    <2>2. CASE new # {}
        BY <1>3, <1>4, <1>5, <1>7, <2>2
    <2> QED
        BY <2>1, <2>2
<1> QED
    BY <1>1, <1>3, <1>8

(* An edge of the queue keeps what is reached within the level. *)
LEMMA TakesReached ==
    ASSUME TablesInv, NEW s, NEW t, NEW e, Reached(s), Queued(s), s.pc = "follow",
           e \in s.queue, Takes(t, s, e)
    PROVE  /\ Reached(t) /\ t.queue \subseteq related
           /\ \A f \in t.queue : Endpoints(f) \cap Within(t.seeds, t.edges, t.level - 1) # {}
<1>1. /\ s.level \in Nat /\ s.level > 0 /\ s.level - 1 \in Nat /\ (s.level - 1) + 1 = s.level
      /\ e \in related /\ t.seeds = s.seeds /\ t.level = s.level /\ t.depth = s.depth
      /\ t.queue \subseteq s.queue /\ s.queue \subseteq related
    BY DEF Reached, Queued, Takes, SameAnswer
<1>2. s.edges \subseteq t.edges
    BY DEF Takes
<1>3. /\ Within(s.seeds, s.edges, s.level) \subseteq Within(t.seeds, t.edges, t.level)
      /\ Within(s.seeds, s.edges, s.level - 1) \subseteq Within(t.seeds, t.edges, t.level - 1)
    BY <1>1, <1>2, WithinMore
<1>4. \A f \in t.queue : Endpoints(f) \cap Within(t.seeds, t.edges, t.level - 1) # {}
    BY <1>1, <1>3 DEF Queued
<1>5. CASE ~Fits(s, e)
    <2>1. t.edges = s.edges /\ t.visited = s.visited /\ t.frontier = s.frontier
        BY <1>5 DEF Takes
    <2> QED
        BY <1>1, <1>3, <1>4, <2>1 DEF Reached
<1>6. CASE Fits(s, e)
    <2>1. PICK new : new = Endpoints(e) \ s.visited
        OBVIOUS
    <2>2. /\ t.edges = s.edges \cup {e} /\ t.visited = s.visited \cup new
          /\ t.frontier = s.frontier \cup new
        BY <1>6, <2>1 DEF Takes
    <2>3. IsFiniteSet(t.visited) /\ Cardinality(t.visited) <= MaxEntities
        BY <1>6, <2>1, <2>2, FitsBound DEF Reached
    <2>4. Endpoints(e) \subseteq Known /\ Known \subseteq Entities
        BY <1>1, KnownEntities
    <2>5. PICK x \in Within(t.seeds, t.edges, t.level - 1) : x \in Endpoints(e)
        BY <1>1, <1>3 DEF Queued
    <2>6. ASSUME NEW y \in new PROVE y \in Within(t.seeds, t.edges, t.level)
        <3>1. Step(t.edges, x, y) /\ y \in Entities
            BY <2>1, <2>2, <2>4, <2>5 DEF Step
        <3>2. t.level - 1 \in Nat /\ (t.level - 1) + 1 = t.level
            BY <1>1
        <3>3. y \in Within(t.seeds, t.edges, (t.level - 1) + 1)
            BY <2>5, <3>1, <3>2, WithinStep
        <3> QED
            BY <3>2, <3>3
    <2>7. \A f \in t.edges : Endpoints(f) \subseteq t.visited
        BY <2>1, <2>2 DEF Reached
    <2>8. t.visited \subseteq Within(t.seeds, t.edges, t.level)
        BY <1>3, <2>2, <2>6 DEF Reached
    <2>9. /\ t.edges \subseteq related /\ t.visited \subseteq Known
          /\ t.seeds \subseteq t.visited /\ t.frontier \subseteq t.visited
        BY <1>1, <2>1, <2>2, <2>4 DEF Reached
    <2> QED
        BY <1>1, <1>4, <2>3, <2>7, <2>8, <2>9 DEF Reached
<1> QED
    BY <1>5, <1>6

(* An edge that fits leaves nothing out. *)
LEMMA TakesSeen ==
    ASSUME NEW E, NEW s, NEW t, NEW e, Takes(t, s, e), ~t.bounded, Reached(s),
           ~s.bounded => Seen(s, E), s.pc = "follow", t.pc = "follow"
    PROVE  Seen(t, E)
<1>1. Fits(s, e)
    BY DEF Takes
<1>2. PICK new : new = Endpoints(e) \ s.visited
    OBVIOUS
<1>3. /\ t.edges = s.edges \cup {e} /\ t.visited = s.visited \cup new
      /\ t.frontier = s.frontier \cup new /\ t.queue = s.queue \ {e} /\ ~s.bounded
      /\ t.seeds = s.seeds /\ t.level = s.level
    BY <1>1, <1>2 DEF Takes
<1>4. t.visited \ t.frontier = s.visited \ s.frontier
    BY <1>2, <1>3
<1>5. s.edges \cup s.queue \subseteq t.edges \cup t.queue
    BY <1>3
<1> QED
    BY <1>3, <1>4, <1>5 DEF Seen

(* The loop ends: a level further, or the whole neighborhood. *)
LEMMA LoopEnds ==
    ASSUME NEW E, NEW s, Reached(s), s.pc = "follow", s.level > 0, s.queue = {}, Seen(s, E)
    PROVE  /\ Within(s.seeds, E, s.level) \subseteq s.visited
           /\ s.level = s.depth \/ s.frontier = {} => Whole(s, E)
<1>1. s.level \in Nat /\ s.level - 1 \in Nat /\ (s.level - 1) + 1 = s.level /\ s.depth \in Nat
      /\ s.depth - 1 \in Nat
    BY DEF Reached
<1>2. ASSUME NEW f \in E, Endpoints(f) \cap (s.visited \ s.frontier) # {}
      PROVE  f \in s.edges /\ Endpoints(f) \subseteq s.visited
    BY <1>2 DEF Seen, Reached
<1>3. ASSUME NEW y \in Within(s.seeds, E, s.level) PROVE y \in s.visited
    <2>1. y \in Within(s.seeds, E, (s.level - 1) + 1)
        BY <1>1, <1>3
    <2>2. PICK x \in Within(s.seeds, E, s.level - 1) : Step(E, x, y)
        BY <1>1, <2>1, WithinLast
    <2>3. x \in s.visited \ s.frontier
        BY <2>2 DEF Seen
    <2>4. CASE x = y
        BY <2>3, <2>4
    <2>5. ASSUME NEW f \in E, {x, y} \subseteq Endpoints(f) PROVE y \in s.visited
        BY <1>2, <2>3, <2>5
    <2> QED
        BY <2>2, <2>4, <2>5 DEF Step
<1>4. ASSUME s.level = s.depth PROVE Whole(s, E)
    BY <1>2, <1>3, <1>4 DEF Whole, Seen
<1>5. ASSUME s.frontier = {} PROVE Whole(s, E)
    <2>1. \A f \in E : Endpoints(f) \cap s.visited # {} =>
            f \in s.edges /\ Endpoints(f) \subseteq s.visited
        BY <1>2, <1>5
    <2>2. s.seeds \subseteq s.visited
        BY DEF Reached
    <2>3. Within(s.seeds, E, s.depth) \subseteq s.visited
        BY <1>1, <2>1, <2>2, WithinClosed
    <2>4. Within(s.seeds, E, s.depth - 1) \subseteq s.visited
        BY <1>1, <2>1, <2>2, WithinClosed
    <2> QED
        BY <2>1, <2>3, <2>4 DEF Whole
<1> QED
    BY <1>3, <1>4, <1>5

(* The relationships a level reads. *)
LEMMA LevelFacts ==
    ASSUME TablesInv, NEW F
    PROVE  /\ LevelEdges(F) \subseteq Incident(F) /\ Incident(F) \subseteq related
           /\ LevelEdges(F) = {} => Incident(F) = {}
<1>1. Incident(F) \subseteq related /\ related \subseteq DOMAIN Edges
    BY DEF Incident, TablesInv
<1>2. DOMAIN Edges \subseteq Int /\ IsFiniteSet(DOMAIN Edges)
    BY RowAssumption
<1>3. Incident(F) \subseteq Int /\ IsFiniteSet(Incident(F))
    BY <1>1, <1>2, FS_Subset
<1>4. MaxEntities \in Nat \ {0} /\ EdgesPerEntity \in Nat \ {0}
    BY BoundAssumption
<1>5. PICK n : n = MaxEntities * EdgesPerEntity
    OBVIOUS
<1>6. n \in Nat /\ n > 0
    BY <1>4, <1>5
<1>7. Lowest(Incident(F), n) \subseteq Incident(F)
      /\ (n > 0 /\ Incident(F) # {} => Lowest(Incident(F), n) # {})
    BY <1>3, <1>6, LowestIsBounded
<1> QED
    BY <1>1, <1>5, <1>6, <1>7 DEF LevelEdges

(* No edge leads further: the neighborhood is whole. *)
LEMMA NoMoreEdges ==
    ASSUME TablesInv, NEW s, s.pc = "expand", Reached(s), Queued(s), Seen(s, SolidEdges),
           LevelEdges(s.frontier) = {}
    PROVE  Whole(s, SolidEdges)
<1>1. Incident(s.frontier) = {}
    BY LevelFacts
<1>2. ASSUME NEW f \in SolidEdges, Endpoints(f) \cap s.visited # {}
      PROVE  f \in s.edges /\ Endpoints(f) \subseteq s.visited
    <2>1. f \in related /\ Edges[f].confident
        BY DEF SolidEdges, TablesInv
    <2>2. Endpoints(f) \cap s.frontier = {}
        BY <1>1, <2>1 DEF Incident
    <2>3. Endpoints(f) \cap (s.visited \ s.frontier) # {}
        BY <1>2, <2>2
    <2>4. f \in s.edges
        BY <2>3 DEF Seen, Queued
    <2> QED
        BY <2>4 DEF Reached
<1>3. s.depth \in Nat /\ s.depth - 1 \in Nat /\ s.seeds \subseteq s.visited
    BY DEF Reached
<1>4. \A f \in SolidEdges : Endpoints(f) \cap s.visited # {} => Endpoints(f) \subseteq s.visited
    BY <1>2
<1>5. Within(s.seeds, SolidEdges, s.depth) \subseteq s.visited
    BY <1>3, <1>4, WithinClosed
<1>6. Within(s.seeds, SolidEdges, s.depth - 1) \subseteq s.visited
    BY <1>3, <1>4, WithinClosed
<1> QED
    BY <1>2, <1>5, <1>6 DEF Whole

(* What the statement of a level makes of a search. *)
Opens(t, s) ==
    /\ SameAnswer(t, s) /\ SameRows(t, s) /\ t.seeds = s.seeds /\ t.visited = s.visited
    /\ t.edges = s.edges /\ t.queue = LevelEdges(s.frontier) /\ t.frontier = {}
    /\ t.level = s.level + 1
    /\ t.bounded = (s.bounded \/ LevelEdges(s.frontier) # Incident(s.frontier))

(* The next level begins. *)
LEMMA LevelOpens ==
    ASSUME TablesInv, NEW s, NEW t, s.pc = "expand", Reached(s), Queued(s),
           ~s.bounded => Seen(s, SolidEdges), t.pc = "follow", Opens(t, s)
    PROVE  /\ Reached(t) /\ Queued(t)
           /\ ~t.bounded => Seen(t, SolidEdges)
<1>1. /\ s.level \in Nat /\ s.depth \in Nat \ {0} /\ s.level < s.depth /\ t.level = s.level + 1
      /\ t.depth = s.depth /\ t.level - 1 = s.level /\ t.level \in Nat /\ t.level > 0
      /\ t.level <= t.depth /\ s.level <= t.level
    BY DEF Reached, Queued, Opens, SameAnswer
<1>2. /\ t.seeds = s.seeds /\ t.visited = s.visited /\ t.edges = s.edges /\ t.frontier = {}
      /\ t.queue \subseteq Incident(s.frontier) /\ t.queue \subseteq related
    BY LevelFacts DEF Opens
<1>3. Within(s.seeds, s.edges, s.level) \subseteq Within(t.seeds, t.edges, t.level)
    BY <1>1, <1>2, WithinLonger
<1>4. Reached(t)
    BY <1>1, <1>2, <1>3 DEF Reached
<1>5. ASSUME NEW f \in t.queue
      PROVE  Endpoints(f) \cap Within(t.seeds, t.edges, t.level - 1) # {}
    <2>1. Endpoints(f) \cap s.frontier # {}
        BY <1>2 DEF Incident
    <2>2. s.frontier \subseteq Within(t.seeds, t.edges, t.level - 1)
        BY <1>1, <1>2 DEF Reached
    <2> QED
        BY <2>1, <2>2
<1>6. Queued(t)
    BY <1>1, <1>2, <1>5 DEF Queued
<1>7. ASSUME ~t.bounded PROVE Seen(t, SolidEdges)
    <2>1. ~s.bounded /\ LevelEdges(s.frontier) = Incident(s.frontier)
        BY <1>7 DEF Opens
    <2>2. t.queue = Incident(s.frontier) /\ s.queue = {}
        BY <2>1 DEF Opens, Queued
    <2>3. ASSUME NEW f \in SolidEdges, Endpoints(f) \cap (t.visited \ t.frontier) # {}
          PROVE  f \in t.edges \cup t.queue
        <3>1. f \in related /\ Edges[f].confident
            BY DEF SolidEdges, TablesInv
        <3>2. CASE Endpoints(f) \cap s.frontier # {}
            BY <2>2, <3>1, <3>2 DEF Incident
        <3>3. CASE Endpoints(f) \cap s.frontier = {}
            <4>1. Endpoints(f) \cap (s.visited \ s.frontier) # {}
                BY <1>2, <2>3, <3>3
            <4> QED
                BY <1>2, <2>1, <2>2, <4>1 DEF Seen
        <3> QED
            BY <3>2, <3>3
    <2>4. Within(t.seeds, SolidEdges, t.level - 1) \subseteq t.visited \ t.frontier
        BY <1>1, <1>2, <2>1 DEF Seen
    <2> QED
        BY <2>3, <2>4 DEF Seen
<1> QED
    BY <1>4, <1>6, <1>7

(* The matches are known, and no more than fit. *)
LEMMA MatchFacts ==
    /\ find_matching_query \subseteq Known
    /\ IsFiniteSet(find_matching_query) /\ Cardinality(find_matching_query) <= MaxEntities
<1>1. PICK M : M = {i \in DOMAIN Matching : Matching[i] \in Candidates}
    OBVIOUS
<1>2. M \subseteq Int /\ IsFiniteSet(M) /\ MaxEntities \in Nat
    BY <1>1, RowAssumption, BoundAssumption, FS_Subset
<1>3. PICK L : L = Lowest(M, MaxEntities)
    OBVIOUS
<1>4. L \subseteq M /\ IsFiniteSet(L) /\ Cardinality(L) <= MaxEntities
    BY <1>2, <1>3, LowestIsBounded
<1>5. PICK S : S = find_matching_query
    OBVIOUS
<1>6. S = {Matching[i] : i \in L}
    BY <1>1, <1>3, <1>5 DEF find_matching_query
<1>7. S \subseteq Known
    BY <1>1, <1>4, <1>6 DEF Candidates, Lowest
<1>8. [i \in L |-> Matching[i]] \in Surjection(L, S)
    BY <1>6 DEF Surjection
<1>9. IsFiniteSet(S) /\ Cardinality(S) <= Cardinality(L)
    BY <1>4, <1>8, FS_Surjection
<1>10. Cardinality(S) \in Nat /\ Cardinality(L) \in Nat
    BY <1>4, <1>9, FS_CardinalityType
<1> QED
    BY <1>2, <1>4, <1>5, <1>7, <1>9, <1>10

(* search_similar returns distinct chunks in a sequence. *)
LEMMA SimilarIsRanking ==
    ASSUME TablesInv, search.limit \in Nat
    PROVE  IsRanking(search_similar)
<1>1. PICK fit : fit = {c \in stored : Similarity[c] >= Threshold}
    OBVIOUS
<1>2. PICK R : R = {p \in fit \X fit :
                    \/ Similarity[p[1]] > Similarity[p[2]]
                    \/ Similarity[p[1]] = Similarity[p[2]] /\ p[1] < p[2]}
    OBVIOUS
<1>3. /\ fit \subseteq DOMAIN Similarity /\ IsFiniteSet(fit) /\ fit \subseteq Int
      /\ \A c \in fit : Similarity[c] \in Int
    <2>1. fit \subseteq DOMAIN Similarity
        BY <1>1 DEF TablesInv
    <2> QED
        BY <2>1, RowAssumption, FS_Subset
<1>4. ASSUME NEW x \in fit, NEW y \in fit
      PROVE  <<x, y>> \in R <=> \/ Similarity[x] > Similarity[y]
                                \/ Similarity[x] = Similarity[y] /\ x < y
    BY <1>2
<1>5. Orders(R, fit)
    <2>1. ASSUME NEW x \in fit PROVE <<x, x>> \notin R
        BY <1>3, <1>4
    <2>2. ASSUME NEW x \in fit, NEW y \in fit, NEW z \in fit, <<x, y>> \in R, <<y, z>> \in R
          PROVE  <<x, z>> \in R
        <3>1. /\ x \in Int /\ y \in Int /\ z \in Int /\ Similarity[x] \in Int
              /\ Similarity[y] \in Int /\ Similarity[z] \in Int
            BY <1>3
        <3> QED
            BY <1>4, <2>2, <3>1
    <2>3. ASSUME NEW x \in fit, NEW y \in fit, x # y PROVE <<x, y>> \in R \/ <<y, x>> \in R
        <3>1. x \in Int /\ y \in Int /\ Similarity[x] \in Int /\ Similarity[y] \in Int
            BY <1>3
        <3> QED
            BY <1>4, <2>3, <3>1
    <2> QED
        BY <1>3, <2>1, <2>2, <2>3, Zenon DEF Orders
<1>6. PICK n, o : n = Cardinality(fit) /\ o = InOrder(fit, R)
    OBVIOUS
<1>7. n \in Nat /\ o \in [1..n -> fit] /\ \A i, j \in 1..n : o[i] = o[j] => i = j
    BY <1>5, <1>6, InOrderIsBijective
<1>8. PICK k : k = IF n <= search.limit THEN n ELSE search.limit
    OBVIOUS
<1>9. k \in Nat /\ {j \in 1..n : j <= search.limit} = 1..k /\ 1..k \subseteq 1..n
    BY <1>7, <1>8
<1>10. First(o, search.limit) = [i \in 1..k |-> o[i]]
    BY <1>7, <1>9 DEF First
<1>11. search_similar = First(o, search.limit)
    BY <1>1, <1>2, <1>6 DEF search_similar
<1>12. IsRanking([i \in 1..k |-> o[i]])
    BY <1>3, <1>7, <1>9 DEF IsRanking
<1> QED
    BY <1>10, <1>11, <1>12

(* What a search without the vector path has. *)
LEMMA EmptyRanking == IsRanking(<<>>)
<1>1. <<>> \in [1..0 -> DOMAIN Similarity] /\ DOMAIN <<>> = {}
    OBVIOUS
<1> QED
    BY <1>1 DEF IsRanking

(* A merged answer: the rows of the vector path, then those of extra. *)
MergedAs(s, n, m, extra) ==
    /\ s.vector \in [1..n -> DOMAIN Similarity]
    /\ extra \in [1..m -> s.evidence \ Range(s.vector)]
    /\ \A i, j \in 1..m : extra[i] = extra[j] => i = j
    /\ \A x \in s.evidence \ Range(s.vector) : \E i \in 1..m : extra[i] = x
    /\ DOMAIN Merged(s) = 1..n + m
    /\ \A i \in 1..n : Merged(s)[i] =
        Evidence(s.vector[i], IF s.vector[i] \in s.evidence THEN "both" ELSE "vector", TRUE)
    /\ \A i \in 1..m : Merged(s)[n + i] = Evidence(extra[i], "graph", FALSE)
    /\ Merged(s) = <<>> <=> n = 0 /\ m = 0

(* Merged makes such an answer. *)
LEMMA MergedRows ==
    ASSUME NEW s, IsRanking(s.vector), s.evidence \subseteq DOMAIN Similarity
    PROVE  \E n \in Nat, m \in Nat : \E extra : MergedAs(s, n, m, extra)
<1>1. PICK n \in Nat : s.vector \in [1..n -> DOMAIN Similarity]
    BY DEF IsRanking
<1>2. PICK new : new = s.evidence \ Range(s.vector)
    OBVIOUS
<1>3. IsFiniteSet(new) /\ new \subseteq Int
    <2>1. new \subseteq DOMAIN Similarity
        BY <1>2
    <2> QED
        BY <2>1, RowAssumption, FS_Subset
<1>4. Orders(Ascending(new), new)
    BY <1>3, AscendingOrders
<1>5. PICK m, extra : m = Cardinality(new) /\ extra = InOrder(new, Ascending(new))
    OBVIOUS
<1>6. PICK R : R = Ascending(new)
    OBVIOUS
<1>7. /\ m \in Nat /\ extra \in [1..m -> new]
      /\ \A i, j \in 1..m : extra[i] = extra[j] => i = j
      /\ \A x \in new : \E i \in 1..m : extra[i] = x
    <2>1. /\ Cardinality(new) \in Nat
          /\ InOrder(new, R) \in [1..Cardinality(new) -> new]
          /\ \A i, j \in 1..Cardinality(new) : InOrder(new, R)[i] = InOrder(new, R)[j] => i = j
          /\ \A x \in new : \E i \in 1..Cardinality(new) : InOrder(new, R)[i] = x
          /\ \A i, j \in 1..Cardinality(new) :
                i < j => <<InOrder(new, R)[i], InOrder(new, R)[j]>> \in R
        BY <1>4, <1>6, InOrderIsBijective
    <2> QED
        BY <1>5, <1>6, <2>1
<1>8. PICK A, B :
        /\ A = [i \in 1..n |-> Evidence(s.vector[i],
                                 IF s.vector[i] \in s.evidence THEN "both" ELSE "vector", TRUE)]
        /\ B = [i \in 1..m |-> Evidence(extra[i], "graph", FALSE)]
    OBVIOUS
<1>9. Merged(s) = A \o B
    <2>1. DOMAIN s.vector = 1..n /\ DOMAIN extra = 1..m
        BY <1>1, <1>7
    <2> QED
        BY <1>2, <1>5, <1>8, <2>1 DEF Merged
<1>10. PICK S : S = {A[i] : i \in 1..n} \cup {B[i] : i \in 1..m}
    OBVIOUS
<1>11. A \in [1..n -> S] /\ B \in [1..m -> S]
    BY <1>8, <1>10
<1>12. /\ A \o B \in [1..n + m -> S]
       /\ \A i \in 1..n : (A \o B)[i] = A[i]
       /\ \A i \in 1..m : (A \o B)[n + i] = B[i]
       /\ A \o B = <<>> <=> n = 0 /\ m = 0
    <2>1. n \in Nat /\ m \in Nat
        BY <1>1, <1>7
    <2>2. A \o B \in [1..n + m -> S]
        BY <1>11, <2>1, Joined
    <2>3. \A i \in 1..n : (A \o B)[i] = A[i]
        BY <1>11, <2>1, Joined
    <2>4. \A i \in 1..m : (A \o B)[n + i] = B[i]
        BY <1>11, <2>1, Joined
    <2>5. A \o B = <<>> <=> n = 0 /\ m = 0
        BY <1>11, <2>1, Joined
    <2> QED
        BY <2>2, <2>3, <2>4, <2>5
<1>13. /\ DOMAIN Merged(s) = 1..n + m
       /\ \A i \in 1..n : Merged(s)[i] =
            Evidence(s.vector[i], IF s.vector[i] \in s.evidence THEN "both" ELSE "vector", TRUE)
       /\ \A i \in 1..m : Merged(s)[n + i] = Evidence(extra[i], "graph", FALSE)
       /\ Merged(s) = <<>> <=> n = 0 /\ m = 0
    BY <1>8, <1>9, <1>12
<1>14. MergedAs(s, n, m, extra)
    BY <1>1, <1>2, <1>7, <1>13, Zenon DEF MergedAs
<1> QED
    BY <1>1, <1>7, <1>14

(* A row of one of the two kinds. *)
RowOf(s, n, m, extra, i, x) ==
    \/ /\ i \in 1..n /\ x.chunk = s.vector[i] /\ s.vector[i] \in Range(s.vector)
       /\ x.source = IF s.vector[i] \in s.evidence THEN "both" ELSE "vector"
       /\ x.score = TRUE
    \/ /\ i - n \in 1..m /\ x.chunk = extra[i - n]
       /\ extra[i - n] \in s.evidence \ Range(s.vector)
       /\ x.source = "graph" /\ x.score = FALSE

(* Each row of a merged answer is such a row. *)
LEMMA MergedRow ==
    ASSUME NEW s, NEW n \in Nat, NEW m \in Nat, NEW extra, MergedAs(s, n, m, extra),
           NEW i \in DOMAIN Merged(s)
    PROVE  RowOf(s, n, m, extra, i, Merged(s)[i])
<1>1. i \in 1..n + m
    BY DEF MergedAs
<1>2. CASE i <= n
    <2>1. i \in 1..n
        BY <1>1, <1>2
    <2>2. Merged(s)[i] =
            Evidence(s.vector[i], IF s.vector[i] \in s.evidence THEN "both" ELSE "vector", TRUE)
        BY <2>1 DEF MergedAs
    <2>3. s.vector[i] \in Range(s.vector)
        BY <2>1 DEF MergedAs, Range
    <2> QED
        BY <2>1, <2>2, <2>3 DEF Evidence, RowOf
<1>3. CASE ~(i <= n)
    <2>1. i - n \in 1..m /\ n + (i - n) = i
        BY <1>1, <1>3
    <2>2. Merged(s)[i] = Evidence(extra[i - n], "graph", FALSE)
        BY <2>1 DEF MergedAs
    <2>3. extra[i - n] \in s.evidence \ Range(s.vector)
        BY <2>1 DEF MergedAs
    <2> QED
        BY <2>1, <2>2, <2>3 DEF Evidence, RowOf
<1> QED
    BY <1>2, <1>3

(* A merged answer has each chunk once. *)
LEMMA MergedDistinct ==
    ASSUME NEW s, NEW n \in Nat, NEW m \in Nat, NEW extra, MergedAs(s, n, m, extra),
           IsRanking(s.vector), NEW i \in DOMAIN Merged(s), NEW j \in DOMAIN Merged(s),
           Merged(s)[i].chunk = Merged(s)[j].chunk
    PROVE  i = j
<1>1. i \in Int /\ j \in Int /\ DOMAIN s.vector = 1..n
    BY DEF MergedAs
<1>2. \/ i \in 1..n /\ Merged(s)[i].chunk = s.vector[i] /\ s.vector[i] \in Range(s.vector)
      \/ /\ i - n \in 1..m /\ Merged(s)[i].chunk = extra[i - n]
         /\ extra[i - n] \notin Range(s.vector)
    <2>1. RowOf(s, n, m, extra, i, Merged(s)[i])
        BY MergedRow
    <2> QED
        BY <2>1 DEF RowOf
<1>3. \/ j \in 1..n /\ Merged(s)[j].chunk = s.vector[j] /\ s.vector[j] \in Range(s.vector)
      \/ /\ j - n \in 1..m /\ Merged(s)[j].chunk = extra[j - n]
         /\ extra[j - n] \notin Range(s.vector)
    <2>1. RowOf(s, n, m, extra, j, Merged(s)[j])
        BY MergedRow
    <2> QED
        BY <2>1 DEF RowOf
<1>4. CASE i \in 1..n /\ j \in 1..n /\ s.vector[i] = s.vector[j]
    BY <1>1, <1>4 DEF IsRanking
<1>5. CASE i - n \in 1..m /\ j - n \in 1..m /\ extra[i - n] = extra[j - n]
    <2>1. i - n = j - n
        BY <1>5 DEF MergedAs
    <2> QED
        BY <1>1, <2>1
<1> QED
    BY <1>2, <1>3, <1>4, <1>5

(* A merged answer has the chunks of both paths. *)
LEMMA MergedChunks ==
    ASSUME NEW s, NEW n \in Nat, NEW m \in Nat, NEW extra, MergedAs(s, n, m, extra)
    PROVE  {x.chunk : x \in Range(Merged(s))} = Range(s.vector) \cup s.evidence
<1>1. ASSUME NEW i \in DOMAIN Merged(s)
      PROVE  Merged(s)[i].chunk \in Range(s.vector) \cup s.evidence
    <2>1. RowOf(s, n, m, extra, i, Merged(s)[i])
        BY MergedRow
    <2> QED
        BY <2>1 DEF RowOf
<1>2. ASSUME NEW c \in Range(s.vector)
      PROVE  \E i \in DOMAIN Merged(s) : Merged(s)[i].chunk = c
    <2>1. PICK i \in 1..n : s.vector[i] = c
        BY DEF Range, MergedAs
    <2>2. i \in DOMAIN Merged(s)
        BY <2>1 DEF MergedAs
    <2>3. Merged(s)[i].chunk = s.vector[i]
        <3>1. RowOf(s, n, m, extra, i, Merged(s)[i])
            BY <2>2, MergedRow
        <3>2. ~(i - n \in 1..m)
            BY <2>1
        <3> QED
            BY <3>1, <3>2 DEF RowOf
    <2> QED
        BY <2>1, <2>2, <2>3
<1>3. ASSUME NEW c \in s.evidence \ Range(s.vector)
      PROVE  \E i \in DOMAIN Merged(s) : Merged(s)[i].chunk = c
    <2>1. PICK i \in 1..m : extra[i] = c
        BY DEF MergedAs
    <2>2. n + i \in DOMAIN Merged(s)
        BY <2>1 DEF MergedAs
    <2>3. Merged(s)[n + i].chunk = extra[i]
        <3>1. RowOf(s, n, m, extra, n + i, Merged(s)[n + i])
            BY <2>2, MergedRow
        <3>2. n + i \notin 1..n /\ (n + i) - n = i
            BY <2>1
        <3> QED
            BY <3>1, <3>2 DEF RowOf
    <2> QED
        BY <2>1, <2>2, <2>3
<1> QED
    BY <1>1, <1>2, <1>3 DEF Range

(* A merged answer is labelled by its paths. *)
LEMMA MergedLabels ==
    ASSUME NEW s, NEW n \in Nat, NEW m \in Nat, NEW extra, MergedAs(s, n, m, extra),
           NEW x \in Range(Merged(s))
    PROVE  /\ x.source \in {"vector", "both"} <=> x.chunk \in Range(s.vector)
           /\ x.source \in {"graph", "both"} <=> x.chunk \in s.evidence
           /\ x.score <=> x.chunk \in Range(s.vector)
<1>1. PICK i \in DOMAIN Merged(s) : x = Merged(s)[i]
    BY DEF Range
<1>2. \/ /\ x.chunk \in Range(s.vector) /\ x.score = TRUE
         /\ x.source = IF x.chunk \in s.evidence THEN "both" ELSE "vector"
      \/ /\ x.chunk \in s.evidence /\ x.chunk \notin Range(s.vector)
         /\ x.source = "graph" /\ x.score = FALSE
    <2>1. RowOf(s, n, m, extra, i, Merged(s)[i])
        BY MergedRow
    <2> QED
        BY <1>1, <2>1 DEF RowOf
<1>3. CASE x.chunk \in Range(s.vector) /\ x.score = TRUE /\ x.chunk \in s.evidence
                /\ x.source = "both"
    BY <1>3
<1>4. CASE x.chunk \in Range(s.vector) /\ x.score = TRUE /\ x.chunk \notin s.evidence
                /\ x.source = "vector"
    BY <1>4
<1>5. CASE x.chunk \in s.evidence /\ x.chunk \notin Range(s.vector)
                /\ x.source = "graph" /\ x.score = FALSE
    BY <1>5
<1> QED
    BY <1>2, <1>3, <1>4, <1>5

(* A merged answer is empty when both paths are. *)
LEMMA MergedEmpty ==
    ASSUME NEW s, NEW n \in Nat, NEW m \in Nat, NEW extra, MergedAs(s, n, m, extra)
    PROVE  Merged(s) = <<>> <=> Range(s.vector) = {} /\ s.evidence = {}
<1>1. Range(s.vector) = {} <=> n = 0
    <2>1. DOMAIN s.vector = 1..n
        BY DEF MergedAs
    <2>2. (n # 0 => 1 \in 1..n) /\ (n = 0 => 1..n = {})
        OBVIOUS
    <2>3. n # 0 => s.vector[1] \in Range(s.vector)
        BY <2>1, <2>2 DEF Range
    <2>4. n = 0 => Range(s.vector) = {}
        BY <2>1, <2>2 DEF Range
    <2> QED
        BY <2>3, <2>4
<1>2. s.evidence \ Range(s.vector) = {} <=> m = 0
    <2>1. m # 0 => 1 \in 1..m
        OBVIOUS
    <2> QED
        BY <2>1 DEF MergedAs
<1> QED
    BY <1>1, <1>2 DEF MergedAs

(* PathInv and AnswerInv make HybridDegrades. *)
LEMMA DegradesHolds ==
    ASSUME PathInv(search), AnswerInv(search)
    PROVE  HybridDegrades
<1>1. PICK s : s = search
    OBVIOUS
<1> SUFFICES ASSUME s.pc = "done", s.mode = "hybrid", s.status # "raised"
    PROVE  /\ \A i, j \in DOMAIN s.answer : s.answer[i].chunk = s.answer[j].chunk => i = j
           /\ {x.chunk : x \in Range(s.answer)} = Range(s.vector) \cup s.evidence
           /\ \A x \in Range(s.answer) :
                /\ x.source \in {"vector", "both"} <=> x.chunk \in Range(s.vector)
                /\ x.source \in {"graph", "both"} <=> x.chunk \in s.evidence
                /\ x.score <=> x.chunk \in Range(s.vector)
           /\ s.vectorError => Range(s.vector) = {}
           /\ s.graphError => s.evidence = {} /\ Shown(s) = {}
           /\ s.status = "no_evidence" <=> (Range(s.vector) = {} /\ s.evidence = {})
    BY <1>1 DEF HybridDegrades, AnswerInv
<1>2. IsRanking(s.vector) /\ s.evidence \subseteq DOMAIN Similarity
    BY <1>1 DEF PathInv
<1>3. PICK n \in Nat, m \in Nat : \E extra : MergedAs(s, n, m, extra)
    BY <1>2, MergedRows
<1>4. PICK extra : MergedAs(s, n, m, extra)
    BY <1>3
<1>5. /\ s.answer = Merged(s)
      /\ s.status = IF Merged(s) = <<>> /\ Shown(s) = {} THEN "no_evidence" ELSE "ok"
    BY <1>1 DEF AnswerInv
<1>6. \A i, j \in DOMAIN s.answer : s.answer[i].chunk = s.answer[j].chunk => i = j
    BY <1>2, <1>4, <1>5, MergedDistinct
<1>7. {x.chunk : x \in Range(s.answer)} = Range(s.vector) \cup s.evidence
    BY <1>4, <1>5, MergedChunks
<1>8. \A x \in Range(s.answer) :
        /\ x.source \in {"vector", "both"} <=> x.chunk \in Range(s.vector)
        /\ x.source \in {"graph", "both"} <=> x.chunk \in s.evidence
        /\ x.score <=> x.chunk \in Range(s.vector)
    BY <1>4, <1>5, MergedLabels
<1>9. s.vectorError => Range(s.vector) = {}
    BY <1>1 DEF PathInv, Range
<1>10. s.evidence = {} => Shown(s) = {}
    BY DEF Shown
<1>11. s.graphError => s.evidence = {}
    BY <1>1 DEF PathInv
<1>12. s.status = "no_evidence" <=> (Range(s.vector) = {} /\ s.evidence = {})
    <2>1. Merged(s) = <<>> <=> Range(s.vector) = {} /\ s.evidence = {}
        BY <1>4, MergedEmpty
    <2> QED
        BY <1>5, <1>10, <2>1
<1> QED
    BY <1>6, <1>7, <1>8, <1>9, <1>10, <1>11, <1>12

(* The statements of a search see tables that only grow. *)
LEMMA StageGrows ==
    ASSUME StageInv(search', SolidEdges'), related \subseteq related', mentions \subseteq mentions',
           stored \subseteq stored'
    PROVE  StageInv(search, SolidEdges)'
<1>1. Known \subseteq Known'
    BY DEF Known
<1>2. PICK s, E : s = search' /\ E = SolidEdges'
    OBVIOUS
<1>3. Traversing(s) => TraversalInv(s, E)
    BY <1>2 DEF StageInv
<1>4. Reached(s) => Reached(search)'
    BY <1>1, <1>2 DEF Reached
<1>5. Queued(s) => Queued(search)'
    BY <1>2 DEF Queued
<1>6. Loaded(s) => Loaded(search)'
    BY <1>2 DEF Loaded
<1>7. TraversalInv(s, E) => TraversalInv(search, SolidEdges)'
    BY <1>2, <1>4, <1>5, <1>6 DEF TraversalInv
<1> QED
    BY <1>2, <1>3, <1>7 DEF StageInv

(* The tables keep their rows. *)
LEMMA TablesGrow ==
    ASSUME TablesInv, OtherCommits
    PROVE  /\ TablesInv' /\ related \subseteq related' /\ mentions \subseteq mentions'
           /\ stored \subseteq stored'
<1>1. CASE IngestCommits
    BY <1>1 DEF OtherCommits, IngestCommits, TablesInv
<1>2. CASE EnrichmentCommits
    <2>1. PICK e \in DOMAIN Edges \ related :
            /\ Edges[e].chunk \in stored /\ related' = related \cup {e}
            /\ mentions' = mentions \cup Grounds(e) /\ stored' = stored
        BY <1>2 DEF EnrichmentCommits
    <2>2. mentions' = UNION {Grounds(f) : f \in related'}
        BY <2>1 DEF TablesInv
    <2>3. before' = before
        BY DEF OtherCommits
    <2> QED
        BY <2>1, <2>2, <2>3 DEF TablesInv
<1> QED
    BY <1>1, <1>2 DEF OtherCommits

(* A statement of the search leaves the tables alone. *)
LEMMA GoesKeeps ==
    ASSUME SearchInv, Goes(search'), before' = before, SearchShape(search'),
           StageInv(search', SolidEdges)
    PROVE  SearchInv'
<1>1. related' = related /\ mentions' = mentions /\ stored' = stored
    BY DEF Goes
<1>2. TablesInv'
    BY <1>1 DEF SearchInv, TablesInv
<1>3. SolidEdges' = SolidEdges
    BY DEF SolidEdges
<1>4. StageInv(search, SolidEdges)'
    BY <1>1, <1>3, StageGrows
<1> QED
    BY <1>2, <1>4 DEF SearchInv, SearchShape

(* Finished answers and changes nothing else. *)
LEMMA FinishedFields ==
    ASSUME NEW s, SearchShape(s), NEW t, t = Finished(s)
    PROVE  /\ SearchShape(t) /\ t.pc = "done" /\ SameAnswer(t, s) /\ SameRows(t, s)
           /\ SameGraph(t, s) /\ t.answer = Merged(t)
           /\ t.status = IF Merged(t) = <<>> /\ Shown(t) = {} THEN "no_evidence" ELSE "ok"
<1>1. PICK a, st : /\ a = Merged(s)
                   /\ st = IF Merged(s) = <<>> /\ Shown(s) = {} THEN "no_evidence" ELSE "ok"
    OBVIOUS
<1>2. t = [s EXCEPT !.pc = "done", !.answer = a, !.status = st]
    BY <1>1 DEF Finished
<1>3. t = [pc |-> "done", mode |-> s.mode, limit |-> s.limit, depth |-> s.depth,
         vector |-> s.vector, vectorError |-> s.vectorError, seeds |-> s.seeds,
         visited |-> s.visited, frontier |-> s.frontier, level |-> s.level, queue |-> s.queue,
         edges |-> s.edges, bounded |-> s.bounded, entities |-> s.entities, cited |-> s.cited,
         evidence |-> s.evidence, graphError |-> s.graphError, answer |-> a, status |-> st]
    BY <1>2, ZenonT(40) DEF SearchShape
<1>4. /\ SearchShape(t) /\ t.pc = "done" /\ SameAnswer(t, s) /\ SameRows(t, s)
      /\ SameGraph(t, s) /\ t.answer = a /\ t.status = st
    BY <1>3 DEF SearchShape, SameAnswer, SameRows, SameGraph
<1>5. Merged(t) = Merged(s)
    BY <1>4 DEF Merged, SameAnswer, SameRows
<1>6. Shown(t) = Shown(s)
    BY <1>4 DEF Shown, SameGraph, SameRows
<1> QED
    BY <1>1, <1>4, <1>5, <1>6

(* What a search has answered is the answer of its two paths. *)
LEMMA FinishedAnswer ==
    ASSUME NEW t, t.answer = Merged(t),
           t.status = IF Merged(t) = <<>> /\ Shown(t) = {} THEN "no_evidence" ELSE "ok"
    PROVE  AnswerInv(t)
<1>1. t.status # "failed" /\ t.status # "raised"
    OBVIOUS
<1> QED
    BY <1>1 DEF AnswerInv

(* The neighborhood a finished search returns. *)
LEMMA ExactHolds ==
    ASSUME TablesInv, StageInv(search, SolidEdges)
    PROVE  NeighborhoodIsExact
<1>1. PICK s : s = search
    OBVIOUS
<1> SUFFICES ASSUME s.pc = "done", s.mode = "hybrid", ~s.graphError, s.status # "raised"
    PROVE  /\ Cardinality(s.entities) <= MaxEntities
           /\ s.entities \subseteq Within(s.seeds, s.edges, s.depth)
           /\ Shown(s) = s.edges
           /\ \A x \in s.entities : \E c \in s.evidence : <<x, c>> \in mentions
           /\ ~s.bounded =>
                /\ Within(s.seeds, SolidEdges, s.depth) \subseteq s.entities
                /\ \A e \in SolidEdges :
                    Endpoints(e) \cap Within(s.seeds, SolidEdges, s.depth - 1) # {} => e \in s.edges
    BY <1>1 DEF NeighborhoodIsExact, SolidEdges
<1>2. TraversalInv(s, SolidEdges)
    BY <1>1 DEF StageInv, Traversing, PathInv
<1>3. s.entities = s.visited /\ s.evidence = s.cited
    BY <1>2 DEF TraversalInv, Loaded
<1>4. Within(s.seeds, s.edges, s.level) \subseteq Within(s.seeds, s.edges, s.depth)
    BY <1>2, WithinLonger DEF TraversalInv, Reached
<1>5. Shown(s) = s.edges
    BY <1>2, <1>3 DEF Shown, TraversalInv, Reached, Loaded
<1>6. ~s.bounded => Whole(s, SolidEdges)
    BY <1>2 DEF TraversalInv
<1> QED
    BY <1>2, <1>3, <1>4, <1>5, <1>6 DEF TraversalInv, Reached, Loaded, Whole

(* The smaller of two numbers is one of them. *)
LEMMA MinOfTwo ==
    ASSUME NEW a \in Int, NEW b \in Int
    PROVE  Min({a, b}) \in {a, b}
<1>1. \E x \in {a, b} : \A y \in {a, b} : x <= y
    <2>1. CASE a <= b
        BY <2>1
    <2>2. CASE ~(a <= b)
        BY <2>2
    <2> QED
        BY <2>1, <2>2
<1> QED
    BY <1>1 DEF Min

(* The empty search. *)
LEMMA NoSearchFields ==
    /\ SearchShape(NoSearch) /\ NoSearch.pc = "idle" /\ Untouched(NoSearch)
    /\ NoSearch.vector = <<>> /\ NoSearch.vectorError = FALSE /\ NoSearch.graphError = FALSE
    /\ NoSearch.limit = 0 /\ NoSearch.mode = "none" /\ NoSearch.status = "none"
BY DEF NoSearch, SearchShape, Untouched

(* SearchInv holds when a search begins. *)
LEMMA SearchInit ==
    ASSUME SearchIdle \/ SearchBegin
    PROVE  SearchInv
<1>1. CASE SearchIdle
    <2>1. search = NoSearch
        BY <1>1 DEF SearchIdle
    <2>2. TablesInv
        <3>1. related = {} /\ mentions = {} /\ stored = {} /\ before = {}
            BY <1>1 DEF SearchIdle
        <3>2. UNION {Grounds(e) : e \in related} = {}
            BY <3>1
        <3> QED
            BY <3>1, <3>2 DEF TablesInv
    <2>3. StageInv(search, SolidEdges)
        <3>0. /\ search.pc = "idle" /\ search.limit = 0 /\ search.vector = <<>>
              /\ search.vectorError = FALSE /\ search.graphError = FALSE /\ search.evidence = {}
            BY <2>1, NoSearchFields DEF Untouched
        <3>1. PathInv(search)
            <4>1. search.limit \in Nat /\ IsRanking(search.vector) /\ search.pc # "similar"
                BY <3>0, EmptyRanking
            <4>2. search.evidence \subseteq DOMAIN Similarity
                BY <3>0
            <4> QED
                BY <3>0, <4>1, <4>2, Zenon DEF PathInv
        <3>2. AnswerInv(search)
            BY <2>1, NoSearchFields DEF AnswerInv
        <3>3. ~Traversing(search)
            BY <2>1, NoSearchFields DEF Traversing
        <3> QED
            BY <2>1, <3>1, <3>2, <3>3, NoSearchFields DEF StageInv
    <2> QED
        BY <2>1, <2>2, <2>3, NoSearchFields DEF SearchInv
<1>2. CASE SearchBegin
    <2>1. TablesInv
        BY <1>2 DEF SearchBegin, TablesInv
    <2>2. PICK mode \in {"vector", "hybrid"}, k \in 1..TopK, d \in 1..MaxDepth + 1 :
            search = [NoSearch EXCEPT !.pc = "similar", !.mode = mode, !.limit = k,
                                      !.depth = Min({d, MaxDepth})]
        BY <1>2 DEF SearchBegin
    <2>3. PICK m : m = Min({d, MaxDepth})
        OBVIOUS
    <2>4. m \in Nat \ {0} /\ k \in Nat
        <3>1. MaxDepth \in Nat \ {0} /\ TopK \in Nat \ {0}
            BY BoundAssumption
        <3>2. d \in Nat \ {0}
            BY <3>1
        <3>3. m \in {d, MaxDepth}
            BY <2>3, <3>1, <3>2, MinOfTwo
        <3> QED
            BY <3>1, <3>2, <3>3
    <2>5. search = [NoSearch EXCEPT !.pc = "similar", !.mode = mode, !.limit = k, !.depth = m]
        BY <2>2, <2>3
    <2>6. /\ SearchShape(search) /\ search.pc = "similar" /\ search.mode = mode
          /\ search.limit = k /\ search.depth = m /\ Untouched(search)
          /\ search.vector = <<>> /\ search.vectorError = FALSE /\ search.graphError = FALSE
        BY <2>5 DEF NoSearch, SearchShape, Untouched
    <2>7. StageInv(search, SolidEdges)
        BY <2>4, <2>6, EmptyRanking DEF StageInv, Traversing, PathInv, AnswerInv, Untouched
    <2> QED
        BY <2>1, <2>6, <2>7 DEF SearchInv
<1> QED
    BY <1>1, <1>2

(* VectorSearch and VectorFails set these fields. *)
VectorRecord(s, pc, v, err, a, st) ==
    [pc |-> pc, mode |-> s.mode, limit |-> s.limit, depth |-> s.depth,
     vector |-> v, vectorError |-> err, seeds |-> s.seeds,
     visited |-> s.visited, frontier |-> s.frontier, level |-> s.level, queue |-> s.queue,
     edges |-> s.edges, bounded |-> s.bounded, entities |-> s.entities, cited |-> s.cited,
     evidence |-> s.evidence, graphError |-> s.graphError, answer |-> a, status |-> st]

(* The vector path is over. *)
LEMMA VectorStage ==
    ASSUME SearchInv, search.pc = "similar", NEW t, SameGraph(t, search), SameRows(t, search),
           t.mode = search.mode, t.limit = search.limit, t.depth = search.depth,
           t.graphError = search.graphError, IsRanking(t.vector), t.vectorError \in BOOLEAN,
           t.vectorError => t.vector = <<>>,
           IF search.mode = "hybrid" THEN t.pc = "match" ELSE t.pc = "done",
           t.pc = "done" => t.mode = "vector" /\ t.status \in {"ok", "failed"}
    PROVE  StageInv(t, SolidEdges)
<1>1. /\ search.depth \in Nat \ {0} /\ search.limit \in Nat /\ search.graphError = FALSE
      /\ Untouched(search)
    BY DEF SearchInv, StageInv, PathInv
<1>2. Untouched(t)
    BY <1>1 DEF Untouched, SameGraph, SameRows
<1>3. ~Traversing(t)
    BY DEF Traversing
<1>4. PathInv(t)
    BY <1>1, <1>2 DEF PathInv, Untouched
<1>5. AnswerInv(t)
    BY DEF AnswerInv
<1> QED
    BY <1>1, <1>2, <1>3, <1>4, <1>5 DEF StageInv

(* The rows of VectorOnly. *)
OnlyRows(v) == [i \in DOMAIN v |-> Evidence(v[i], "vector", TRUE)]

(* VectorSearch preserves SearchInv. *)
LEMMA VectorSearchInv == ASSUME SearchInv, VectorSearch PROVE SearchInv'
<1>1. PICK v : v = search_similar
    OBVIOUS
<1>2. IsRanking(v)
    BY <1>1, SimilarIsRanking DEF SearchInv, StageInv, PathInv
<1>3. /\ search.pc = "similar" /\ SearchShape(search) /\ before' = before
      /\ search.vectorError \in BOOLEAN
    BY DEF VectorSearch, SearchInv, StageInv, PathInv
<1>4. PICK s : s = [search EXCEPT !.vector = v]
    OBVIOUS
<1>5. search' = IF search.mode = "hybrid" THEN [s EXCEPT !.pc = "match"] ELSE VectorOnly(s, "ok")
    BY <1>1, <1>4 DEF VectorSearch, Goes
<1>6. Goes(search')
    BY DEF VectorSearch, Goes
<1>7. s.vector = v
    BY <1>3, <1>4 DEF SearchShape
<1>8. /\ SearchShape(search') /\ SameGraph(search', search) /\ SameRows(search', search)
      /\ search'.mode = search.mode /\ search'.limit = search.limit
      /\ search'.depth = search.depth /\ search'.graphError = search.graphError
      /\ search'.vector = v /\ search'.vectorError = search.vectorError
      /\ IF search.mode = "hybrid" THEN search'.pc = "match"
         ELSE search'.pc = "done" /\ search'.status = "ok"
    <2>1. CASE search.mode = "hybrid"
        <3>1. search' = VectorRecord(search, "match", v, search.vectorError, search.answer,
                                    search.status)
            BY <1>3, <1>4, <1>5, <2>1 DEF SearchShape, VectorRecord
        <3> QED
            BY <1>3, <2>1, <3>1 DEF VectorRecord, SearchShape, SameGraph, SameRows
    <2>2. CASE search.mode # "hybrid"
        <3>1. PICK a : a = OnlyRows(v)
            OBVIOUS
        <3>2. search' = [s EXCEPT !.pc = "done", !.status = "ok", !.answer = a]
            BY <1>5, <1>7, <2>2, <3>1 DEF VectorOnly, OnlyRows
        <3>3. search' = VectorRecord(search, "done", v, search.vectorError, a, "ok")
            BY <1>3, <1>4, <3>2 DEF SearchShape, VectorRecord
        <3> QED
            BY <1>3, <2>2, <3>3 DEF VectorRecord, SearchShape, SameGraph, SameRows
    <2> QED
        BY <2>1, <2>2
<1>9. search'.vectorError => search'.vector = <<>>
    <2>1. search.vectorError => FALSE
        BY <1>3 DEF SearchInv, StageInv, PathInv
    <2> QED
        BY <1>8, <2>1
<1>10. search'.pc = "done" => search'.mode = "vector"
    BY <1>3, <1>8 DEF SearchInv, StageInv, PathInv
<1>11. StageInv(search', SolidEdges)
    BY <1>2, <1>3, <1>8, <1>9, <1>10, VectorStage
<1> QED
    BY <1>3, <1>6, <1>8, <1>11, GoesKeeps

(* VectorFails preserves SearchInv. *)
LEMMA VectorFailsInv == ASSUME SearchInv, VectorFails PROVE SearchInv'
<1>1. /\ search.pc = "similar" /\ SearchShape(search) /\ before' = before
      /\ search.vectorError \in BOOLEAN /\ search.vector = <<>>
    BY DEF VectorFails, SearchInv, StageInv, PathInv
<1>2. Goes(search')
    BY DEF VectorFails, Goes
<1>3. search' = IF search.mode = "hybrid"
                THEN [search EXCEPT !.pc = "match", !.vectorError = TRUE]
                ELSE VectorOnly(search, "failed")
    BY DEF VectorFails, Goes
<1>4. /\ SearchShape(search') /\ SameGraph(search', search) /\ SameRows(search', search)
      /\ search'.mode = search.mode /\ search'.limit = search.limit
      /\ search'.depth = search.depth /\ search'.graphError = search.graphError
      /\ search'.vector = search.vector /\ search'.vectorError \in BOOLEAN
      /\ IF search.mode = "hybrid" THEN search'.pc = "match"
         ELSE search'.pc = "done" /\ search'.status = "failed"
    <2>1. CASE search.mode = "hybrid"
        <3>1. search' = VectorRecord(search, "match", search.vector, TRUE, search.answer,
                                    search.status)
            BY <1>1, <1>3, <2>1 DEF SearchShape, VectorRecord
        <3> QED
            BY <1>1, <2>1, <3>1 DEF VectorRecord, SearchShape, SameGraph, SameRows
    <2>2. CASE search.mode # "hybrid"
        <3>1. PICK a : a = OnlyRows(search.vector)
            OBVIOUS
        <3>2. search' = [search EXCEPT !.pc = "done", !.status = "failed", !.answer = a]
            BY <1>3, <2>2, <3>1 DEF VectorOnly, OnlyRows
        <3>3. search' = VectorRecord(search, "done", search.vector, search.vectorError, a, "failed")
            BY <1>1, <3>2 DEF SearchShape, VectorRecord
        <3> QED
            BY <1>1, <2>2, <3>3 DEF VectorRecord, SearchShape, SameGraph, SameRows
    <2> QED
        BY <2>1, <2>2
<1>5. IsRanking(search'.vector) /\ search'.vector = <<>>
    BY <1>1, <1>4, EmptyRanking
<1>6. search'.pc = "done" => search'.mode = "vector"
    BY <1>1, <1>4 DEF SearchInv, StageInv, PathInv
<1>7. StageInv(search', SolidEdges)
    BY <1>1, <1>4, <1>5, <1>6, VectorStage
<1> QED
    BY <1>1, <1>2, <1>4, <1>7, GoesKeeps

GraphStages == {"match", "expand", "follow", "entities", "mentions", "evidence"}

(* The next statement of a traversal. *)
LEMMA GraphStage ==
    ASSUME SearchInv, search.pc \in GraphStages, NEW t, NEW E, SameAnswer(t, search),
           t.evidence = search.evidence, t.pc \in GraphStages \ {"match"}, TraversalInv(t, E)
    PROVE  StageInv(t, E)
<1>1. search.mode = "hybrid" /\ search.depth \in Nat \ {0} /\ PathInv(search)
    BY DEF SearchInv, StageInv, GraphStages
<1>2. PathInv(t)
    BY <1>1 DEF PathInv, SameAnswer, GraphStages
<1>3. AnswerInv(t)
    BY DEF AnswerInv, GraphStages
<1> QED
    BY <1>1, <1>2, <1>3 DEF StageInv, SameAnswer, GraphStages

(* The end of a traversal. *)
LEMMA GraphEnds ==
    ASSUME SearchInv, search.pc \in GraphStages, NEW t, NEW E, SameAnswer(t, search),
           t.evidence \subseteq DOMAIN Similarity, t.pc = "done", AnswerInv(t),
           TraversalInv(t, E)
    PROVE  StageInv(t, E)
<1>1. search.mode = "hybrid" /\ search.depth \in Nat \ {0} /\ PathInv(search)
    BY DEF SearchInv, StageInv, GraphStages
<1>2. PathInv(t)
    <2>1. t.graphError = FALSE
        BY <1>1 DEF PathInv, SameAnswer, GraphStages
    <2> QED
        BY <1>1, <2>1 DEF PathInv, SameAnswer
<1> QED
    BY <1>1, <1>2 DEF StageInv, SameAnswer

(* Expand preserves SearchInv. *)
LEMMA ExpandInv == ASSUME SearchInv, Expand PROVE SearchInv'
<1>1. PICK s, t : s = search /\ t = search'
    OBVIOUS
<1>2. PICK edges : edges = LevelEdges(s.frontier)
    OBVIOUS
<1>3. /\ s.pc = "expand" /\ before' = before /\ SearchShape(s) /\ TablesInv
      /\ TraversalInv(s, SolidEdges)
    BY <1>1 DEF Expand, SearchInv, StageInv, Traversing
<1>4. Goes(search')
    BY DEF Expand, Goes
<1>5. t = IF edges = {} THEN [s EXCEPT !.pc = "entities"]
          ELSE [s EXCEPT !.pc = "follow", !.queue = edges, !.frontier = {}, !.level = @ + 1,
                         !.bounded = @ \/ edges # Incident(s.frontier)]
    BY <1>1, <1>2 DEF Expand, Goes
<1>6. ~s.bounded => Seen(s, SolidEdges)
    BY <1>3 DEF TraversalInv
<1>7. CASE edges = {}
    <2>1. /\ SearchShape(t) /\ t.pc = "entities"
          /\ SameAnswer(t, s) /\ SameRows(t, s) /\ SameGraph(t, s)
        BY <1>3, <1>5, <1>7, SearchMoved
    <2>2. ~s.bounded => Whole(s, SolidEdges)
        BY <1>2, <1>3, <1>6, <1>7, NoMoreEdges DEF TraversalInv
    <2>3. Reached(t)
        BY <1>3, <2>1 DEF TraversalInv, Reached, SameGraph, SameAnswer
    <2>4. Queued(t)
        BY <1>3, <2>1 DEF TraversalInv, Queued, SameGraph
    <2>5. Loaded(t)
        BY <2>1 DEF Loaded
    <2>6. ~t.bounded => Whole(t, SolidEdges)
        BY <2>1, <2>2 DEF Whole, SameGraph, SameAnswer
    <2>7. TraversalInv(t, SolidEdges)
        BY <2>1, <2>3, <2>4, <2>5, <2>6 DEF TraversalInv
    <2>8. StageInv(t, SolidEdges)
        BY <1>1, <1>3, <2>1, <2>7, GraphStage DEF GraphStages, SameRows
    <2> QED
        BY <1>1, <1>3, <1>4, <2>1, <2>8, GoesKeeps
<1>8. CASE edges # {}
    <2>1. PICK level, bounded : /\ level = s.level + 1
                                /\ bounded = (s.bounded \/ edges # Incident(s.frontier))
        OBVIOUS
    <2>2. t = [s EXCEPT !.pc = "follow", !.queue = edges, !.frontier = {}, !.level = level,
                        !.bounded = bounded]
        BY <1>3, <1>5, <1>8, <2>1
    <2>3. t = [pc |-> "follow", mode |-> s.mode, limit |-> s.limit, depth |-> s.depth,
           vector |-> s.vector, vectorError |-> s.vectorError, seeds |-> s.seeds,
           visited |-> s.visited, frontier |-> {}, level |-> level, queue |-> edges,
           edges |-> s.edges, bounded |-> bounded, entities |-> s.entities, cited |-> s.cited,
           evidence |-> s.evidence, graphError |-> s.graphError, answer |-> s.answer,
           status |-> s.status]
        BY <1>3, <2>2 DEF SearchShape
    <2>4. /\ SearchShape(t) /\ t.pc = "follow" /\ SameAnswer(t, s) /\ SameRows(t, s)
          /\ t.seeds = s.seeds /\ t.visited = s.visited /\ t.edges = s.edges
          /\ t.queue = edges /\ t.frontier = {} /\ t.level = level /\ t.bounded = bounded
        BY <2>3 DEF SearchShape, SameAnswer, SameRows
    <2>5. Opens(t, s)
        BY <1>2, <2>1, <2>4 DEF Opens
    <2>6. Reached(t) /\ Queued(t) /\ (~t.bounded => Seen(t, SolidEdges))
        BY <1>3, <1>6, <2>4, <2>5, LevelOpens DEF TraversalInv
    <2>7. Loaded(t)
        BY <2>4 DEF Loaded
    <2>8. TraversalInv(t, SolidEdges)
        BY <2>4, <2>6, <2>7 DEF TraversalInv
    <2>9. StageInv(t, SolidEdges)
        BY <1>1, <1>3, <2>4, <2>8, GraphStage DEF GraphStages, SameRows
    <2> QED
        BY <1>1, <1>3, <1>4, <2>4, <2>9, GoesKeeps
<1> QED
    BY <1>7, <1>8

(* FollowEdge preserves SearchInv. *)
LEMMA FollowEdgeInv == ASSUME SearchInv, FollowEdge PROVE SearchInv'
<1>1. PICK s, t : s = search /\ t = search'
    OBVIOUS
<1>2. /\ s.pc = "follow" /\ before' = before /\ SearchShape(s) /\ TablesInv
      /\ TraversalInv(s, SolidEdges)
    BY <1>1 DEF FollowEdge, SearchInv, StageInv, Traversing
<1>3. PICK e \in s.queue :
        LET u == Follow([s EXCEPT !.queue = @ \ {e}], e)
        IN  Goes(IF u.queue # {} THEN u
                 ELSE [u EXCEPT !.pc = IF u.level = u.depth \/ u.frontier = {}
                                       THEN "entities" ELSE "expand"])
    BY <1>1 DEF FollowEdge
<1>4. PICK u : u = Follow([s EXCEPT !.queue = @ \ {e}], e)
    OBVIOUS
<1>5. SearchShape(u) /\ u.pc = "follow" /\ Takes(u, s, e)
    BY <1>2, <1>4, FollowTakes
<1>6. Goes(search') /\ t = IF u.queue # {} THEN u
                           ELSE [u EXCEPT !.pc = IF u.level = u.depth \/ u.frontier = {}
                                                 THEN "entities" ELSE "expand"]
    BY <1>1, <1>3, <1>4 DEF Goes
<1>7. /\ Reached(u) /\ u.queue \subseteq related /\ u.level = s.level /\ s.level > 0
      /\ \A f \in u.queue : Endpoints(f) \cap Within(u.seeds, u.edges, u.level - 1) # {}
    BY <1>2, <1>3, <1>5, TakesReached DEF TraversalInv, Takes, Queued
<1>8. ~u.bounded => Seen(u, SolidEdges)
    BY <1>2, <1>5, TakesSeen DEF TraversalInv
<1>9. SameAnswer(u, s) /\ SameRows(u, s)
    BY <1>5 DEF Takes
<1>10. CASE u.queue # {}
    <2>1. t = u
        BY <1>6, <1>10
    <2>2. Queued(t) /\ Loaded(t)
        BY <1>5, <1>7, <2>1 DEF Queued, Loaded
    <2>3. TraversalInv(t, SolidEdges)
        BY <1>5, <1>7, <1>8, <2>1, <2>2 DEF TraversalInv
    <2>4. StageInv(t, SolidEdges)
        BY <1>1, <1>2, <1>5, <1>9, <2>1, <2>3, GraphStage DEF GraphStages, SameRows
    <2> QED
        BY <1>1, <1>2, <1>5, <1>6, <2>1, <2>4, GoesKeeps
<1>11. CASE u.queue = {}
    <2>1. PICK pc : pc = IF u.level = u.depth \/ u.frontier = {} THEN "entities" ELSE "expand"
        OBVIOUS
    <2>2. t = [u EXCEPT !.pc = pc]
        BY <1>6, <1>11, <2>1
    <2>3. SearchShape(t) /\ t.pc = pc /\ SameAnswer(t, u) /\ SameRows(t, u) /\ SameGraph(t, u)
        BY <1>5, <2>2, SearchMoved
    <2>4. Reached(t)
        BY <1>7, <2>3 DEF Reached, SameGraph, SameAnswer
    <2>5. Queued(t)
        <3>1. pc = "expand" => u.level < u.depth
            BY <1>7, <2>1 DEF Reached
        <3> QED
            BY <1>11, <2>1, <2>3, <3>1 DEF Queued, SameGraph, SameAnswer
    <2>6. Loaded(t)
        BY <2>1, <2>3 DEF Loaded
    <2>7. ASSUME ~t.bounded
          PROVE  IF t.pc \in {"expand", "follow"} THEN Seen(t, SolidEdges)
                 ELSE Whole(t, SolidEdges)
        <3>1. Seen(u, SolidEdges)
            BY <1>8, <2>3, <2>7 DEF SameGraph
        <3>2. /\ Within(u.seeds, SolidEdges, u.level) \subseteq u.visited
              /\ u.level = u.depth \/ u.frontier = {} => Whole(u, SolidEdges)
            BY <1>5, <1>7, <1>11, <3>1, LoopEnds
        <3>3. CASE u.level = u.depth \/ u.frontier = {}
            <4>1. t.pc = "entities" /\ Whole(u, SolidEdges)
                BY <2>1, <2>3, <3>2, <3>3
            <4>2. Whole(t, SolidEdges)
                BY <2>3, <4>1 DEF Whole, SameGraph, SameAnswer
            <4> QED
                BY <4>1, <4>2
        <3>4. CASE ~(u.level = u.depth \/ u.frontier = {})
            <4>1. t.pc = "expand"
                BY <2>1, <2>3, <3>4
            <4>2. Seen(t, SolidEdges)
                BY <2>3, <3>1, <3>2, <4>1 DEF Seen, SameGraph
            <4> QED
                BY <4>1, <4>2
        <3> QED
            BY <3>3, <3>4
    <2>8. TraversalInv(t, SolidEdges)
        BY <2>4, <2>5, <2>6, <2>7 DEF TraversalInv
    <2>9. StageInv(t, SolidEdges)
        <3>1. SameAnswer(t, search) /\ t.evidence = search.evidence
            BY <1>1, <1>9, <2>3 DEF SameAnswer, SameRows
        <3>2. t.pc \in GraphStages \ {"match"} /\ search.pc \in GraphStages
            BY <1>1, <1>2, <2>1, <2>3 DEF GraphStages
        <3> QED
            BY <2>8, <3>1, <3>2, GraphStage
    <2> QED
        BY <1>1, <1>2, <1>6, <2>3, <2>9, GoesKeeps
<1> QED
    BY <1>10, <1>11

(* Where the traversal starts. *)
LEMMA MatchStart ==
    ASSUME TablesInv, NEW s, s.seeds = find_matching_query, s.visited = s.seeds,
           s.frontier = s.seeds, s.level = 0, s.depth \in Nat \ {0}, s.edges = {}, s.queue = {},
           s.entities = {}, s.cited = {}, s.evidence = {},
           s.pc = "expand" \/ (s.pc = "done" /\ s.seeds = {}), NEW E
    PROVE  TraversalInv(s, E)
<1>1. s.seeds \subseteq Known /\ IsFiniteSet(s.seeds) /\ Cardinality(s.seeds) <= MaxEntities
    BY MatchFacts
<1>2. s.seeds \subseteq Within(s.seeds, s.edges, s.level)
    BY <1>1, KnownEntities, WithinNone
<1>3. s.level \in Nat /\ s.level < s.depth /\ s.depth - 1 \in Nat /\ s.depth \in Nat
    OBVIOUS
<1>4. Reached(s)
    BY <1>1, <1>2, <1>3 DEF Reached
<1>5. Queued(s)
    BY <1>3 DEF Queued
<1>6. Loaded(s)
    <2>1. CASE s.pc = "expand"
        BY <2>1 DEF Loaded
    <2>2. CASE s.pc = "done" /\ s.seeds = {}
        BY <2>2 DEF Loaded
    <2> QED
        BY <2>1, <2>2
<1>7. s.pc = "expand" => Seen(s, E)
    <2>1. Within(s.seeds, E, 0) \subseteq s.seeds
        BY WithinStart
    <2> QED
        BY <2>1 DEF Seen
<1>8. s.seeds = {} => Whole(s, E)
    <2>1. Within({}, E, s.depth) = {} /\ Within({}, E, s.depth - 1) = {}
        BY <1>3, WithinStart
    <2> QED
        BY <2>1 DEF Whole
<1> QED
    BY <1>4, <1>5, <1>6, <1>7, <1>8 DEF TraversalInv

(* Match preserves SearchInv. *)
LEMMA MatchInv == ASSUME SearchInv, Match PROVE SearchInv'
<1>1. PICK s, t, seeds : s = search /\ t = search' /\ seeds = find_matching_query
    OBVIOUS
<1>2. PICK r : r = [s EXCEPT !.seeds = seeds, !.visited = seeds, !.frontier = seeds]
    OBVIOUS
<1>3. /\ s.pc = "match" /\ before' = related /\ SearchShape(s) /\ TablesInv /\ Untouched(s)
      /\ s.depth \in Nat \ {0}
    BY <1>1 DEF Match, SearchInv, StageInv
<1>4. /\ related' = related /\ mentions' = mentions /\ stored' = stored
      /\ t = IF seeds = {} THEN Finished(r) ELSE [r EXCEPT !.pc = "expand"]
    BY <1>1, <1>2 DEF Match, Goes
<1>5. r = [pc |-> s.pc, mode |-> s.mode, limit |-> s.limit, depth |-> s.depth,
         vector |-> s.vector, vectorError |-> s.vectorError, seeds |-> seeds,
         visited |-> seeds, frontier |-> seeds, level |-> s.level, queue |-> s.queue,
         edges |-> s.edges, bounded |-> s.bounded, entities |-> s.entities, cited |-> s.cited,
         evidence |-> s.evidence, graphError |-> s.graphError, answer |-> s.answer,
         status |-> s.status]
    BY <1>2, <1>3 DEF SearchShape
<1>6. /\ SearchShape(r) /\ SameAnswer(r, s) /\ SameRows(r, s) /\ r.seeds = seeds
      /\ r.visited = seeds /\ r.frontier = seeds /\ r.level = s.level /\ r.queue = s.queue
      /\ r.edges = s.edges
    BY <1>5 DEF SearchShape, SameAnswer, SameRows
<1>7. /\ SearchShape(t) /\ SameAnswer(t, r) /\ SameRows(t, r) /\ SameGraph(t, r)
      /\ \/ t.pc = "expand"
         \/ t.pc = "done" /\ t.seeds = {} /\ AnswerInv(t)
    <2>1. CASE seeds = {}
        <3>1. /\ SearchShape(t) /\ t.pc = "done" /\ SameAnswer(t, r) /\ SameRows(t, r)
              /\ SameGraph(t, r) /\ t.answer = Merged(t)
              /\ t.status = IF Merged(t) = <<>> /\ Shown(t) = {} THEN "no_evidence" ELSE "ok"
            BY <1>4, <1>6, <2>1, FinishedFields
        <3>2. AnswerInv(t)
            BY <3>1, FinishedAnswer
        <3> QED
            BY <1>6, <2>1, <3>1, <3>2 DEF SameGraph
    <2>2. CASE seeds # {}
        BY <1>4, <1>6, <2>2, SearchMoved
    <2> QED
        BY <2>1, <2>2
<1>8. /\ SameAnswer(t, s) /\ t.seeds = find_matching_query /\ t.visited = t.seeds
      /\ t.frontier = t.seeds /\ t.level = 0 /\ t.depth \in Nat \ {0} /\ t.edges = {}
      /\ t.queue = {} /\ t.entities = {} /\ t.cited = {} /\ t.evidence = {}
      /\ t.evidence = s.evidence
    BY <1>1, <1>3, <1>6, <1>7 DEF SameAnswer, SameRows, SameGraph, Untouched
<1>9. PICK E : E = SolidEdges'
    OBVIOUS
<1>10. TraversalInv(t, E)
    <2>1. t.pc = "expand" \/ (t.pc = "done" /\ t.seeds = {})
        BY <1>7
    <2> QED
        BY <1>3, <1>8, <2>1, MatchStart
<1>11. StageInv(t, E)
    <2>1. search.pc \in GraphStages /\ SameAnswer(t, search)
        BY <1>1, <1>3, <1>8 DEF GraphStages
    <2>2. CASE t.pc = "expand"
        BY <1>1, <1>8, <1>10, <2>1, <2>2, GraphStage DEF GraphStages
    <2>3. CASE t.pc = "done" /\ AnswerInv(t)
        <3>1. t.evidence \subseteq DOMAIN Similarity
            BY <1>8
        <3> QED
            BY <1>10, <2>1, <2>3, <3>1, GraphEnds
    <2> QED
        BY <1>7, <2>2, <2>3
<1>12. StageInv(search, SolidEdges)'
    BY <1>1, <1>4, <1>9, <1>11, StageGrows
<1>13. TablesInv'
    BY <1>3, <1>4 DEF TablesInv
<1> QED
    BY <1>1, <1>7, <1>12, <1>13 DEF SearchInv, SearchShape

(* A statement after the loop. *)
AfterLoop(t, s) ==
    /\ SameAnswer(t, s) /\ SameGraph(t, s)
    /\ t.pc \in {"mentions", "evidence", "done"} /\ s.pc \in {"entities", "mentions", "evidence"}

(* What was found stays found. *)
LEMMA AfterLoopInv ==
    ASSUME NEW s, NEW t, NEW E, TraversalInv(s, E), AfterLoop(t, s), Loaded(t)
    PROVE  TraversalInv(t, E)
<1>1. Reached(t)
    BY DEF TraversalInv, Reached, AfterLoop, SameGraph, SameAnswer
<1>2. Queued(t)
    BY DEF TraversalInv, Queued, AfterLoop, SameGraph
<1>3. ~s.bounded => Whole(s, E)
    BY DEF TraversalInv, AfterLoop
<1>4. ~t.bounded => Whole(t, E)
    BY <1>3 DEF Whole, AfterLoop, SameGraph, SameAnswer
<1> QED
    BY <1>1, <1>2, <1>4 DEF TraversalInv, AfterLoop

(* LoadEntities preserves SearchInv. *)
LEMMA LoadEntitiesInv == ASSUME SearchInv, LoadEntities PROVE SearchInv'
<1>1. PICK s, t, found : s = search /\ t = search' /\ found = search.visited \cap Known
    OBVIOUS
<1>2. /\ s.pc = "entities" /\ before' = before /\ SearchShape(s) /\ Goes(search')
      /\ TraversalInv(s, SolidEdges) /\ t = [s EXCEPT !.pc = "mentions", !.entities = found]
    BY <1>1 DEF LoadEntities, Goes, SearchInv, StageInv, Traversing
<1>3. t = [pc |-> "mentions", mode |-> s.mode, limit |-> s.limit, depth |-> s.depth,
         vector |-> s.vector, vectorError |-> s.vectorError, seeds |-> s.seeds,
         visited |-> s.visited, frontier |-> s.frontier, level |-> s.level, queue |-> s.queue,
         edges |-> s.edges, bounded |-> s.bounded, entities |-> found, cited |-> s.cited,
         evidence |-> s.evidence, graphError |-> s.graphError, answer |-> s.answer,
         status |-> s.status]
    BY <1>2 DEF SearchShape
<1>4. /\ SearchShape(t) /\ t.pc = "mentions" /\ t.entities = found /\ SameAnswer(t, s)
      /\ SameGraph(t, s) /\ t.evidence = s.evidence
    BY <1>3 DEF SearchShape, SameAnswer, SameGraph
<1>5. found = s.visited
    BY <1>1, <1>2 DEF TraversalInv, Reached
<1>6. Loaded(t)
    BY <1>4, <1>5 DEF Loaded, SameGraph
<1>7. TraversalInv(t, SolidEdges)
    BY <1>2, <1>4, <1>6, AfterLoopInv DEF AfterLoop
<1>8. StageInv(t, SolidEdges)
    BY <1>1, <1>2, <1>4, <1>7, GraphStage DEF GraphStages
<1> QED
    BY <1>1, <1>2, <1>4, <1>8, GoesKeeps

(* LoadMentions preserves SearchInv. *)
LEMMA LoadMentionsInv == ASSUME SearchInv, LoadMentions PROVE SearchInv'
<1>1. PICK s, t : s = search /\ t = search'
    OBVIOUS
<1>2. PICK found : found = {m[2] : m \in {n \in mentions : n[1] \in s.visited}}
                           \cup {Edges[e].chunk : e \in s.edges}
    OBVIOUS
<1>3. /\ s.pc = "mentions" /\ before' = before /\ SearchShape(s) /\ Goes(search') /\ TablesInv
      /\ TraversalInv(s, SolidEdges) /\ t = [s EXCEPT !.pc = "evidence", !.cited = found]
    BY <1>1, <1>2 DEF LoadMentions, Goes, SearchInv, StageInv, Traversing
<1>4. t = [pc |-> "evidence", mode |-> s.mode, limit |-> s.limit, depth |-> s.depth,
         vector |-> s.vector, vectorError |-> s.vectorError, seeds |-> s.seeds,
         visited |-> s.visited, frontier |-> s.frontier, level |-> s.level, queue |-> s.queue,
         edges |-> s.edges, bounded |-> s.bounded, entities |-> s.entities, cited |-> found,
         evidence |-> s.evidence, graphError |-> s.graphError, answer |-> s.answer,
         status |-> s.status]
    BY <1>3 DEF SearchShape
<1>5. /\ SearchShape(t) /\ t.pc = "evidence" /\ t.entities = s.entities /\ SameAnswer(t, s)
      /\ SameGraph(t, s) /\ t.evidence = s.evidence /\ t.cited = found
    BY <1>4 DEF SearchShape, SameAnswer, SameGraph
<1>6. ASSUME NEW m \in mentions
      PROVE  m = <<m[1], m[2]>> /\ m[2] \in stored
    <2>1. PICK e \in related : m \in Grounds(e)
        BY <1>3 DEF TablesInv
    <2> QED
        BY <1>3, <2>1 DEF TablesInv, Grounds
<1>7. found \subseteq stored
    <2>1. ASSUME NEW m \in mentions PROVE m[2] \in stored
        BY <1>6
    <2>2. ASSUME NEW e \in s.edges PROVE Edges[e].chunk \in stored
        BY <1>3 DEF TraversalInv, Reached, TablesInv
    <2> QED
        BY <1>2, <2>1, <2>2
<1>8. ASSUME NEW x \in s.visited PROVE \E c \in found : <<x, c>> \in mentions
    <2>1. PICK m \in mentions : m[1] = x
        BY <1>3, <1>8 DEF TraversalInv, Reached, Known
    <2>2. m[2] \in found
        BY <1>2, <1>8, <2>1
    <2>3. <<x, m[2]>> \in mentions
        BY <1>6, <2>1
    <2> QED
        BY <2>2, <2>3
<1>9. \A e \in s.edges : Edges[e].chunk \in found
    BY <1>2
<1>10. s.entities = s.visited
    BY <1>3 DEF TraversalInv, Loaded
<1>11. Loaded(t)
    BY <1>5, <1>7, <1>8, <1>9, <1>10 DEF Loaded, SameGraph
<1>12. TraversalInv(t, SolidEdges)
    BY <1>3, <1>5, <1>11, AfterLoopInv DEF AfterLoop
<1>13. StageInv(t, SolidEdges)
    BY <1>1, <1>3, <1>5, <1>12, GraphStage DEF GraphStages
<1> QED
    BY <1>1, <1>3, <1>5, <1>13, GoesKeeps

(* _load_graph_evidence preserves SearchInv. *)
LEMMA LoadEvidenceInv == ASSUME SearchInv, _load_graph_evidence PROVE SearchInv'
<1>1. PICK s, t, found : s = search /\ t = search' /\ found = search.cited \cap stored
    OBVIOUS
<1>2. PICK r : r = [s EXCEPT !.evidence = found]
    OBVIOUS
<1>3. /\ s.pc = "evidence" /\ before' = before /\ SearchShape(s) /\ Goes(search') /\ TablesInv
      /\ TraversalInv(s, SolidEdges) /\ t = Finished(r)
    BY <1>1, <1>2 DEF _load_graph_evidence, Goes, SearchInv, StageInv, Traversing
<1>4. r = [pc |-> s.pc, mode |-> s.mode, limit |-> s.limit, depth |-> s.depth,
         vector |-> s.vector, vectorError |-> s.vectorError, seeds |-> s.seeds,
         visited |-> s.visited, frontier |-> s.frontier, level |-> s.level, queue |-> s.queue,
         edges |-> s.edges, bounded |-> s.bounded, entities |-> s.entities, cited |-> s.cited,
         evidence |-> found, graphError |-> s.graphError, answer |-> s.answer,
         status |-> s.status]
    BY <1>2, <1>3 DEF SearchShape
<1>5. /\ SearchShape(r) /\ r.entities = s.entities /\ SameAnswer(r, s)
      /\ SameGraph(r, s) /\ r.evidence = found /\ r.cited = s.cited
    BY <1>4 DEF SearchShape, SameAnswer, SameGraph
<1>6. /\ SearchShape(t) /\ t.pc = "done" /\ SameAnswer(t, r) /\ SameRows(t, r)
      /\ SameGraph(t, r) /\ t.answer = Merged(t)
      /\ t.status = IF Merged(t) = <<>> /\ Shown(t) = {} THEN "no_evidence" ELSE "ok"
    BY <1>3, <1>5, FinishedFields
<1>7. /\ SameAnswer(t, s) /\ SameGraph(t, s) /\ t.evidence = found /\ t.cited = s.cited
      /\ t.entities = s.entities
    BY <1>5, <1>6 DEF SameAnswer, SameGraph, SameRows
<1>8. /\ s.entities = s.visited /\ s.cited \subseteq stored
      /\ \A e \in s.edges : Edges[e].chunk \in s.cited
      /\ \A x \in s.visited : \E c \in s.cited : <<x, c>> \in mentions
    BY <1>3 DEF TraversalInv, Loaded
<1>9. found = s.cited
    BY <1>1, <1>8
<1>10. Loaded(t)
    BY <1>6, <1>7, <1>8, <1>9 DEF Loaded, SameGraph
<1>11. TraversalInv(t, SolidEdges)
    BY <1>3, <1>6, <1>7, <1>10, AfterLoopInv DEF AfterLoop
<1>12. AnswerInv(t)
    BY <1>6, FinishedAnswer
<1>13. t.evidence \subseteq DOMAIN Similarity
    BY <1>3, <1>7, <1>8, <1>9 DEF TablesInv
<1>14. StageInv(t, SolidEdges)
    BY <1>1, <1>3, <1>6, <1>7, <1>11, <1>12, <1>13, GraphEnds DEF GraphStages
<1> QED
    BY <1>1, <1>3, <1>6, <1>14, GoesKeeps

(* GraphFails preserves SearchInv. *)
LEMMA GraphFailsInv == ASSUME SearchInv, GraphFails PROVE SearchInv'
<1>1. PICK s, t : s = search /\ t = search'
    OBVIOUS
<1>2. PICK r : r = [NoSearch EXCEPT !.mode = s.mode, !.limit = s.limit, !.depth = s.depth,
                        !.vector = s.vector, !.vectorError = s.vectorError, !.graphError = TRUE]
    OBVIOUS
<1>3. /\ s.pc \in GraphStages /\ before' = before /\ Goes(search') /\ t = Finished(r)
    BY <1>1, <1>2 DEF GraphFails, Goes, GraphStages
<1>4. s.mode = "hybrid" /\ s.depth \in Nat \ {0} /\ PathInv(s)
    BY <1>1, <1>3 DEF SearchInv, StageInv, GraphStages
<1>5. /\ SearchShape(r) /\ r.mode = s.mode /\ r.limit = s.limit /\ r.depth = s.depth
      /\ r.vector = s.vector /\ r.vectorError = s.vectorError /\ r.graphError = TRUE
      /\ r.evidence = {}
    BY <1>2 DEF NoSearch, SearchShape
<1>6. /\ SearchShape(t) /\ t.pc = "done" /\ SameAnswer(t, r) /\ SameRows(t, r)
      /\ SameGraph(t, r) /\ t.answer = Merged(t)
      /\ t.status = IF Merged(t) = <<>> /\ Shown(t) = {} THEN "no_evidence" ELSE "ok"
    BY <1>3, <1>5, FinishedFields
<1>7. AnswerInv(t)
    BY <1>6, FinishedAnswer
<1>8. /\ t.mode = "hybrid" /\ t.limit = s.limit /\ t.depth = s.depth /\ t.vector = s.vector
      /\ t.vectorError = s.vectorError /\ t.graphError = TRUE /\ t.evidence = {}
    BY <1>4, <1>5, <1>6 DEF SameAnswer, SameRows
<1>9. PathInv(t)
    <2>1. /\ t.limit \in Nat /\ IsRanking(t.vector) /\ t.pc # "similar"
          /\ t.vectorError \in BOOLEAN /\ (t.vectorError => t.vector = <<>>)
        BY <1>4, <1>6, <1>8 DEF PathInv
    <2>2. t.evidence \subseteq DOMAIN Similarity /\ t.pc = "done"
        BY <1>6, <1>8
    <2> QED
        BY <1>8, <2>1, <2>2, Zenon DEF PathInv
<1>10. ~Traversing(t)
    BY <1>6, <1>8 DEF Traversing
<1>11. StageInv(t, SolidEdges)
    BY <1>4, <1>6, <1>7, <1>8, <1>9, <1>10 DEF StageInv
<1> QED
    BY <1>1, <1>3, <1>6, <1>11, GoesKeeps

(* SearchRaises preserves SearchInv. *)
LEMMA SearchRaisesInv == ASSUME SearchInv, SearchRaises PROVE SearchInv'
<1>1. PICK s, t : s = search /\ t = search'
    OBVIOUS
<1>2. /\ s.pc # "idle" /\ before' = before /\ Goes(search')
      /\ t = [NoSearch EXCEPT !.pc = "done", !.mode = s.mode, !.limit = s.limit,
                              !.depth = s.depth, !.status = "raised"]
    BY <1>1 DEF SearchRaises, Goes
<1>3. s.depth \in Nat \ {0} /\ s.limit \in Nat
    BY <1>1, <1>2 DEF SearchInv, StageInv, PathInv
<1>4. /\ SearchShape(t) /\ t.pc = "done" /\ t.limit = s.limit /\ t.depth = s.depth
      /\ t.vector = <<>> /\ t.vectorError = FALSE /\ t.graphError = FALSE
      /\ t.evidence = {} /\ t.answer = <<>> /\ t.status = "raised"
    BY <1>2 DEF NoSearch, SearchShape
<1>5. PathInv(t)
    <2>1. t.limit \in Nat /\ IsRanking(t.vector) /\ t.pc # "similar"
        BY <1>3, <1>4, EmptyRanking
    <2>2. t.evidence \subseteq DOMAIN Similarity
        BY <1>4
    <2> QED
        BY <1>4, <2>1, <2>2, Zenon DEF PathInv
<1>6. AnswerInv(t)
    BY <1>4 DEF AnswerInv
<1>7. ~Traversing(t)
    BY <1>4 DEF Traversing
<1>8. StageInv(t, SolidEdges)
    BY <1>3, <1>4, <1>5, <1>6, <1>7 DEF StageInv
<1> QED
    BY <1>1, <1>2, <1>4, <1>8, GoesKeeps

(* OtherCommits preserves SearchInv. *)
LEMMA OtherCommitsInv == ASSUME SearchInv, OtherCommits PROVE SearchInv'
<1>1. search' = search /\ before' = before
    BY DEF OtherCommits
<1>2. /\ TablesInv' /\ related \subseteq related' /\ mentions \subseteq mentions'
      /\ stored \subseteq stored'
    BY TablesGrow DEF SearchInv
<1>3. SolidEdges' = SolidEdges
    BY <1>1 DEF SolidEdges
<1>4. StageInv(search', SolidEdges')
    BY <1>1, <1>3 DEF SearchInv
<1>5. StageInv(search, SolidEdges)'
    BY <1>2, <1>4, StageGrows
<1> QED
    BY <1>1, <1>2, <1>5 DEF SearchInv, SearchShape

(* SearchInv is inductive. *)
LEMMA SearchStep == SearchInv /\ [SearchNext]_searchVars => SearchInv'
<1> SUFFICES ASSUME SearchInv, [SearchNext]_searchVars PROVE SearchInv'
    OBVIOUS
<1>1. CASE UNCHANGED searchVars
    <2>1. UNCHANGED <<stored, related, mentions, search, before>>
        BY <1>1 DEF searchVars
    <2>2. SolidEdges' = SolidEdges
        BY <2>1 DEF SolidEdges
    <2>3. StageInv(search, SolidEdges)'
        BY <2>1, <2>2, StageGrows DEF SearchInv
    <2> QED
        BY <2>1, <2>3 DEF SearchInv, SearchShape, TablesInv
<1>2. CASE SearchNext
    BY <1>2, OtherCommitsInv, VectorSearchInv, VectorFailsInv, MatchInv, ExpandInv,
       FollowEdgeInv, LoadEntitiesInv, LoadMentionsInv, LoadEvidenceInv, GraphFailsInv,
       SearchRaisesInv
       DEF SearchNext
<1> QED
    BY <1>1, <1>2

(* SearchInv holds of every state of a search. *)
LEMMA SearchInvariance == PartSpec => []SearchInv
<1>1. PartInit => SearchInv
    BY PartBegins, SearchInit
<1>2. SearchInv /\ [PartNext]_partVars => SearchInv'
    BY PartSteps, SearchStep
<1> QED
    BY <1>1, <1>2, PTL DEF PartSpec

(***************************************************************************)
(* What get_neighborhood returns is exact for every graph, depth and limit *)
(* and whatever other requests commit between its statements: at most      *)
(* MAX_ENTITIES entities, each with evidence and within the depth of a     *)
(* match along returned relationships, none of which the service drops;    *)
(* and, if no limit was met, all there was when the traversal began.       *)
(***************************************************************************)
THEOREM NeighborhoodSafe == PartSpec => []NeighborhoodIsExact
<1>1. SearchInv => NeighborhoodIsExact
    BY ExactHolds DEF SearchInv
<1> QED
    BY <1>1, SearchInvariance, PTL

(***************************************************************************)
(* Whichever path fails with an ApplicationError and whatever the tables   *)
(* hold, hybrid search answers: it merges what its two paths found, each   *)
(* chunk once with the source and the score it has, and reports no         *)
(* evidence only when neither path has any.  An exception of another kind  *)
(* ends it without an answer (HybridRetrievalService).                     *)
(***************************************************************************)
THEOREM HybridSafe == PartSpec => []HybridDegrades
<1>1. SearchInv => HybridDegrades
    BY DegradesHolds DEF SearchInv, StageInv
<1> QED
    BY <1>1, SearchInvariance, PTL
=============================================================================

--------------------------- MODULE OmpRadixProofs ---------------------------
(***************************************************************************)
(* Proofs about the parallel radix sort, for any number of threads, any    *)
(* base, and any array that the threads divide: it sorts, whatever the     *)
(* order in which the threads run between two barriers.                    *)
(***************************************************************************)
EXTENDS OmpRadix, FunctionTheorems, FiniteSetTheorems, WellFoundedInduction, SequenceTheorems,
        TLAPS

Arrays == [Indices -> SortValues]

\* The digit of element i of array d that a step with exponent e looks at.
Digit(d, e, i) == (d[i] \div e) % Base

\* The elements with digit s among the first n of thread t's share ...
Taken(d, e, t, s, n) ==
  {j \in Indices : t * ChunkSize <= j /\ j < t * ChunkSize + n /\ Digit(d, e, j) = s}

\* ... and all of them.
Mine(d, e, t, s) == Taken(d, e, t, s, ChunkSize)

\* The elements that go to the left of thread t's elements with digit s.
Lower(d, e, t, s) ==
  {j \in Indices : Digit(d, e, j) < s \/ (Digit(d, e, j) = s /\ j < t * ChunkSize)}
Offset(d, e, t, s) == Cardinality(Lower(d, e, t, s))

\* The elements that go to the left of element i: a smaller digit, or the same
\* digit and an earlier place.  Their number is the place of i.
Precedes(d, e, j, i) ==
  Digit(d, e, j) < Digit(d, e, i) \/ (Digit(d, e, j) = Digit(d, e, i) /\ j < i)
Left(d, e, i) == {j \in Indices : Precedes(d, e, j, i)}
Place(d, e, i) == Cardinality(Left(d, e, i))

\* d holds the numbers of g in another order.
IsPermutation(d, g) ==
  \E p \in Bijection(Indices, Indices) : \A i \in Indices : d[p[i]] = g[i]

SortedBy(d, e) == \A i, j \in Indices : i < j => d[i] % e <= d[j] % e

\* Bin b holds, by their places, the elements with digit s of the first n in
\* thread t's share, but for the first k of them.
BinHolds(b, d, e, t, s, n, k) ==
  /\ Len(b) + k = Cardinality(Taken(d, e, t, s, n))
  /\ \A m \in 1 .. Len(b) : \E i \in Taken(d, e, t, s, n) :
       Place(d, e, i) = Offset(d, e, t, s) + k + m - 1 /\ b[m] = d[i]

OmpTypes ==
  /\ data \in Arrays /\ given \in Arrays
  /\ bins \in [OmpThreads \X Symbols -> Seq(SortValues)]
  /\ sums \in [OmpThreads \X Symbols -> Nat]
  /\ exp \in Nat \ {0}
  /\ region \in {"clear", "bin", "sum", "back", "done"}
  /\ iter \in [OmpThreads -> Nat] /\ written \in [OmpThreads -> Nat]

\* The array between two steps and while the bins are filled.
WholeInv ==
  region # "back" => IsPermutation(data, given) /\ SortedBy(data, exp)

ClearInv == region = "clear" => \A b \in OmpThreads \X Symbols : bins[b] = <<>>

BinInv ==
  region = "bin" => \A t \in OmpThreads :
    /\ iter[t] <= ChunkSize
    /\ \A s \in Symbols : BinHolds(bins[<<t, s>>], data, exp, t, s, iter[t], 0)

SumInv ==
  region = "sum" => \A t \in OmpThreads, s \in Symbols :
    BinHolds(bins[<<t, s>>], data, exp, t, s, ChunkSize, 0)

\* How many elements with digit s thread t has written back.
Back(d, t, s) ==
  IF s < iter[t] THEN Cardinality(Mine(d, exp, t, s)) ELSE IF s = iter[t] THEN written[t] ELSE 0

\* While the bins are written back, d is the array they were filled from: what
\* left a bin is at its place.
BackHolds(d) ==
  \A t \in OmpThreads, s \in Symbols :
    /\ sums[<<t, s>>] = Offset(d, exp, t, s)
    /\ BinHolds(bins[<<t, s>>], d, exp, t, s, ChunkSize, Back(d, t, s))
    /\ \A i \in Mine(d, exp, t, s) :
         Place(d, exp, i) < Offset(d, exp, t, s) + Back(d, t, s) => data[Place(d, exp, i)] = d[i]

BackInv ==
  region = "back" =>
    \E d \in Arrays : IsPermutation(d, given) /\ SortedBy(d, exp) /\ BackHolds(d)

DoneInv == region = "done" => \A i, j \in Indices : i < j => data[i] <= data[j]

OmpInv ==
  OmpTypes /\ WholeInv /\ ClearInv /\ BinInv /\ SumInv /\ BackInv /\ DoneInv

-----------------------------------------------------------------------------
\* What division does.
LEMMA DivMod ==
  ASSUME NEW b \in Nat \ {0}, NEW q \in Nat, NEW r \in 0 .. b - 1
  PROVE  (q * b + r) \div b = q /\ (q * b + r) % b = r
OBVIOUS

\* A number is its quotient times the divisor, and a remainder below the divisor.
LEMMA Divided ==
  ASSUME NEW b \in Nat \ {0}, NEW x \in Nat
  PROVE  x \div b \in Nat /\ x % b \in 0 .. b - 1 /\ x = (x \div b) * b + (x % b)
OBVIOUS

\* The last digits of a number are one more digit and the last digits but it.
LEMMA NextDigit ==
  ASSUME NEW x \in Nat, NEW e \in Nat \ {0}
  PROVE  /\ e * Base \in Nat \ {0}
         /\ x % (e * Base) = ((x \div e) % Base) * e + (x % e)
         /\ x \div (e * Base) = 0 => x % (e * Base) = x
<1> DEFINE y == x \div e
           z == y \div Base
           m == y % Base
           r == x % e
<1>1. Base \in Nat \ {0}
  BY OmpAssumption
<1>2. y \in Nat /\ r \in 0 .. e - 1 /\ x = y * e + r
  BY Divided
<1>3. z \in Nat /\ m \in 0 .. Base - 1 /\ y = z * Base + m
  BY <1>1, <1>2, Divided
<1> HIDE DEF y, z, m, r
<1>4. e * Base \in Nat \ {0}
  BY <1>1
<1>5. x = z * (e * Base) + (m * e + r)
  <2>1. y * e = z * (e * Base) + m * e
    BY <1>1, <1>3
  <2> QED
    BY <1>1, <1>2, <1>3, <2>1
<1>6. m * e + r \in 0 .. e * Base - 1
  <2>1. m * e <= (Base - 1) * e
    BY <1>1, <1>3
  <2>2. (Base - 1) * e = e * Base - e
    BY <1>1
  <2>3. m * e \in Nat
    BY <1>3
  <2> QED
    BY <1>1, <1>2, <1>4, <2>1, <2>2, <2>3
<1>7. x % (e * Base) = m * e + r /\ x \div (e * Base) = z
  <2> DEFINE b == e * Base
             w == m * e + r
  <2>1. b \in Nat \ {0} /\ w \in 0 .. b - 1 /\ x = z * b + w
    BY <1>4, <1>5, <1>6
  <2> HIDE DEF b, w
  <2>2. x \div b = z /\ x % b = w
    BY <1>3, <2>1, DivMod
  <2> QED
    BY <2>2 DEF b, w
<1>8. z = 0 => x = m * e + r
  BY <1>1, <1>3, <1>2
<1> QED
  BY <1>4, <1>7, <1>8 DEF y, m, r

\* The threads divide the array.
LEMMA Chunks ==
  /\ NThreads \in Nat \ {0} /\ Base \in Nat \ {0} /\ NElts \in Nat \ {0}
  /\ ChunkSize \in Nat \ {0} /\ NElts = NThreads * ChunkSize
  /\ SortValues \subseteq Nat
  /\ IsFiniteSet(Indices) /\ Cardinality(Indices) = NElts
<1>1. /\ NThreads \in Nat \ {0} /\ Base \in Nat \ {0} /\ NElts \in Nat \ {0}
      /\ NElts % NThreads = 0 /\ SortValues \subseteq Nat
  BY OmpAssumption
<1>2. ChunkSize \in Nat /\ NElts = ChunkSize * NThreads
  BY <1>1, Divided DEF ChunkSize
<1>3. ChunkSize # 0 /\ NElts = NThreads * ChunkSize
  BY <1>1, <1>2
<1>4. IsFiniteSet(Indices) /\ Cardinality(Indices) = NElts
  BY <1>1, FS_Interval DEF Indices
<1> QED
  BY <1>1, <1>2, <1>3, <1>4

\* Shares are inside the array, and element i is in the share i \div ChunkSize.
LEMMA ShareOf ==
  ASSUME NEW t \in OmpThreads, NEW n \in 0 .. ChunkSize - 1
  PROVE  /\ t * ChunkSize + n \in Indices
         /\ (t * ChunkSize + n) \div ChunkSize = t
<1>1. t \in Nat /\ t <= NThreads - 1 /\ n \in Nat
  BY Chunks DEF OmpThreads
<1>2. t * ChunkSize <= (NThreads - 1) * ChunkSize
  BY <1>1, Chunks
<1>3. (NThreads - 1) * ChunkSize = NElts - ChunkSize
  BY Chunks
<1>4. t * ChunkSize \in Nat
  BY <1>1, Chunks
<1>5. t * ChunkSize + n \in 0 .. NElts - 1
  BY <1>1, <1>2, <1>3, <1>4, Chunks
<1> QED
  BY <1>1, <1>5, Chunks, DivMod DEF Indices

\* Every place of the array is in some thread's share.
LEMMA InShare ==
  ASSUME NEW i \in Indices
  PROVE  \E t \in OmpThreads : t * ChunkSize <= i /\ i < t * ChunkSize + ChunkSize
<1> DEFINE t == i \div ChunkSize
           r == i % ChunkSize
<1>1. i \in Nat /\ i < NElts
  BY Chunks DEF Indices
<1>2. t \in Nat /\ r \in 0 .. ChunkSize - 1 /\ i = t * ChunkSize + r
  BY <1>1, Chunks, Divided
<1> HIDE DEF t, r
<1>3. t < NThreads
  <2>1. SUFFICES ASSUME NThreads <= t PROVE FALSE
    BY <1>2, Chunks
  <2>2. NThreads * ChunkSize <= t * ChunkSize
    BY <1>2, <2>1, Chunks
  <2> QED
    BY <1>1, <1>2, <2>2, Chunks
<1>4. t * ChunkSize <= i /\ i < t * ChunkSize + ChunkSize
  <2> DEFINE T == t * ChunkSize
  <2>1. T \in Int
    BY <1>2, Chunks
  <2>2. r \in 0 .. ChunkSize - 1 /\ i = T + r /\ ChunkSize \in Nat
    BY <1>2, Chunks
  <2> HIDE DEF T
  <2> QED
    BY <2>1, <2>2 DEF T
<1>5. t \in OmpThreads
  BY <1>2, <1>3, Chunks DEF OmpThreads
<1> QED
  BY <1>4, <1>5

\* Different threads have different shares.
LEMMA SharesDiffer ==
  ASSUME NEW t \in OmpThreads, NEW u \in OmpThreads, NEW i \in Int,
         t * ChunkSize <= i, i < t * ChunkSize + ChunkSize,
         u * ChunkSize <= i, i < u * ChunkSize + ChunkSize
  PROVE  t = u
<1>1. t \in Nat /\ u \in Nat
  BY Chunks DEF OmpThreads
<1>2. ASSUME NEW a \in Nat, NEW b \in Nat, a < b PROVE a * ChunkSize + ChunkSize <= b * ChunkSize
  <2>1. (a + 1) * ChunkSize <= b * ChunkSize
    BY <1>2, Chunks
  <2> QED
    BY <2>1, Chunks
<1> DEFINE T == t * ChunkSize
           U == u * ChunkSize
<1>3. T \in Int /\ U \in Int /\ ChunkSize \in Nat
  BY <1>1, Chunks
<1>4. (t < u => T + ChunkSize <= U) /\ (u < t => U + ChunkSize <= T)
  BY <1>1, <1>2
<1>5. T <= i /\ i < T + ChunkSize /\ U <= i /\ i < U + ChunkSize
  OBVIOUS
<1> HIDE DEF T, U
<1> QED
  BY <1>1, <1>3, <1>4, <1>5

\* Cardinalities of disjoint unions and of parts.
LEMMA CardinalityOfUnion ==
  ASSUME NEW S, NEW T, IsFiniteSet(S), IsFiniteSet(T), \A x \in S : x \notin T
  PROVE  Cardinality(S \cup T) = Cardinality(S) + Cardinality(T)
<1>1. S \cap T = {}
  OBVIOUS
<1>2. Cardinality(S \cup T) = Cardinality(S) + Cardinality(T) - Cardinality(S \cap T)
  BY FS_Union
<1>3. Cardinality(S \cap T) = 0
  BY <1>1, FS_EmptySet
<1>4. Cardinality(S) \in Nat /\ Cardinality(T) \in Nat
  BY FS_CardinalityType
<1> QED
  BY <1>2, <1>3, <1>4

\* A part that lacks an element is smaller.
LEMMA CardinalityOfPart ==
  ASSUME NEW S, NEW T, IsFiniteSet(T), S \subseteq T, NEW x \in T, x \notin S
  PROVE  Cardinality(S) < Cardinality(T)
<1>1. S \in SUBSET T /\ S # T
  OBVIOUS
<1>2. IsFiniteSet(S) /\ Cardinality(S) <= Cardinality(T) /\ Cardinality(S) # Cardinality(T)
  BY <1>1, FS_Subset
<1> QED
  BY <1>2, FS_CardinalityType

\* Sets of elements can be counted.
LEMMA Countable ==
  ASSUME NEW d, NEW e, NEW t, NEW s, NEW n, NEW i
  PROVE  /\ IsFiniteSet(Taken(d, e, t, s, n)) /\ Cardinality(Taken(d, e, t, s, n)) \in Nat
         /\ IsFiniteSet(Mine(d, e, t, s)) /\ Cardinality(Mine(d, e, t, s)) \in Nat
         /\ IsFiniteSet(Lower(d, e, t, s)) /\ Offset(d, e, t, s) \in Nat
         /\ IsFiniteSet(Left(d, e, i)) /\ Place(d, e, i) \in Nat
<1>1. ASSUME NEW S \in SUBSET Indices PROVE IsFiniteSet(S) /\ Cardinality(S) \in Nat
  BY Chunks, FS_Subset, FS_CardinalityType
<1>2. /\ Taken(d, e, t, s, n) \in SUBSET Indices /\ Taken(d, e, t, s, ChunkSize) \in SUBSET Indices
      /\ Lower(d, e, t, s) \in SUBSET Indices /\ Left(d, e, i) \in SUBSET Indices
  BY DEF Taken, Lower, Left
<1> QED
  BY <1>1, <1>2 DEF Mine, Offset, Place

\* A digit is below the base.
LEMMA DigitRange ==
  ASSUME NEW d \in Arrays, NEW e \in Nat \ {0}, NEW i \in Indices
  PROVE  Digit(d, e, i) \in Symbols /\ Digit(d, e, i) \in Nat /\ d[i] \in Nat
<1>1. d[i] \in Nat
  BY Chunks DEF Arrays
<1>2. d[i] \div e \in Nat
  BY <1>1, Divided
<1>3. Digit(d, e, i) \in 0 .. Base - 1
  BY <1>2, Chunks, Divided DEF Digit
<1> QED
  BY <1>1, <1>3, Chunks DEF Symbols

\* Going one element further in a share.
LEMMA TakeOne ==
  ASSUME NEW d \in Arrays, NEW e \in Nat \ {0}, NEW t \in OmpThreads, NEW s,
         NEW n \in 0 .. ChunkSize - 1
  PROVE  /\ Digit(d, e, t * ChunkSize + n) = s =>
              /\ Taken(d, e, t, s, n + 1) = Taken(d, e, t, s, n) \cup {t * ChunkSize + n}
              /\ Cardinality(Taken(d, e, t, s, n + 1)) = Cardinality(Taken(d, e, t, s, n)) + 1
         /\ Digit(d, e, t * ChunkSize + n) # s =>
              Taken(d, e, t, s, n + 1) = Taken(d, e, t, s, n)
<1> DEFINE T == t * ChunkSize
           i == T + n
<1>1. T \in Nat /\ n \in Nat /\ i \in Indices /\ Indices \subseteq Nat
  BY ShareOf, Chunks DEF OmpThreads, Indices
<1>2. Taken(d, e, t, s, n + 1) = {j \in Indices : T <= j /\ j < T + (n + 1) /\ Digit(d, e, j) = s}
  BY DEF Taken
<1>3. Taken(d, e, t, s, n) = {j \in Indices : T <= j /\ j < T + n /\ Digit(d, e, j) = s}
  BY DEF Taken
<1> DEFINE A == Taken(d, e, t, s, n)
           B == Taken(d, e, t, s, n + 1)
<1> HIDE DEF T, A, B
<1>4. B = IF Digit(d, e, i) = s THEN A \cup {i} ELSE A
  <2>1. \A j \in Indices : j < T + (n + 1) <=> j < T + n \/ j = i
    BY <1>1
  <2>2. \A j : j \in B <=> j \in Indices /\ T <= j /\ j < T + (n + 1) /\ Digit(d, e, j) = s
    BY <1>2 DEF B
  <2>3. \A j : j \in A <=> j \in Indices /\ T <= j /\ j < T + n /\ Digit(d, e, j) = s
    BY <1>3 DEF A
  <2>4. T <= i
    BY <1>1
  <2> HIDE DEF i
  <2> QED
    BY <1>1, <2>1, <2>2, <2>3, <2>4
<1>5. i \notin A
  BY <1>1, <1>3 DEF A
<1>6. IsFiniteSet(A) /\ Cardinality(A) \in Nat
  BY Countable DEF A
<1>7. Cardinality(B) = Cardinality(A) + (IF Digit(d, e, i) = s THEN 1 ELSE 0)
  <2> HIDE DEF i
  <2> QED
    BY <1>4, <1>5, <1>6, FS_AddElement
<1> QED
  BY <1>4, <1>7 DEF A, B, T

\* Of no elements, none has the digit: a bin starts empty.
LEMMA TakeNone ==
  ASSUME NEW d, NEW e, NEW t \in OmpThreads, NEW s
  PROVE  Taken(d, e, t, s, 0) = {} /\ Cardinality(Taken(d, e, t, s, 0)) = 0
<1>1. t * ChunkSize \in Nat
  BY Chunks DEF OmpThreads
<1>2. ASSUME NEW j \in Taken(d, e, t, s, 0) PROVE FALSE
  <2> DEFINE T == t * ChunkSize
  <2>1. j \in Nat /\ T <= j /\ j < T + 0 /\ T \in Nat
    BY <1>1, <1>2 DEF Taken, Indices
  <2> HIDE DEF T
  <2> QED
    BY <2>1
<1> QED
  BY <1>2, FS_EmptySet

\* A bin never has more elements than the thread looked at.
LEMMA TakeAtMost ==
  ASSUME NEW d, NEW e, NEW t \in OmpThreads, NEW s, NEW n \in Nat
  PROVE  Cardinality(Taken(d, e, t, s, n)) <= n
<1> DEFINE T == t * ChunkSize
           R == T .. T + n - 1
<1>1. T \in Nat
  BY Chunks DEF OmpThreads
<1>2. Taken(d, e, t, s, n) = {j \in Indices : T <= j /\ j < T + n /\ Digit(d, e, j) = s}
  BY DEF Taken
<1> HIDE DEF T
<1>3. Taken(d, e, t, s, n) \in SUBSET R
  BY <1>1, <1>2 DEF Indices
<1>4. IsFiniteSet(R) /\ Cardinality(R) = n
  <2>1. T \in Int /\ T + n - 1 \in Int
    BY <1>1
  <2>2. IsFiniteSet(R) /\ Cardinality(R) = IF T > T + n - 1 THEN 0 ELSE T + n - 1 - T + 1
    BY <2>1, FS_Interval
  <2> QED
    BY <1>1, <2>2
<1> HIDE DEF R
<1> QED
  BY <1>3, <1>4, FS_Subset

\* What goes to the left of thread t's elements with digit s, and these, is what
\* goes to the left of the next bin's.
LEMMA NextOffset ==
  ASSUME NEW d \in Arrays, NEW e \in Nat \ {0}, NEW t \in OmpThreads, NEW s \in Symbols
  PROVE  Offset(d, e, t, s) + Cardinality(Mine(d, e, t, s))
           = IF t = NThreads - 1 THEN Offset(d, e, 0, s + 1) ELSE Offset(d, e, t + 1, s)
<1> DEFINE T == t * ChunkSize
           L == Lower(d, e, t, s)
           M == Mine(d, e, t, s)
           D(j) == Digit(d, e, j)
<1>1. T \in Nat /\ s \in Nat /\ t \in Nat /\ t <= NThreads - 1
  BY Chunks DEF OmpThreads, Symbols
<1>2. \A j : j \in L <=> j \in Indices /\ (D(j) < s \/ (D(j) = s /\ j < T))
  BY DEF Lower
<1>3. \A j : j \in M <=> j \in Indices /\ T <= j /\ j < T + ChunkSize /\ D(j) = s
  BY DEF Mine, Taken
<1>4. \A j \in Indices : D(j) \in Nat /\ j \in Nat /\ j < NElts
  BY DigitRange, Chunks DEF Indices
<1> HIDE DEF T, L, M, D
<1>5. IsFiniteSet(L) /\ IsFiniteSet(M) /\ \A j \in L : j \notin M
  <2>1. IsFiniteSet(L) /\ IsFiniteSet(M)
    BY Countable DEF L, M
  <2>2. \A j \in L : j \notin M
    BY <1>1, <1>2, <1>3, <1>4
  <2> QED
    BY <2>1, <2>2
<1>6. Cardinality(L \cup M) = Cardinality(L) + Cardinality(M)
  BY <1>5, CardinalityOfUnion
<1>7. CASE t = NThreads - 1
  <2> DEFINE N == Lower(d, e, 0, s + 1)
  <2>1. \A j : j \in N <=> j \in Indices /\ (D(j) < s + 1 \/ (D(j) = s + 1 /\ j < 0))
    BY Chunks DEF Lower, D
  <2>2. T + ChunkSize = NElts
    <3>1. (NThreads - 1) * ChunkSize + ChunkSize = NThreads * ChunkSize
      BY Chunks
    <3> QED
      BY <1>7, <3>1, Chunks DEF T
  <2> HIDE DEF N
  <2>3. \A j : j \in N <=> j \in L \cup M
    BY <1>1, <1>2, <1>3, <1>4, <2>1, <2>2, Chunks
  <2>4. N = L \cup M
    BY <2>3
  <2> QED
    BY <1>6, <1>7, <2>4 DEF N, L, M, Offset
<1>8. CASE t # NThreads - 1
  <2> DEFINE N == Lower(d, e, t + 1, s)
             U == (t + 1) * ChunkSize
  <2>1. \A j : j \in N <=> j \in Indices /\ (D(j) < s \/ (D(j) = s /\ j < U))
    BY DEF Lower, D
  <2>2. U = T + ChunkSize
    BY <1>1, Chunks DEF T
  <2> HIDE DEF N, U
  <2>3. \A j : j \in N <=> j \in L \cup M
    BY <1>1, <1>2, <1>3, <1>4, <2>1, <2>2, Chunks
  <2>4. N = L \cup M
    BY <2>3
  <2> QED
    BY <1>6, <1>8, <2>4 DEF N, L, M, Offset
<1> QED
  BY <1>7, <1>8

\* Nothing goes to the left of the first thread's elements with digit 0.
LEMMA FirstOffset ==
  ASSUME NEW d \in Arrays, NEW e \in Nat \ {0}
  PROVE  Offset(d, e, 0, 0) = 0
<1>1. ASSUME NEW j \in Lower(d, e, 0, 0) PROVE FALSE
  <2>1. j \in Indices /\ (Digit(d, e, j) < 0 \/ (Digit(d, e, j) = 0 /\ j < 0))
    BY <1>1, Chunks DEF Lower
  <2>2. Digit(d, e, j) \in Nat /\ j \in Nat
    BY <2>1, DigitRange DEF Indices
  <2> QED
    BY <2>1, <2>2
<1>2. Lower(d, e, 0, 0) = {}
  BY <1>1
<1> QED
  BY <1>2, FS_EmptySet DEF Offset

\* Thread t's elements with digit s go to as many places from the offset on.
LEMMA PlaceRange ==
  ASSUME NEW d \in Arrays, NEW e \in Nat \ {0}, NEW t \in OmpThreads, NEW s \in Symbols,
         NEW i \in Mine(d, e, t, s)
  PROVE  /\ i \in Indices /\ Digit(d, e, i) = s
         /\ Offset(d, e, t, s) <= Place(d, e, i)
         /\ Place(d, e, i) < Offset(d, e, t, s) + Cardinality(Mine(d, e, t, s))
<1> DEFINE T == t * ChunkSize
           L == Lower(d, e, t, s)
           M == Mine(d, e, t, s)
           F == Left(d, e, i)
           D(j) == Digit(d, e, j)
<1>1. T \in Nat /\ s \in Nat
  BY Chunks DEF OmpThreads, Symbols
<1>2. \A j : j \in L <=> j \in Indices /\ (D(j) < s \/ (D(j) = s /\ j < T))
  BY DEF Lower
<1>3. \A j : j \in M <=> j \in Indices /\ T <= j /\ j < T + ChunkSize /\ D(j) = s
  BY DEF Mine, Taken
<1>4. \A j : j \in F <=> j \in Indices /\ (D(j) < D(i) \/ (D(j) = D(i) /\ j < i))
  BY DEF Left, Precedes
<1>5. \A j \in Indices : D(j) \in Nat /\ j \in Nat /\ j < NElts
  BY DigitRange, Chunks DEF Indices
<1>6. IsFiniteSet(L) /\ IsFiniteSet(M) /\ IsFiniteSet(F) /\ IsFiniteSet(L \cup M)
  BY Countable, FS_Union
<1>7. i \in M
  OBVIOUS
<1> HIDE DEF T, L, M, F, D
<1>8. i \in Indices /\ D(i) = s /\ T <= i /\ i < T + ChunkSize
  BY <1>3, <1>7
<1>9. L \subseteq F /\ F \subseteq L \cup M /\ i \notin F /\ i \in L \cup M
  BY <1>1, <1>2, <1>3, <1>4, <1>5, <1>7, <1>8, Chunks
<1>10. Cardinality(L) <= Cardinality(F)
  BY <1>6, <1>9, FS_Subset
<1>11. Cardinality(F) < Cardinality(L \cup M)
  BY <1>6, <1>9, CardinalityOfPart
<1>12. Cardinality(L \cup M) = Cardinality(L) + Cardinality(M)
  <2>1. \A j \in L : j \notin M
    BY <1>1, <1>2, <1>3, <1>5
  <2> QED
    BY <1>6, <2>1, CardinalityOfUnion
<1> QED
  BY <1>8, <1>10, <1>11, <1>12 DEF L, M, F, D, Offset, Place

\* An element's place is its offset and how many its thread took before it.
LEMMA PlaceOfNext ==
  ASSUME NEW d \in Arrays, NEW e \in Nat \ {0}, NEW t \in OmpThreads,
         NEW n \in 0 .. ChunkSize - 1, NEW s \in Symbols
  PROVE  Digit(d, e, t * ChunkSize + n) = s =>
           Place(d, e, t * ChunkSize + n) = Offset(d, e, t, s) + Cardinality(Taken(d, e, t, s, n))
<1> DEFINE T == t * ChunkSize
           i == T + n
           L == Lower(d, e, t, s)
           M == Taken(d, e, t, s, n)
           F == Left(d, e, i)
           D(j) == Digit(d, e, j)
<1>1. T \in Nat /\ i \in Indices /\ n \in Nat /\ s \in Nat
  <2>1. i \in Indices
    BY ShareOf
  <2> QED
    BY <2>1, Chunks DEF OmpThreads, Symbols
<1>2. \A j : j \in L <=> j \in Indices /\ (D(j) < s \/ (D(j) = s /\ j < T))
  BY DEF Lower
<1>3. \A j : j \in M <=> j \in Indices /\ T <= j /\ j < T + n /\ D(j) = s
  BY DEF Taken
<1>4. \A j : j \in F <=> j \in Indices /\ (D(j) < D(i) \/ (D(j) = D(i) /\ j < i))
  BY DEF Left, Precedes
<1>5. \A j \in Indices : D(j) \in Nat /\ j \in Nat
  BY DigitRange DEF Indices
<1>6. IsFiniteSet(L) /\ IsFiniteSet(M)
  BY Countable
<1>7. i = T + n
  OBVIOUS
<1> HIDE DEF T, i, L, M, F, D
<1>8. \A j \in L : j \notin M
  BY <1>1, <1>2, <1>3, <1>5
<1>9. ASSUME D(i) = s, NEW j \in Indices PROVE j \in F <=> j \in L \/ j \in M
  <2>1. D(j) \in Nat /\ j \in Nat
    BY <1>5
  <2>2. j \in F <=> (D(j) < s \/ (D(j) = s /\ j < T + n))
    BY <1>4, <1>7, <1>9
  <2>3. j \in L <=> (D(j) < s \/ (D(j) = s /\ j < T))
    BY <1>2
  <2>4. j \in M <=> T <= j /\ j < T + n /\ D(j) = s
    BY <1>3
  <2> QED
    BY <1>1, <2>1, <2>2, <2>3, <2>4
<1>10. D(i) = s => F = L \cup M
  <2>1. F \subseteq Indices /\ L \subseteq Indices /\ M \subseteq Indices
    BY <1>2, <1>3, <1>4
  <2> QED
    BY <1>9, <2>1
<1> QED
  BY <1>6, <1>8, <1>10, CardinalityOfUnion DEF L, M, F, D, i, T, Offset, Place

\* Places are in the order of digits, and of the old places in one digit.
LEMMA PlacesOrdered ==
  ASSUME NEW d \in Arrays, NEW e \in Nat \ {0}, NEW i \in Indices, NEW j \in Indices
  PROVE  /\ Precedes(d, e, j, i) => Place(d, e, j) < Place(d, e, i)
         /\ Precedes(d, e, j, i) \/ Precedes(d, e, i, j) \/ i = j
<1> DEFINE D(k) == Digit(d, e, k)
           F == Left(d, e, i)
           G == Left(d, e, j)
<1>1. \A k \in Indices : D(k) \in Nat /\ k \in Nat
  BY DigitRange DEF Indices
<1>2. \A k : k \in F <=> k \in Indices /\ (D(k) < D(i) \/ (D(k) = D(i) /\ k < i))
  BY DEF Left, Precedes
<1>3. \A k : k \in G <=> k \in Indices /\ (D(k) < D(j) \/ (D(k) = D(j) /\ k < j))
  BY DEF Left, Precedes
<1>4. Precedes(d, e, j, i) <=> (D(j) < D(i) \/ (D(j) = D(i) /\ j < i))
  BY DEF Precedes
<1>5. Precedes(d, e, i, j) <=> (D(i) < D(j) \/ (D(i) = D(j) /\ i < j))
  BY DEF Precedes
<1>6. IsFiniteSet(F)
  BY Countable
<1> HIDE DEF D, F, G
<1>7. ASSUME Precedes(d, e, j, i) PROVE Cardinality(G) < Cardinality(F)
  <2>1. G \subseteq F /\ j \in F /\ j \notin G
    BY <1>1, <1>2, <1>3, <1>4, <1>7
  <2> QED
    BY <1>6, <2>1, CardinalityOfPart
<1>8. Precedes(d, e, j, i) \/ Precedes(d, e, i, j) \/ i = j
  BY <1>1, <1>4, <1>5
<1> QED
  BY <1>7, <1>8 DEF F, G, Place

\* The places are those of the array, and each is the place of one element.
LEMMA PlacesDiffer ==
  ASSUME NEW d \in Arrays, NEW e \in Nat \ {0}, NEW i \in Indices
  PROVE  /\ Place(d, e, i) \in Indices
         /\ \A j \in Indices : Place(d, e, i) = Place(d, e, j) => i = j
<1> DEFINE F == Left(d, e, i)
<1>1. i \notin F /\ F \subseteq Indices
  <2>1. Digit(d, e, i) \in Nat /\ i \in Nat
    BY DigitRange DEF Indices
  <2> QED
    BY <2>1 DEF Left, Precedes
<1>2. Cardinality(F) \in Nat /\ IsFiniteSet(Indices) /\ Cardinality(Indices) = NElts
  BY Countable, Chunks DEF Place
<1> HIDE DEF F
<1>3. Cardinality(F) < NElts
  BY <1>1, <1>2, CardinalityOfPart
<1>4. Place(d, e, i) \in Indices
  BY <1>2, <1>3, Chunks DEF F, Place, Indices
<1>5. ASSUME NEW j \in Indices, Place(d, e, i) = Place(d, e, j) PROVE i = j
  <2>1. Place(d, e, i) \in Nat /\ Place(d, e, j) \in Nat
    BY Countable
  <2>2. Precedes(d, e, j, i) => Place(d, e, j) < Place(d, e, i)
    BY PlacesOrdered
  <2>3. Precedes(d, e, i, j) => Place(d, e, i) < Place(d, e, j)
    BY PlacesOrdered
  <2>4. Precedes(d, e, j, i) \/ Precedes(d, e, i, j) \/ i = j
    BY PlacesOrdered
  <2> QED
    BY <1>5, <2>1, <2>2, <2>3, <2>4
<1> QED
  BY <1>4, <1>5

\* An injection of the indices into themselves is a bijection.
LEMMA InjectionIsBijection ==
  ASSUME NEW f \in [Indices -> Indices], \A i, j \in Indices : f[i] = f[j] => i = j
  PROVE  f \in Bijection(Indices, Indices) /\ \A k \in Indices : \E i \in Indices : f[i] = k
<1>1. f \in Injection(Indices, Indices)
  BY Fun_IsInj
<1>2. f \in Surjection(Indices, Indices)
  BY <1>1, FS_Injection, Chunks
<1> QED
  BY <1>1, <1>2 DEF Bijection, Surjection

\* Every place is the place of some element: the write back leaves no gap.
LEMMA PlacesFilled ==
  ASSUME NEW d \in Arrays, NEW e \in Nat \ {0}, NEW k \in Indices
  PROVE  \E i \in Indices : Place(d, e, i) = k
<1> DEFINE f == [i \in Indices |-> Place(d, e, i)]
<1>1. f \in [Indices -> Indices] /\ \A i, j \in Indices : f[i] = f[j] => i = j
  BY PlacesDiffer
<1>2. \E i \in Indices : f[i] = k
  <2> HIDE DEF f
  <2> QED
    BY <1>1, InjectionIsBijection
<1> QED
  BY <1>2

\* Every set of numbers has a least one.
LEMMA Least ==
  ASSUME NEW T \in SUBSET Nat, T # {}
  PROVE  \E x \in T : \A y \in T : x <= y
<1> DEFINE R == {p \in Nat \X Nat : p[1] < p[2]}
<1>1. IsWellFoundedOn(R, Nat)
  BY NatLessThanWellFounded DEF OpToRel
<1>2. \A x, y \in Nat : <<y, x>> \in R <=> y < x
  OBVIOUS
<1> HIDE DEF R
<1>3. PICK x \in T : \A y \in T : <<y, x>> \notin R
  BY <1>1, WFMin
<1>4. \A y \in T : x \in Nat /\ y \in Nat /\ ~(y < x)
  BY <1>2, <1>3
<1> QED
  BY <1>4

\* Bins by their number: symbol by symbol, and in a symbol thread by thread.
BinNumbers == 0 .. NThreads * Base - 1

\* The running sum's bin n is that of thread n % NThreads for symbol n \div NThreads.
LEMMA BinNumber ==
  ASSUME NEW n \in BinNumbers
  PROVE  /\ n % NThreads \in OmpThreads /\ n \div NThreads \in Symbols
         /\ n = (n \div NThreads) * NThreads + (n % NThreads)
<1> DEFINE t == n % NThreads
           j == n \div NThreads
<1>1. n \in Nat /\ n < NThreads * Base
  BY Chunks DEF BinNumbers
<1>2. j \in Nat /\ t \in 0 .. NThreads - 1 /\ n = j * NThreads + t
  BY <1>1, Chunks, Divided
<1> HIDE DEF t, j
<1>3. j < Base
  <2>1. SUFFICES ASSUME Base <= j PROVE FALSE
    BY <1>2, Chunks
  <2>2. Base * NThreads <= j * NThreads
    BY <1>2, <2>1, Chunks
  <2> DEFINE x == Base * NThreads
             y == j * NThreads
  <2>3. x \in Nat /\ y \in Nat /\ n < x /\ n = y + t /\ x <= y /\ t \in Nat
    BY <1>1, <1>2, <2>2, Chunks
  <2> HIDE DEF x, y
  <2> QED
    BY <2>3
<1> QED
  BY <1>2, <1>3, Chunks DEF t, j, OmpThreads, Symbols

\* And the bin of thread t for symbol s is bin s * NThreads + t.
LEMMA NumberOfBin ==
  ASSUME NEW t \in OmpThreads, NEW s \in Symbols
  PROVE  /\ s * NThreads + t \in BinNumbers
         /\ (s * NThreads + t) % NThreads = t /\ (s * NThreads + t) \div NThreads = s
<1>1. t \in 0 .. NThreads - 1 /\ s \in Nat /\ s <= Base - 1 /\ t \in Nat
  BY Chunks DEF OmpThreads, Symbols
<1>2. s * NThreads <= (Base - 1) * NThreads /\ s * NThreads \in Nat
  BY <1>1, Chunks
<1>3. (Base - 1) * NThreads = NThreads * Base - NThreads
  BY Chunks
<1>4. s * NThreads + t \in BinNumbers
  BY <1>1, <1>2, <1>3, Chunks DEF BinNumbers
<1>5. (s * NThreads + t) % NThreads = t /\ (s * NThreads + t) \div NThreads = s
  BY <1>1, Chunks, DivMod
<1> QED
  BY <1>4, <1>5

\* The bin before the n-th.
LEMMA NumberBefore ==
  ASSUME NEW n \in BinNumbers, n # 0
  PROVE  LET t == n % NThreads  j == n \div NThreads IN
         /\ n - 1 \in BinNumbers
         /\ t = 0 => /\ j - 1 \in Symbols /\ (n - 1) % NThreads = NThreads - 1
                     /\ (n - 1) \div NThreads = j - 1
         /\ t # 0 => t - 1 \in OmpThreads /\ (n - 1) % NThreads = t - 1 /\ (n - 1) \div NThreads = j
<1> DEFINE t == n % NThreads
           j == n \div NThreads
<1>1. t \in OmpThreads /\ j \in Symbols /\ n = j * NThreads + t
  BY BinNumber
<1>2. n \in Nat /\ n - 1 \in BinNumbers
  BY Chunks DEF BinNumbers
<1> HIDE DEF t, j
<1>3. t \in 0 .. NThreads - 1 /\ j \in 0 .. Base - 1
  BY <1>1 DEF OmpThreads, Symbols
<1>4. ASSUME t = 0
      PROVE  j - 1 \in Symbols /\ (n - 1) % NThreads = NThreads - 1 /\ (n - 1) \div NThreads = j - 1
  <2>1. j # 0
    BY <1>1, <1>4, Chunks
  <2>2. j - 1 \in Nat /\ j - 1 \in Symbols
    BY <1>3, <2>1, Chunks DEF Symbols
  <2>3. (j - 1) * NThreads = j * NThreads - NThreads
    BY <1>3, Chunks
  <2>4. n - 1 = (j - 1) * NThreads + (NThreads - 1)
    BY <1>1, <1>3, <1>4, <2>3, Chunks
  <2> DEFINE k == j - 1
             r == NThreads - 1
  <2>5. r \in 0 .. NThreads - 1 /\ NThreads \in Nat \ {0} /\ k \in Nat
    BY <2>2, Chunks
  <2> HIDE DEF k, r
  <2>6. (k * NThreads + r) \div NThreads = k /\ (k * NThreads + r) % NThreads = r
    BY <2>5, DivMod
  <2> QED
    BY <2>2, <2>4, <2>6 DEF k, r
<1>5. ASSUME t # 0
      PROVE  t - 1 \in OmpThreads /\ (n - 1) % NThreads = t - 1 /\ (n - 1) \div NThreads = j
  <2>1. t - 1 \in 0 .. NThreads - 1 /\ j \in Nat
    BY <1>3, <1>5, Chunks
  <2>2. n - 1 = j * NThreads + (t - 1)
    BY <1>1, <1>3, Chunks
  <2> QED
    BY <2>1, <2>2, Chunks, DivMod DEF OmpThreads
<1> QED
  BY <1>2, <1>4, <1>5 DEF t, j

\* A function on the bins' numbers that begins with 0 and goes on with the
\* length of the bin before is unique: the least difference has one before it.
LEMMA SumsUnique ==
  ASSUME NEW f, NEW g, NEW len,
         f = [n \in BinNumbers |-> IF n = 0 THEN 0 ELSE f[n - 1] + len[n - 1]],
         g = [n \in BinNumbers |-> IF n = 0 THEN 0 ELSE g[n - 1] + len[n - 1]]
  PROVE  f = g
<1> DEFINE T == {n \in BinNumbers : f[n] # g[n]}
<1>1. T \in SUBSET Nat
  BY DEF BinNumbers
<1>2. ASSUME T # {} PROVE FALSE
  <2> HIDE DEF T
  <2>1. PICK n \in T : \A m \in T : n <= m
    BY <1>1, <1>2, Least
  <2>2. n \in BinNumbers /\ f[n] # g[n] /\ n \in Nat
    BY <1>1 DEF T
  <2>3. n # 0
    BY <2>2
  <2>4. n - 1 \in BinNumbers
    BY <2>2, <2>3, NumberBefore
  <2>5. n - 1 \notin T
    BY <2>1, <2>2
  <2>6. f[n - 1] = g[n - 1]
    BY <2>4, <2>5 DEF T
  <2>7. f[n] = f[n - 1] + len[n - 1] /\ g[n] = g[n - 1] + len[n - 1]
    BY <2>2, <2>3
  <2> QED
    BY <2>2, <2>6, <2>7
<1>3. \A n \in BinNumbers : f[n] = g[n]
  BY <1>2
<1>4. f = [n \in BinNumbers |-> f[n]] /\ g = [n \in BinNumbers |-> g[n]]
  OBVIOUS
<1> QED
  BY <1>3, <1>4

\* With all elements in their bins the prefix sums are the offsets.
LEMMA PrefixSumIs ==
  ASSUME NEW d \in Arrays, NEW e \in Nat \ {0},
         \A t \in OmpThreads, s \in Symbols : Len(bins[<<t, s>>]) = Cardinality(Mine(d, e, t, s))
  PROVE  \A t \in OmpThreads, s \in Symbols : PrefixSum[<<t, s>>] = Offset(d, e, t, s)
<1> DEFINE Sums(h) ==
      h = [n \in 0 .. NThreads * Base - 1 |->
             LET t == n % NThreads  j == n \div NThreads
             IN  IF n = 0 THEN 0
                 ELSE IF t = 0 THEN h[n - 1] + Len(bins[<<NThreads - 1, j - 1>>])
                 ELSE h[n - 1] + Len(bins[<<t - 1, j>>])]
           f == CHOOSE h : Sums(h)
           g == [n \in BinNumbers |-> Offset(d, e, n % NThreads, n \div NThreads)]
           len == [n \in BinNumbers |-> Cardinality(Mine(d, e, n % NThreads, n \div NThreads))]
<1>1. PrefixSum = [b \in OmpThreads \X Symbols |-> f[b[2] * NThreads + b[1]]]
  BY DEF PrefixSum
<1>3. \A n \in BinNumbers : g[n] = IF n = 0 THEN 0 ELSE g[n - 1] + len[n - 1]
  <2> SUFFICES ASSUME NEW n \in BinNumbers
               PROVE  g[n] = IF n = 0 THEN 0 ELSE g[n - 1] + len[n - 1]
    OBVIOUS
  <2> DEFINE t == n % NThreads
             j == n \div NThreads
  <2>1. t \in OmpThreads /\ j \in Symbols /\ n = j * NThreads + t
    BY BinNumber
  <2>2. g[n] = Offset(d, e, t, j)
    OBVIOUS
  <2>3. CASE n = 0
    <3>1. 0 * NThreads + 0 = 0 /\ 0 \in 0 .. NThreads - 1 /\ 0 \in Nat
      BY Chunks
    <3>2. 0 \div NThreads = 0 /\ 0 % NThreads = 0
      BY <3>1, DivMod, Chunks
    <3> QED
      BY <2>2, <2>3, <3>2, FirstOffset
  <2>4. CASE n # 0 /\ t = 0
    <3>1. n - 1 \in BinNumbers /\ j - 1 \in Symbols
      BY <2>4, NumberBefore
    <3>2. (n - 1) % NThreads = NThreads - 1 /\ (n - 1) \div NThreads = j - 1
      BY <2>4, NumberBefore
    <3>3. NThreads - 1 \in OmpThreads /\ j \in Int
      BY <2>1, Chunks DEF OmpThreads, Symbols
    <3> DEFINE k == j - 1
               u == NThreads - 1
    <3>4. g[n - 1] = Offset(d, e, u, k) /\ len[n - 1] = Cardinality(Mine(d, e, u, k))
      BY <3>1, <3>2
    <3>5. k + 1 = j /\ k \in Symbols /\ u \in OmpThreads
      BY <3>1, <3>3
    <3> HIDE DEF g, len, t, j, k
    <3>6. Offset(d, e, u, k) + Cardinality(Mine(d, e, u, k)) = Offset(d, e, 0, k + 1)
      BY <3>5, NextOffset
    <3> QED
      BY <2>2, <2>4, <3>4, <3>5, <3>6
  <2>5. CASE n # 0 /\ t # 0
    <3>1. n - 1 \in BinNumbers /\ t - 1 \in OmpThreads
      BY <2>5, NumberBefore
    <3>2. (n - 1) % NThreads = t - 1 /\ (n - 1) \div NThreads = j
      BY <2>5, NumberBefore
    <3> DEFINE u == t - 1
    <3>3. g[n - 1] = Offset(d, e, u, j) /\ len[n - 1] = Cardinality(Mine(d, e, u, j))
      BY <3>1, <3>2
    <3>4. u + 1 = t /\ u \in OmpThreads /\ u # NThreads - 1
      BY <2>1, <3>1, Chunks DEF OmpThreads
    <3> HIDE DEF g, len, t, j, u
    <3>5. Offset(d, e, u, j) + Cardinality(Mine(d, e, u, j)) = Offset(d, e, u + 1, j)
      BY <2>1, <3>4, NextOffset
    <3> QED
      BY <2>2, <2>5, <3>3, <3>4, <3>5
  <2> QED
    BY <2>3, <2>4, <2>5
<1>4. ASSUME NEW n \in BinNumbers, n # 0
      PROVE  len[n - 1] = IF n % NThreads = 0 THEN Len(bins[<<NThreads - 1, (n \div NThreads) - 1>>])
                          ELSE Len(bins[<<(n % NThreads) - 1, n \div NThreads>>])
  <2> DEFINE t == n % NThreads
             j == n \div NThreads
  <2>1. j \in Symbols /\ NThreads - 1 \in OmpThreads
    BY BinNumber, Chunks DEF OmpThreads
  <2>2. CASE t = 0
    <3>1. n - 1 \in BinNumbers /\ j - 1 \in Symbols
      BY <1>4, <2>2, NumberBefore
    <3>2. (n - 1) % NThreads = NThreads - 1 /\ (n - 1) \div NThreads = j - 1
      BY <1>4, <2>2, NumberBefore
    <3>3. len[n - 1] = Cardinality(Mine(d, e, NThreads - 1, j - 1))
      BY <3>1, <3>2
    <3> HIDE DEF len, t, j
    <3>4. Len(bins[<<NThreads - 1, j - 1>>]) = Cardinality(Mine(d, e, NThreads - 1, j - 1))
      BY <2>1, <3>1
    <3>5. len[n - 1] = Len(bins[<<NThreads - 1, j - 1>>])
      BY <3>3, <3>4
    <3> QED
      BY <2>2, <3>5 DEF t, j
  <2>3. CASE t # 0
    <3>1. n - 1 \in BinNumbers /\ t - 1 \in OmpThreads
      BY <1>4, <2>3, NumberBefore
    <3>2. (n - 1) % NThreads = t - 1 /\ (n - 1) \div NThreads = j
      BY <1>4, <2>3, NumberBefore
    <3>3. len[n - 1] = Cardinality(Mine(d, e, t - 1, j))
      BY <3>1, <3>2
    <3> HIDE DEF len, t, j
    <3>4. Len(bins[<<t - 1, j>>]) = Cardinality(Mine(d, e, t - 1, j))
      BY <2>1, <3>1
    <3>5. len[n - 1] = Len(bins[<<t - 1, j>>])
      BY <3>3, <3>4
    <3> QED
      BY <2>3, <3>5 DEF t, j
  <2> QED
    BY <2>2, <2>3
<1> DEFINE Equation(h) == h = [n \in BinNumbers |-> IF n = 0 THEN 0 ELSE h[n - 1] + len[n - 1]]
<1>5. ASSUME NEW h PROVE Sums(h) <=> Equation(h)
  <2> HIDE DEF len
  <2>1. [n \in 0 .. NThreads * Base - 1 |->
             LET t == n % NThreads  j == n \div NThreads
             IN  IF n = 0 THEN 0
                 ELSE IF t = 0 THEN h[n - 1] + Len(bins[<<NThreads - 1, j - 1>>])
                 ELSE h[n - 1] + Len(bins[<<t - 1, j>>])]
        = [n \in BinNumbers |-> IF n = 0 THEN 0 ELSE h[n - 1] + len[n - 1]]
    BY <1>4 DEF BinNumbers
  <2> QED
    BY <2>1
<1>6. Equation(g)
  <2> HIDE DEF len
  <2>1. g = [n \in BinNumbers |-> g[n]]
    OBVIOUS
  <2> HIDE DEF g
  <2> QED
    BY <1>3, <2>1
<1>7. f = g
  <2> HIDE DEF g, len, Sums, Equation
  <2>1. Sums(g)
    BY <1>5, <1>6
  <2>2. Sums(f)
    BY <2>1
  <2>3. Equation(f)
    BY <1>5, <2>2
  <2> HIDE DEF f
  <2> QED
    BY <1>6, <2>3, SumsUnique DEF Equation
<1> SUFFICES ASSUME NEW t \in OmpThreads, NEW s \in Symbols
             PROVE  PrefixSum[<<t, s>>] = Offset(d, e, t, s)
  OBVIOUS
<1>8. PrefixSum[<<t, s>>] = f[s * NThreads + t]
  <2> HIDE DEF f
  <2> QED
    BY <1>1
<1>9. g[s * NThreads + t] = Offset(d, e, t, s)
  BY NumberOfBin
<1> HIDE DEF f, g
<1> QED
  BY <1>7, <1>8, <1>9

\* Moving every element to its place sorts by one more digit.
LEMMA OneMoreDigit ==
  ASSUME NEW d \in Arrays, NEW x \in Arrays, NEW g \in Arrays, NEW e \in Nat \ {0},
         IsPermutation(d, g), SortedBy(d, e),
         \A i \in Indices : x[Place(d, e, i)] = d[i]
  PROVE  IsPermutation(x, g) /\ SortedBy(x, e * Base)
<1>1. IsPermutation(x, g)
  <2>1. PICK p \in Bijection(Indices, Indices) : \A i \in Indices : d[p[i]] = g[i]
    BY DEF IsPermutation
  <2>2. p \in [Indices -> Indices] /\ \A i, j \in Indices : p[i] = p[j] => i = j
    BY Fun_BijectionProperties
  <2> DEFINE q == [i \in Indices |-> Place(d, e, p[i])]
  <2>3. \A i \in Indices : p[i] \in Indices /\ Place(d, e, p[i]) \in Indices
    BY <2>2, PlacesDiffer
  <2>4. ASSUME NEW i \in Indices, NEW j \in Indices, q[i] = q[j] PROVE i = j
    <3>1. Place(d, e, p[i]) = Place(d, e, p[j])
      BY <2>4
    <3>2. p[i] = p[j]
      BY <2>3, <3>1, PlacesDiffer
    <3> QED
      BY <2>2, <3>2
  <2>5. q \in [Indices -> Indices]
    BY <2>3
  <2>6. \A i \in Indices : x[q[i]] = g[i]
    BY <2>1, <2>3
  <2> HIDE DEF q
  <2>7. q \in Bijection(Indices, Indices)
    BY <2>4, <2>5, InjectionIsBijection
  <2> QED
    BY <2>6, <2>7 DEF IsPermutation
<1>2. ASSUME NEW k \in Indices, NEW l \in Indices, k < l
      PROVE  x[k] % (e * Base) <= x[l] % (e * Base)
  <2>1. PICK i \in Indices : Place(d, e, i) = k
    BY PlacesFilled
  <2>2. PICK j \in Indices : Place(d, e, j) = l
    BY PlacesFilled
  <2>3. Precedes(d, e, i, j)
    <3>1. Precedes(d, e, j, i) => l < k
      BY <2>1, <2>2, PlacesOrdered
    <3>2. Precedes(d, e, j, i) \/ Precedes(d, e, i, j) \/ i = j
      BY PlacesOrdered
    <3>3. k \in Nat /\ l \in Nat
      BY DEF Indices
    <3> QED
      BY <1>2, <2>1, <2>2, <3>1, <3>2, <3>3
  <2> DEFINE a == d[i]
             b == d[j]
             m == Digit(d, e, i)
             n == Digit(d, e, j)
             y == a % e
             z == b % e
  <2>4. x[k] = a /\ x[l] = b
    BY <2>1, <2>2
  <2>5. a \in Nat /\ b \in Nat /\ m \in Nat /\ n \in Nat
    BY DigitRange
  <2>6. a % (e * Base) = m * e + y
    BY <2>5, NextDigit DEF Digit
  <2>7. b % (e * Base) = n * e + z
    BY <2>5, NextDigit DEF Digit
  <2>8. y \in 0 .. e - 1 /\ z \in 0 .. e - 1
    BY <2>5, Divided
  <2>9. m < n \/ (m = n /\ i < j)
    BY <2>3 DEF Precedes
  <2>10. i < j => y <= z
    BY DEF SortedBy
  <2> HIDE DEF a, b, m, n, y, z
  <2>11. m * e + y <= n * e + z
    <3>1. CASE m < n
      <4>1. (m + 1) * e <= n * e
        BY <2>5, <3>1
      <4>2. (m + 1) * e = m * e + e
        BY <2>5
      <4> DEFINE u == m * e
                 v == n * e
      <4>3. u \in Nat /\ v \in Nat /\ u + e <= v
        BY <2>5, <4>1, <4>2
      <4> HIDE DEF u, v
      <4>4. u + y <= v + z
        BY <2>8, <4>3
      <4> QED
        BY <4>4 DEF u, v
    <3>2. CASE m = n /\ i < j
      <4> DEFINE u == m * e
      <4>1. u \in Nat /\ u = n * e
        BY <2>5, <3>2
      <4> HIDE DEF u
      <4>2. u + y <= u + z
        BY <2>8, <2>10, <3>2, <4>1
      <4> QED
        BY <4>1, <4>2 DEF u
    <3> QED
      BY <2>9, <3>1, <3>2
  <2> QED
    BY <2>4, <2>6, <2>7, <2>11
<1> QED
  BY <1>1, <1>2 DEF SortedBy

\* With no digits left, sorted by the last digits is sorted.
LEMMA NoDigitsLeft ==
  ASSUME NEW d \in Arrays, NEW g \in Arrays, NEW e \in Nat \ {0},
         IsPermutation(d, g), SortedBy(d, e), \A i \in Indices : ~(g[i] \div e > 0)
  PROVE  \A i, j \in Indices : i < j => d[i] <= d[j]
<1>1. PICK p \in Bijection(Indices, Indices) : \A i \in Indices : d[p[i]] = g[i]
  BY DEF IsPermutation
<1>2. ASSUME NEW k \in Indices PROVE d[k] % e = d[k]
  <2>1. PICK i \in Indices : p[i] = k
    BY Fun_BijectionProperties
  <2>2. d[k] = g[i] /\ g[i] \in Nat
    BY <1>1, <2>1, Chunks DEF Arrays
  <2> DEFINE x == g[i]
  <2>3. x \in Nat /\ ~(x \div e > 0)
    BY <2>2
  <2> HIDE DEF x
  <2>4. x \div e \in Nat /\ x = (x \div e) * e + (x % e) /\ x % e \in 0 .. e - 1
    BY <2>3, Divided
  <2>5. x \div e = 0
    BY <2>3, <2>4
  <2>6. x = x % e
    BY <2>4, <2>5
  <2> QED
    BY <2>2, <2>6 DEF x
<1> QED
  BY <1>2 DEF SortedBy

\* Putting the next element of a share into the bin of its digit.
LEMMA BinOne ==
  ASSUME NEW d \in Arrays, NEW e \in Nat \ {0}, NEW t \in OmpThreads, NEW s \in Symbols,
         NEW n \in 0 .. ChunkSize - 1, NEW b \in Seq(SortValues), BinHolds(b, d, e, t, s, n, 0)
  PROVE  LET i == t * ChunkSize + n IN
         /\ Digit(d, e, i) # s => BinHolds(b, d, e, t, s, n + 1, 0)
         /\ Digit(d, e, i) = s =>
              Len(b) < ChunkSize /\ BinHolds(Append(b, d[i]), d, e, t, s, n + 1, 0)
<1> DEFINE i == t * ChunkSize + n
           A == Taken(d, e, t, s, n)
           B == Taken(d, e, t, s, n + 1)
           o == Offset(d, e, t, s)
<1>1. i \in Indices /\ n \in Nat
  BY ShareOf, Chunks
<1>2. /\ Digit(d, e, i) = s => B = A \cup {i} /\ Cardinality(B) = Cardinality(A) + 1
      /\ Digit(d, e, i) # s => B = A
  BY TakeOne
<1>3. Cardinality(A) \in Nat /\ Cardinality(A) <= n /\ o \in Nat
  BY <1>1, Countable, TakeAtMost
<1>4. Digit(d, e, i) = s => Place(d, e, i) = o + Cardinality(A)
  BY PlaceOfNext
<1>5. /\ Len(b) + 0 = Cardinality(A)
      /\ \A m \in 1 .. Len(b) : \E j \in A : Place(d, e, j) = o + 0 + m - 1 /\ b[m] = d[j]
  BY DEF BinHolds
<1>6. \A c : BinHolds(c, d, e, t, s, n + 1, 0) <=>
        /\ Len(c) + 0 = Cardinality(B)
        /\ \A m \in 1 .. Len(c) : \E j \in B : Place(d, e, j) = o + 0 + m - 1 /\ c[m] = d[j]
  BY DEF BinHolds
<1>7. d[i] \in SortValues
  BY <1>1 DEF Arrays
<1> HIDE DEF i, A, B, o
<1>8. Digit(d, e, i) # s => BinHolds(b, d, e, t, s, n + 1, 0)
  BY <1>2, <1>3, <1>5, <1>6
<1>9. ASSUME Digit(d, e, i) = s
      PROVE  Len(b) < ChunkSize /\ BinHolds(Append(b, d[i]), d, e, t, s, n + 1, 0)
  <2> DEFINE c == Append(b, d[i])
  <2>1. Len(b) = Cardinality(A) /\ Len(b) \in Nat /\ Len(b) < ChunkSize
    BY <1>1, <1>3, <1>5, Chunks
  <2>2. /\ Len(c) = Len(b) + 1 /\ c[Len(b) + 1] = d[i]
        /\ \A m \in 1 .. Len(b) : c[m] = b[m]
    BY <1>7
  <2> HIDE DEF c
  <2>3. i \in B /\ A \subseteq B /\ Cardinality(B) = Cardinality(A) + 1
    BY <1>2, <1>9
  <2>4. Len(c) + 0 = Cardinality(B)
    BY <1>3, <2>1, <2>2, <2>3
  <2>5. ASSUME NEW m \in 1 .. Len(c)
        PROVE  \E j \in B : Place(d, e, j) = o + 0 + m - 1 /\ c[m] = d[j]
    <3>1. CASE m = Len(b) + 1
      <4>1. Place(d, e, i) = o + 0 + m - 1
        BY <1>3, <1>4, <1>9, <2>1, <3>1
      <4> QED
        BY <2>2, <2>3, <3>1, <4>1
    <3>2. CASE m # Len(b) + 1
      <4>1. m \in 1 .. Len(b)
        BY <2>1, <2>2, <3>2
      <4> QED
        BY <1>5, <2>2, <2>3, <4>1
    <3> QED
      BY <3>1, <3>2
  <2> QED
    BY <1>6, <2>1, <2>4, <2>5 DEF c
<1> QED
  BY <1>8, <1>9 DEF i

\* Taking the first element out of a bin.
LEMMA BinLess ==
  ASSUME NEW d \in Arrays, NEW e \in Nat \ {0}, NEW t \in OmpThreads, NEW s \in Symbols,
         NEW k \in Nat, NEW b \in Seq(SortValues), BinHolds(b, d, e, t, s, ChunkSize, k), b # <<>>
  PROVE  /\ BinHolds(Tail(b), d, e, t, s, ChunkSize, k + 1)
         /\ \E i \in Mine(d, e, t, s) : Place(d, e, i) = Offset(d, e, t, s) + k /\ Head(b) = d[i]
<1> DEFINE A == Mine(d, e, t, s)
           o == Offset(d, e, t, s)
           c == Tail(b)
<1>1. Len(b) \in Nat /\ Len(b) # 0
  BY EmptySeq
<1>2. Len(c) = Len(b) - 1 /\ Head(b) = b[1] /\ \A m \in 1 .. Len(b) - 1 : c[m] = b[m + 1]
  BY <1>1
<1>3. /\ Len(b) + k = Cardinality(A)
      /\ \A m \in 1 .. Len(b) : \E j \in A : Place(d, e, j) = o + k + m - 1 /\ b[m] = d[j]
  BY DEF BinHolds, Mine
<1>4. BinHolds(c, d, e, t, s, ChunkSize, k + 1) <=>
        /\ Len(c) + (k + 1) = Cardinality(A)
        /\ \A m \in 1 .. Len(c) : \E j \in A : Place(d, e, j) = o + (k + 1) + m - 1 /\ c[m] = d[j]
  BY DEF BinHolds, Mine
<1>5. o \in Nat /\ Cardinality(A) \in Nat
  BY Countable
<1> HIDE DEF A, o, c
<1>6. Len(c) + (k + 1) = Cardinality(A)
  BY <1>1, <1>2, <1>3, <1>5
<1>7. ASSUME NEW m \in 1 .. Len(c)
      PROVE  \E j \in A : Place(d, e, j) = o + (k + 1) + m - 1 /\ c[m] = d[j]
  <2>1. m + 1 \in 1 .. Len(b) /\ m \in 1 .. Len(b) - 1
    BY <1>1, <1>2
  <2>2. PICK j \in A : Place(d, e, j) = o + k + (m + 1) - 1 /\ b[m + 1] = d[j]
    BY <1>3, <2>1
  <2>3. Place(d, e, j) = o + (k + 1) + m - 1
    BY <1>5, <2>2
  <2> QED
    BY <1>2, <2>1, <2>2, <2>3
<1>8. \E i \in A : Place(d, e, i) = o + k /\ Head(b) = d[i]
  <2>1. 1 \in 1 .. Len(b)
    BY <1>1
  <2>2. PICK i \in A : Place(d, e, i) = o + k + 1 - 1 /\ b[1] = d[i]
    BY <1>3, <2>1
  <2> QED
    BY <1>2, <1>5, <2>2
<1> QED
  BY <1>4, <1>6, <1>7, <1>8 DEF A, o, c

-----------------------------------------------------------------------------
(* The steps of the threads and the barriers between the regions.          *)

\* A thread's position in its loop over the symbols.
LEMMA SymbolOfIter ==
  ASSUME OmpTypes, NEW t \in OmpThreads, iter[t] < Base
  PROVE  iter[t] \in Symbols /\ <<t, iter[t]>> \in OmpThreads \X Symbols
BY Chunks DEF OmpTypes, Symbols

\* Clearing a bin that is empty, as all are after the bins were written back.
LEMMA ClearKeepsInv ==
  ASSUME OmpInv, NEW t \in OmpThreads, OmpClear(t)
  PROVE  OmpInv'
<1> DEFINE b0 == <<t, iter[t]>>
<1>1. OmpTypes /\ WholeInv /\ ClearInv
  BY DEF OmpInv
<1>2. /\ region = "clear" /\ region' = "clear"
      /\ bins' = [bins EXCEPT ![b0] = <<>>] /\ iter' = [iter EXCEPT ![t] = @ + 1]
      /\ data' = data /\ sums' = sums /\ exp' = exp /\ written' = written /\ given' = given
  BY DEF OmpClear
<1>3. <<>> \in Seq(SortValues)
  OBVIOUS
<1> HIDE DEF b0
<1>4. OmpTypes'
  <2>1. bins' \in [OmpThreads \X Symbols -> Seq(SortValues)]
    BY <1>1, <1>2, <1>3 DEF OmpTypes
  <2>2. iter' \in [OmpThreads -> Nat]
    BY <1>1, <1>2 DEF OmpTypes
  <2> QED
    BY <1>1, <1>2, <2>1, <2>2 DEF OmpTypes
<1>5. WholeInv'
  BY <1>1, <1>2 DEF WholeInv
<1>6. ClearInv'
  <2>1. \A b \in OmpThreads \X Symbols : bins[b] = <<>>
    BY <1>1, <1>2 DEF ClearInv
  <2>2. \A b \in OmpThreads \X Symbols : bins'[b] = <<>>
    BY <1>1, <1>2, <2>1 DEF OmpTypes
  <2> QED
    BY <2>2 DEF ClearInv
<1> QED
  BY <1>2, <1>4, <1>5, <1>6 DEF OmpInv, BinInv, SumInv, BackInv, DoneInv

\* An empty bin holds nothing of a share that nobody has looked at.
LEMMA EmptyBin ==
  ASSUME NEW d, NEW e, NEW t \in OmpThreads, NEW s
  PROVE  BinHolds(<<>>, d, e, t, s, 0, 0)
<1>1. Cardinality(Taken(d, e, t, s, 0)) = 0
  BY TakeNone
<1>2. Len(<<>>) = 0
  OBVIOUS
<1> QED
  BY <1>1, <1>2 DEF BinHolds

\* The end of the loop that clears the bins.
LEMMA ClearBarrierKeepsInv == ASSUME OmpInv, OmpClearBarrier PROVE OmpInv'
<1>1. OmpTypes /\ WholeInv /\ ClearInv
  BY DEF OmpInv
<1>2. /\ region = "clear" /\ region' = "bin"
      /\ iter' = [t \in OmpThreads |-> 0] /\ written' = [t \in OmpThreads |-> 0]
      /\ bins' = bins /\ data' = data /\ sums' = sums /\ exp' = exp /\ given' = given
  BY DEF OmpClearBarrier, NextRegion
<1>3. OmpTypes'
  BY <1>1, <1>2 DEF OmpTypes
<1>4. WholeInv'
  BY <1>1, <1>2 DEF WholeInv
<1>5. BinInv'
  <2>1. ASSUME NEW t \in OmpThreads, NEW s \in Symbols
        PROVE  BinHolds(bins'[<<t, s>>], data', exp', t, s, iter'[t], 0)
    <3>1. bins'[<<t, s>>] = <<>> /\ iter'[t] = 0
      BY <1>1, <1>2 DEF ClearInv
    <3> QED
      BY <3>1, EmptyBin
  <2>2. \A t \in OmpThreads : iter'[t] <= ChunkSize
    BY <1>2, Chunks
  <2> QED
    BY <2>1, <2>2 DEF BinInv
<1> QED
  BY <1>2, <1>3, <1>4, <1>5 DEF OmpInv, ClearInv, SumInv, BackInv, DoneInv

\* fifo_add of one element: it is never refused.
LEMMA BinKeepsInv ==
  ASSUME OmpInv, NEW t \in OmpThreads, OmpBin(t)
  PROVE  OmpInv'
<1> DEFINE n == iter[t]
           i == t * ChunkSize + n
           s == Digit(data, exp, i)
           b == bins[<<t, s>>]
<1>1. OmpTypes /\ WholeInv /\ BinInv
  BY DEF OmpInv
<1>2. data \in Arrays /\ exp \in Nat \ {0} /\ n \in 0 .. ChunkSize - 1
  BY <1>1, Chunks DEF OmpTypes, OmpBin
<1>3. i \in Indices /\ i \div ChunkSize = t
  BY <1>2, ShareOf
<1>4. s \in Symbols /\ data[i] \in SortValues
  BY <1>2, <1>3, DigitRange DEF Arrays
<1>5. b \in Seq(SortValues) /\ BinHolds(b, data, exp, t, s, n, 0)
  <2>1. region = "bin"
    BY DEF OmpBin
  <2> HIDE DEF s
  <2> QED
    BY <1>1, <1>4, <2>1 DEF OmpTypes, BinInv
<1>6. Len(b) < ChunkSize /\ BinHolds(Append(b, data[i]), data, exp, t, s, n + 1, 0)
  <2> HIDE DEF b
  <2> QED
    BY <1>2, <1>4, <1>5, BinOne
<1>7. /\ region = "bin" /\ region' = "bin"
      /\ bins' = [bins EXCEPT ![<<t, s>>] = Append(b, data[i])]
      /\ iter' = [iter EXCEPT ![t] = n + 1]
      /\ data' = data /\ sums' = sums /\ exp' = exp /\ written' = written /\ given' = given
  <2>1. <<i \div ChunkSize, Symbol(data[i])>> = <<t, s>>
    BY <1>3 DEF Symbol, Digit
  <2>2. bins' = [bins EXCEPT ![<<t, s>>] = IF Len(@) < ChunkSize THEN Append(@, data[i]) ELSE @]
    BY <2>1 DEF OmpBin
  <2>3. /\ region = "bin" /\ region' = "bin"
        /\ iter' = [iter EXCEPT ![t] = n + 1]
        /\ data' = data /\ sums' = sums /\ exp' = exp /\ written' = written /\ given' = given
    BY DEF OmpBin
  <2> HIDE DEF i, s, n
  <2>4. bins' = [bins EXCEPT ![<<t, s>>] = Append(b, data[i])]
    BY <1>6, <2>2
  <2> QED
    BY <2>3, <2>4
<1>8. Append(b, data[i]) \in Seq(SortValues)
  BY <1>4, <1>5
<1>9. n + 1 \in Nat /\ n + 1 <= ChunkSize
  BY <1>2, Chunks
<1>10. ASSUME NEW r \in Symbols, r # s PROVE BinHolds(bins[<<t, r>>], data, exp, t, r, n + 1, 0)
  <2>1. bins[<<t, r>>] \in Seq(SortValues) /\ BinHolds(bins[<<t, r>>], data, exp, t, r, n, 0)
    BY <1>1, <1>7 DEF OmpTypes, BinInv
  <2> DEFINE c == bins[<<t, r>>]
  <2> HIDE DEF c
  <2>2. c \in Seq(SortValues) /\ BinHolds(c, data, exp, t, r, n, 0)
    BY <2>1 DEF c
  <2>3. Digit(data, exp, i) # r
    BY <1>10
  <2>4. BinHolds(c, data, exp, t, r, n + 1, 0)
    BY <1>2, <2>2, <2>3, BinOne
  <2> QED
    BY <2>4 DEF c
<1> DEFINE c0 == Append(b, data[i])
<1> HIDE DEF n, i, s, b, c0
<1>11. bins' = [bins EXCEPT ![<<t, s>>] = c0] /\ c0 \in Seq(SortValues)
  BY <1>7, <1>8 DEF c0
<1>12. OmpTypes'
  <2>1. bins' \in [OmpThreads \X Symbols -> Seq(SortValues)]
    BY <1>1, <1>4, <1>11 DEF OmpTypes
  <2>2. iter' \in [OmpThreads -> Nat]
    BY <1>1, <1>7, <1>9 DEF OmpTypes
  <2> QED
    BY <1>1, <1>7, <2>1, <2>2 DEF OmpTypes
<1>13. WholeInv'
  BY <1>1, <1>7 DEF WholeInv
<1>14. BinInv'
  <2>1. ASSUME NEW u \in OmpThreads, NEW r \in Symbols
        PROVE  BinHolds(bins'[<<u, r>>], data', exp', u, r, iter'[u], 0)
    <3>1. CASE u = t /\ r = s
      <4>1. bins'[<<u, r>>] = c0 /\ iter'[u] = n + 1
        BY <1>1, <1>4, <1>7, <1>11, <3>1 DEF OmpTypes
      <4> QED
        BY <1>6, <1>7, <3>1, <4>1 DEF c0
    <3>2. CASE u = t /\ r # s
      <4>1. bins'[<<u, r>>] = bins[<<t, r>>] /\ iter'[u] = n + 1
        BY <1>1, <1>7, <1>11, <3>2 DEF OmpTypes
      <4> QED
        BY <1>7, <1>10, <3>2, <4>1
    <3>3. CASE u # t
      <4>1. bins'[<<u, r>>] = bins[<<u, r>>] /\ iter'[u] = iter[u]
        BY <1>1, <1>7, <1>11, <3>3 DEF OmpTypes
      <4>2. BinHolds(bins[<<u, r>>], data, exp, u, r, iter[u], 0)
        BY <1>1, <1>7 DEF BinInv
      <4> QED
        BY <1>7, <4>1, <4>2
    <3> QED
      BY <3>1, <3>2, <3>3
  <2>2. ASSUME NEW u \in OmpThreads PROVE iter'[u] <= ChunkSize
    <3>1. iter[u] <= ChunkSize
      BY <1>1, <1>7 DEF BinInv
    <3> QED
      BY <1>1, <1>7, <1>9, <3>1 DEF OmpTypes
  <2> QED
    BY <2>1, <2>2 DEF BinInv
<1> QED
  BY <1>7, <1>12, <1>13, <1>14 DEF OmpInv, ClearInv, SumInv, BackInv, DoneInv

\* The end of the loop that fills the bins: each thread has binned its whole share.
LEMMA BinBarrierKeepsInv == ASSUME OmpInv, OmpBinBarrier PROVE OmpInv'
<1>1. OmpTypes /\ WholeInv /\ BinInv
  BY DEF OmpInv
<1>2. /\ region = "bin" /\ region' = "sum" /\ \A t \in OmpThreads : iter[t] = ChunkSize
      /\ iter' = [t \in OmpThreads |-> 0] /\ written' = [t \in OmpThreads |-> 0]
      /\ bins' = bins /\ data' = data /\ sums' = sums /\ exp' = exp /\ given' = given
  BY DEF OmpBinBarrier, NextRegion, AllDid
<1>3. OmpTypes'
  BY <1>1, <1>2 DEF OmpTypes
<1>4. WholeInv'
  BY <1>1, <1>2 DEF WholeInv
<1>5. SumInv'
  <2>1. ASSUME NEW t \in OmpThreads, NEW s \in Symbols
        PROVE  BinHolds(bins'[<<t, s>>], data', exp', t, s, ChunkSize, 0)
    <3>1. BinHolds(bins[<<t, s>>], data, exp, t, s, iter[t], 0)
      BY <1>1, <1>2 DEF BinInv
    <3> QED
      BY <1>2, <3>1
  <2> QED
    BY <2>1 DEF SumInv
<1> QED
  BY <1>2, <1>3, <1>4, <1>5 DEF OmpInv, ClearInv, BinInv, BackInv, DoneInv

\* The prefix sums are the offsets, so that writing back begins with every bin
\* full and nothing in place.
LEMMA SumsKeepInv == ASSUME OmpInv, OmpSums PROVE OmpInv'
<1>1. OmpTypes /\ WholeInv /\ SumInv
  BY DEF OmpInv
<1>2. /\ region = "sum" /\ region' = "back" /\ sums' = PrefixSum
      /\ iter' = [t \in OmpThreads |-> 0] /\ written' = [t \in OmpThreads |-> 0]
      /\ bins' = bins /\ data' = data /\ exp' = exp /\ given' = given
  BY DEF OmpSums, NextRegion
<1>3. data \in Arrays /\ exp \in Nat \ {0}
  BY <1>1 DEF OmpTypes
<1>4. ASSUME NEW t \in OmpThreads, NEW s \in Symbols
      PROVE  /\ BinHolds(bins[<<t, s>>], data, exp, t, s, ChunkSize, 0)
             /\ Len(bins[<<t, s>>]) = Cardinality(Mine(data, exp, t, s))
  <2>1. BinHolds(bins[<<t, s>>], data, exp, t, s, ChunkSize, 0)
    BY <1>1, <1>2 DEF SumInv
  <2>2. Len(bins[<<t, s>>]) \in Nat
    BY <1>1 DEF OmpTypes
  <2>3. Len(bins[<<t, s>>]) + 0 = Cardinality(Mine(data, exp, t, s))
    BY <2>1 DEF BinHolds, Mine
  <2> QED
    BY <2>1, <2>2, <2>3
<1>5. \A t \in OmpThreads, s \in Symbols : PrefixSum[<<t, s>>] = Offset(data, exp, t, s)
  BY <1>3, <1>4, PrefixSumIs
<1>6. PrefixSum \in [OmpThreads \X Symbols -> Nat]
  <2>1. PrefixSum = [b \in OmpThreads \X Symbols |-> PrefixSum[b]]
    BY DEF PrefixSum
  <2>2. ASSUME NEW b \in OmpThreads \X Symbols PROVE PrefixSum[b] \in Nat
    <3>1. b = <<b[1], b[2]>> /\ b[1] \in OmpThreads /\ b[2] \in Symbols
      OBVIOUS
    <3>2. PrefixSum[<<b[1], b[2]>>] = Offset(data, exp, b[1], b[2])
      BY <1>5, <3>1
    <3> QED
      BY <3>1, <3>2, Countable
  <2> QED
    BY <2>1, <2>2
<1>7. OmpTypes'
  BY <1>1, <1>2, <1>6 DEF OmpTypes
<1>8. BackHolds(data)'
  <2>1. ASSUME NEW t \in OmpThreads, NEW s \in Symbols
        PROVE  /\ sums'[<<t, s>>] = Offset(data, exp, t, s)
               /\ Back(data, t, s)' = 0
               /\ \A i \in Mine(data, exp, t, s) : ~(Place(data, exp, i) < Offset(data, exp, t, s) + 0)
    <3>1. Back(data, t, s)' = 0
      BY <1>2, Chunks DEF Back, Symbols
    <3>2. ASSUME NEW i \in Mine(data, exp, t, s)
          PROVE  ~(Place(data, exp, i) < Offset(data, exp, t, s) + 0)
      <4>1. Offset(data, exp, t, s) <= Place(data, exp, i)
        BY <1>3, PlaceRange
      <4>2. Offset(data, exp, t, s) \in Nat /\ Place(data, exp, i) \in Nat
        BY Countable
      <4> QED
        BY <4>1, <4>2
    <3> QED
      BY <1>2, <1>5, <3>1, <3>2
  <2> QED
    BY <1>2, <1>4, <2>1 DEF BackHolds
<1>9. BackInv'
  <2>1. IsPermutation(data, given) /\ SortedBy(data, exp)
    BY <1>1, <1>2 DEF WholeInv
  <2>2. IsPermutation(data', given') /\ SortedBy(data', exp') /\ data' \in Arrays
    BY <1>2, <1>3, <2>1
  <2>3. BackHolds(data)' /\ data' = data
    BY <1>2, <1>8
  <2> QED
    BY <2>2, <2>3 DEF BackInv
<1> QED
  BY <1>2, <1>7, <1>9 DEF OmpInv, WholeInv, ClearInv, BinInv, SumInv, DoneInv

\* fifo_remove of one element into its place.
LEMMA BackKeepsInv ==
  ASSUME OmpInv, NEW t \in OmpThreads, OmpBack(t)
  PROVE  OmpInv'
<1> DEFINE s == iter[t]
           k == written[t]
           b == bins[<<t, s>>]
<1>1. OmpTypes /\ BackInv /\ region = "back"
  BY DEF OmpInv, OmpBack
<1>2. s \in Symbols /\ s \in Nat /\ k \in Nat /\ b \in Seq(SortValues) /\ exp \in Nat \ {0}
  <2>1. s \in Symbols
    BY <1>1, SymbolOfIter DEF OmpBack
  <2> QED
    BY <1>1, <2>1 DEF OmpTypes
<1>3. PICK d \in Arrays : IsPermutation(d, given) /\ SortedBy(d, exp) /\ BackHolds(d)
  BY <1>1 DEF BackInv
<1> DEFINE o == Offset(d, exp, t, s)
           P(i) == Place(d, exp, i)
<1>4. /\ region' = "back" /\ b # <<>>
      /\ data' = [data EXCEPT ![sums[<<t, s>>] + k] = Head(b)]
      /\ bins' = [bins EXCEPT ![<<t, s>>] = Tail(b)]
      /\ written' = [written EXCEPT ![t] = k + 1]
      /\ sums' = sums /\ exp' = exp /\ iter' = iter /\ given' = given
  BY <1>1 DEF OmpBack
<1>5. /\ sums[<<t, s>>] = o /\ BinHolds(b, d, exp, t, s, ChunkSize, k)
      /\ \A i \in Mine(d, exp, t, s) : P(i) < o + k => data[P(i)] = d[i]
  <2>1. Back(d, t, s) = k
    BY <1>2 DEF Back
  <2> HIDE DEF s, k
  <2> QED
    BY <1>2, <1>3, <2>1 DEF BackHolds
<1> HIDE DEF s, k, b
<1>6. PICK i0 \in Mine(d, exp, t, s) : P(i0) = o + k /\ Head(b) = d[i0]
  BY <1>2, <1>4, <1>5, BinLess
<1>7. BinHolds(Tail(b), d, exp, t, s, ChunkSize, k + 1)
  BY <1>2, <1>4, <1>5, BinLess
<1>8. i0 \in Indices /\ P(i0) \in Indices /\ o \in Nat
  BY <1>2, PlaceRange, PlacesDiffer, Countable
<1>9. data' = [data EXCEPT ![P(i0)] = d[i0]] /\ d[i0] \in SortValues
  BY <1>4, <1>5, <1>6, <1>8 DEF Arrays
<1>10. ASSUME NEW i \in Indices, i = i0 \/ data[P(i)] = d[i] PROVE data'[P(i)] = d[i]
  <2>1. P(i) \in Indices /\ (P(i) = P(i0) => i = i0)
    BY <1>2, <1>8, PlacesDiffer
  <2> HIDE DEF P
  <2> QED
    BY <1>1, <1>9, <1>10, <2>1 DEF OmpTypes, Arrays
<1>11. Tail(b) \in Seq(SortValues)
  BY <1>2, <1>4
<1>12. OmpTypes'
  <2>1. data' \in Arrays
    BY <1>1, <1>9 DEF OmpTypes, Arrays
  <2>2. bins' \in [OmpThreads \X Symbols -> Seq(SortValues)]
    BY <1>1, <1>4, <1>11 DEF OmpTypes
  <2>3. written' \in [OmpThreads -> Nat]
    BY <1>1, <1>2, <1>4 DEF OmpTypes
  <2> QED
    BY <1>1, <1>4, <2>1, <2>2, <2>3 DEF OmpTypes
<1>13. ASSUME NEW u \in OmpThreads, NEW r \in Symbols
       PROVE  /\ sums'[<<u, r>>] = Offset(d, exp, u, r)
              /\ BinHolds(bins'[<<u, r>>], d, exp, u, r, ChunkSize, Back(d, u, r)')
              /\ \A i \in Mine(d, exp, u, r) :
                   P(i) < Offset(d, exp, u, r) + Back(d, u, r)' => data'[P(i)] = d[i]
  <2>1. /\ sums[<<u, r>>] = Offset(d, exp, u, r)
        /\ BinHolds(bins[<<u, r>>], d, exp, u, r, ChunkSize, Back(d, u, r))
        /\ \A i \in Mine(d, exp, u, r) :
             P(i) < Offset(d, exp, u, r) + Back(d, u, r) => data[P(i)] = d[i]
    BY <1>3 DEF BackHolds
  <2>2. CASE u = t /\ r = s
    <3>1. Back(d, u, r)' = k + 1
      <4>1. iter'[t] = s /\ written'[t] = k + 1
        BY <1>1, <1>4 DEF OmpTypes, s
      <4> QED
        BY <1>2, <2>2, <4>1 DEF Back
    <3>2. bins'[<<u, r>>] = Tail(b)
      BY <1>1, <1>2, <1>4, <2>2 DEF OmpTypes
    <3>3. ASSUME NEW i \in Mine(d, exp, t, s), P(i) < o + (k + 1) PROVE data'[P(i)] = d[i]
      <4>1. i \in Indices /\ P(i) \in Nat
        BY <1>2, PlaceRange, Countable
      <4>2. P(i) = P(i0) => i = i0
        BY <1>2, <1>8, <4>1, PlacesDiffer
      <4>3. P(i) < o + k \/ P(i) = o + k
        <5> HIDE DEF P, o
        <5> QED
          BY <1>2, <1>8, <3>3, <4>1
      <4>4. i = i0 \/ data[P(i)] = d[i]
        BY <1>5, <1>6, <4>2, <4>3
      <4> QED
        BY <1>10, <4>1, <4>4
    <3> QED
      BY <1>4, <1>7, <2>1, <2>2, <3>1, <3>2, <3>3
  <2>3. CASE ~(u = t /\ r = s)
    <3>1. Back(d, u, r)' = Back(d, u, r)
      <4>1. iter'[u] = iter[u] /\ exp' = exp
        BY <1>4
      <4>2. r = iter[u] => written'[u] = written[u]
        BY <1>1, <1>4, <2>3 DEF OmpTypes, s
      <4> QED
        BY <4>1, <4>2 DEF Back
    <3>2. bins'[<<u, r>>] = bins[<<u, r>>]
      BY <1>1, <1>4, <2>3 DEF OmpTypes
    <3>3. ASSUME NEW i \in Mine(d, exp, u, r),
                 P(i) < Offset(d, exp, u, r) + Back(d, u, r)
          PROVE  data'[P(i)] = d[i]
      <4>1. i \in Indices
        BY <1>2, PlaceRange
      <4>2. data[P(i)] = d[i]
        BY <2>1, <3>3
      <4> QED
        BY <1>10, <4>1, <4>2
    <3> QED
      BY <1>4, <2>1, <3>1, <3>2, <3>3
  <2> QED
    BY <2>2, <2>3
<1>14. BackHolds(d)'
  BY <1>4, <1>13 DEF BackHolds
<1>15. BackInv'
  BY <1>3, <1>4, <1>14 DEF BackInv
<1> QED
  BY <1>4, <1>12, <1>15 DEF OmpInv, WholeInv, ClearInv, BinInv, SumInv, DoneInv

\* Going on to the next bin when one is empty.
LEMMA BackNextKeepsInv ==
  ASSUME OmpInv, NEW t \in OmpThreads, OmpBackNext(t)
  PROVE  OmpInv'
<1> DEFINE s == iter[t]
           k == written[t]
<1>1. OmpTypes /\ BackInv /\ region = "back"
  BY DEF OmpInv, OmpBackNext
<1>2. s \in Symbols /\ s \in Nat /\ k \in Nat
  <2>1. s \in Symbols
    BY <1>1, SymbolOfIter DEF OmpBackNext
  <2> QED
    BY <1>1, <2>1 DEF OmpTypes
<1>3. PICK d \in Arrays : IsPermutation(d, given) /\ SortedBy(d, exp) /\ BackHolds(d)
  BY <1>1 DEF BackInv
<1>4. /\ region' = "back" /\ bins[<<t, s>>] = <<>>
      /\ iter' = [iter EXCEPT ![t] = s + 1] /\ written' = [written EXCEPT ![t] = 0]
      /\ data' = data /\ bins' = bins /\ sums' = sums /\ exp' = exp /\ given' = given
  BY <1>1 DEF OmpBackNext
<1>5. Back(d, t, s) = k
  BY <1>2 DEF Back
<1> HIDE DEF s, k
<1>6. k = Cardinality(Mine(d, exp, t, s))
  <2>1. BinHolds(bins[<<t, s>>], d, exp, t, s, ChunkSize, k)
    BY <1>2, <1>3, <1>5 DEF BackHolds
  <2>2. Len(bins[<<t, s>>]) + k = Cardinality(Mine(d, exp, t, s))
    BY <2>1 DEF BinHolds, Mine
  <2>3. Len(bins[<<t, s>>]) = 0
    BY <1>4
  <2> QED
    BY <1>2, <2>2, <2>3
<1>7. OmpTypes'
  <2>1. iter' \in [OmpThreads -> Nat] /\ written' \in [OmpThreads -> Nat]
    BY <1>1, <1>2, <1>4 DEF OmpTypes
  <2> QED
    BY <1>1, <1>4, <2>1 DEF OmpTypes
<1>8. ASSUME NEW u \in OmpThreads, NEW r \in Symbols
      PROVE  Back(d, u, r)' = Back(d, u, r)
  <2>1. CASE u = t
    <3>1. iter'[t] = s + 1 /\ written'[t] = 0 /\ iter[t] = s /\ written[t] = k
      BY <1>1, <1>4 DEF OmpTypes, s, k
    <3>2. r \in Nat
      BY Chunks DEF Symbols
    <3>3. Back(d, t, r) = IF r < s THEN Cardinality(Mine(d, exp, t, r)) ELSE IF r = s THEN k ELSE 0
      BY <3>1 DEF Back
    <3>4. Back(d, t, r)' = IF r < s + 1 THEN Cardinality(Mine(d, exp, t, r))
                           ELSE IF r = s + 1 THEN 0 ELSE 0
      BY <1>4, <3>1 DEF Back
    <3>5. CASE r < s
      BY <1>2, <2>1, <3>2, <3>3, <3>4, <3>5
    <3>6. CASE r = s
      BY <1>2, <1>6, <2>1, <3>3, <3>4, <3>6
    <3>7. CASE r > s
      <4>1. ~(r < s) /\ ~(r < s + 1) /\ r # s
        BY <1>2, <3>2, <3>7
      <4> QED
        BY <2>1, <3>3, <3>4, <4>1
    <3> QED
      BY <1>2, <3>2, <3>5, <3>6, <3>7
  <2>2. CASE u # t
    <3>1. iter'[u] = iter[u] /\ written'[u] = written[u]
      BY <1>1, <1>4, <2>2 DEF OmpTypes
    <3> QED
      BY <1>4, <3>1 DEF Back
  <2> QED
    BY <2>1, <2>2
<1>9. BackHolds(d)'
  BY <1>3, <1>4, <1>8 DEF BackHolds
<1>10. BackInv'
  BY <1>3, <1>4, <1>9 DEF BackInv
<1> QED
  BY <1>4, <1>7, <1>10 DEF OmpInv, WholeInv, ClearInv, BinInv, SumInv, DoneInv

\* Behind the barrier every element is in its place: the array is sorted by one
\* more digit, and the bins are empty.
LEMMA BackBarrierKeepsInv == ASSUME OmpInv, OmpBackBarrier PROVE OmpInv'
<1>1. OmpTypes /\ BackInv /\ region = "back"
  BY DEF OmpInv, OmpBackBarrier
<1>2. /\ \A t \in OmpThreads : iter[t] = Base
      /\ iter' = [t \in OmpThreads |-> 0] /\ written' = [t \in OmpThreads |-> 0]
      /\ exp' = exp * Base
      /\ region' = IF \E i \in Indices : given[i] \div (exp * Base) > 0 THEN "clear" ELSE "done"
      /\ bins' = bins /\ data' = data /\ sums' = sums /\ given' = given
  BY DEF OmpBackBarrier, NextRegion, AllDid
<1>3. PICK d \in Arrays : IsPermutation(d, given) /\ SortedBy(d, exp) /\ BackHolds(d)
  BY <1>1 DEF BackInv
<1>4. exp \in Nat \ {0} /\ data \in Arrays /\ given \in Arrays
  BY <1>1 DEF OmpTypes
<1>5. exp' \in Nat \ {0}
  BY <1>2, <1>4, Chunks
<1>6. ASSUME NEW t \in OmpThreads, NEW s \in Symbols
      PROVE  /\ bins[<<t, s>>] = <<>>
             /\ \A i \in Mine(d, exp, t, s) : data[Place(d, exp, i)] = d[i]
  <2>1. Back(d, t, s) = Cardinality(Mine(d, exp, t, s))
    <3>1. s < iter[t]
      BY <1>2, Chunks DEF Symbols
    <3> QED
      BY <3>1 DEF Back
  <2>2. BinHolds(bins[<<t, s>>], d, exp, t, s, ChunkSize, Back(d, t, s))
    BY <1>3 DEF BackHolds
  <2>3. Len(bins[<<t, s>>]) + Cardinality(Mine(d, exp, t, s)) = Cardinality(Mine(d, exp, t, s))
    BY <2>1, <2>2 DEF BinHolds, Mine
  <2>4. bins[<<t, s>>] \in Seq(SortValues)
    BY <1>1 DEF OmpTypes
  <2>5. Len(bins[<<t, s>>]) = 0
    BY <2>3, <2>4, Countable
  <2>6. bins[<<t, s>>] = <<>>
    BY <2>4, <2>5, EmptySeq
  <2>7. ASSUME NEW i \in Mine(d, exp, t, s) PROVE data[Place(d, exp, i)] = d[i]
    <3>1. Place(d, exp, i) < Offset(d, exp, t, s) + Back(d, t, s)
      BY <1>4, <2>1, PlaceRange
    <3> QED
      BY <1>3, <3>1 DEF BackHolds
  <2> QED
    BY <2>6, <2>7
<1>7. ASSUME NEW i \in Indices PROVE data[Place(d, exp, i)] = d[i]
  <2>1. PICK t \in OmpThreads : t * ChunkSize <= i /\ i < t * ChunkSize + ChunkSize
    BY InShare
  <2>2. i \in Mine(d, exp, t, Digit(d, exp, i)) /\ Digit(d, exp, i) \in Symbols
    BY <1>4, <2>1, DigitRange DEF Mine, Taken
  <2> QED
    BY <1>6, <2>2
<1>8. IsPermutation(data, given) /\ SortedBy(data, exp * Base)
  BY <1>3, <1>4, <1>7, OneMoreDigit
<1>9. region' \in {"clear", "done"}
  BY <1>2
<1>10. OmpTypes'
  BY <1>1, <1>2, <1>5, <1>9 DEF OmpTypes
<1>11. WholeInv'
  BY <1>2, <1>8 DEF WholeInv
<1>12. ClearInv'
  <2>1. ASSUME NEW b \in OmpThreads \X Symbols PROVE bins[b] = <<>>
    <3>1. b = <<b[1], b[2]>> /\ b[1] \in OmpThreads /\ b[2] \in Symbols
      OBVIOUS
    <3> QED
      BY <1>6, <3>1
  <2> QED
    BY <1>2, <2>1 DEF ClearInv
<1>13. DoneInv'
  <2>1. SUFFICES ASSUME region' = "done" PROVE \A i, j \in Indices : i < j => data[i] <= data[j]
    BY <1>2 DEF DoneInv
  <2>2. \A i \in Indices : ~(given[i] \div (exp * Base) > 0)
    BY <1>2, <2>1
  <2> DEFINE e == exp * Base
  <2>3. e \in Nat \ {0}
    BY <1>2, <1>5
  <2> HIDE DEF e
  <2>4. IsPermutation(data, given) /\ SortedBy(data, e) /\ \A i \in Indices : ~(given[i] \div e > 0)
    BY <1>8, <2>2 DEF e
  <2> QED
    BY <1>4, <2>3, <2>4, NoDigitsLeft
<1> QED
  BY <1>9, <1>10, <1>11, <1>12, <1>13 DEF OmpInv, BinInv, SumInv, BackInv

-----------------------------------------------------------------------------
\* In every state the array, the bins and the offsets are as OmpInv says.
THEOREM OmpInvariant == OmpSpec => []OmpInv
<1>1. OmpInit => OmpInv
  <2> SUFFICES ASSUME OmpInit PROVE OmpInv
    OBVIOUS
  <2>1. /\ data \in Arrays /\ given = data /\ exp = 1
        /\ bins = [b \in OmpThreads \X Symbols |-> <<>>]
        /\ sums = [b \in OmpThreads \X Symbols |-> 0]
        /\ iter = [t \in OmpThreads |-> 0] /\ written = [t \in OmpThreads |-> 0]
        /\ region = IF \E i \in Indices : data[i] > 0 THEN "clear" ELSE "done"
    BY DEF OmpInit, Arrays
  <2>2. <<>> \in Seq(SortValues) /\ region \in {"clear", "done"}
    BY <2>1
  <2>3. OmpTypes
    BY <2>1, <2>2 DEF OmpTypes
  <2>4. \A i \in Indices : data[i] \in Nat
    BY <2>1, Chunks DEF Arrays
  <2>5. IsPermutation(data, given)
    <3> DEFINE p == [i \in Indices |-> i]
    <3>1. p \in [Indices -> Indices] /\ \A i, j \in Indices : p[i] = p[j] => i = j
      OBVIOUS
    <3>2. \A i \in Indices : data[p[i]] = given[i]
      BY <2>1
    <3> HIDE DEF p
    <3>3. p \in Bijection(Indices, Indices)
      BY <3>1, InjectionIsBijection
    <3> QED
      BY <3>2, <3>3 DEF IsPermutation
  <2>6. SortedBy(data, exp)
    <3>1. ASSUME NEW x \in Nat PROVE x % 1 = 0
      OBVIOUS
    <3>2. \A i \in Indices : data[i] % exp = 0
      BY <2>1, <2>4, <3>1
    <3> QED
      BY <3>2 DEF SortedBy
  <2>7. DoneInv
    <3>1. region = "done" => \A i \in Indices : ~(data[i] > 0)
      BY <2>1
    <3>2. region = "done" => \A i \in Indices : data[i] = 0
      BY <2>4, <3>1
    <3> QED
      BY <3>2 DEF DoneInv
  <2>8. ClearInv
    BY <2>1 DEF ClearInv
  <2> QED
    BY <2>2, <2>3, <2>5, <2>6, <2>7, <2>8 DEF OmpInv, WholeInv, BinInv, SumInv, BackInv
<1>2. OmpInv /\ [OmpNext]_ompVars => OmpInv'
  <2> SUFFICES ASSUME OmpInv, [OmpNext]_ompVars PROVE OmpInv'
    OBVIOUS
  <2>1. CASE UNCHANGED ompVars
    BY <2>1 DEF OmpInv, OmpTypes, WholeInv, ClearInv, BinInv, SumInv, BackInv, BackHolds, Back,
       DoneInv, ompVars
  <2>2. ASSUME NEW t \in OmpThreads, OmpClear(t) \/ OmpBin(t) \/ OmpBack(t) \/ OmpBackNext(t)
        PROVE  OmpInv'
    BY <2>2, ClearKeepsInv, BinKeepsInv, BackKeepsInv, BackNextKeepsInv
  <2>3. CASE OmpClearBarrier
    BY <2>3, ClearBarrierKeepsInv
  <2>4. CASE OmpBinBarrier
    BY <2>4, BinBarrierKeepsInv
  <2>5. CASE OmpSums
    BY <2>5, SumsKeepInv
  <2>6. CASE OmpBackBarrier
    BY <2>6, BackBarrierKeepsInv
  <2> QED
    BY <2>1, <2>2, <2>3, <2>4, <2>5, <2>6 DEF OmpNext
<1> QED
  BY <1>1, <1>2, PTL DEF OmpSpec

\* A permutation has every number as often.
LEMMA SameOccurrences ==
  ASSUME NEW d \in Arrays, NEW g \in Arrays, IsPermutation(d, g), NEW v
  PROVE  Occurrences(d, v) = Occurrences(g, v)
<1> DEFINE D == {i \in Indices : d[i] = v}
           G == {i \in Indices : g[i] = v}
<1>1. PICK p \in Bijection(Indices, Indices) : \A i \in Indices : d[p[i]] = g[i]
  BY DEF IsPermutation
<1>2. /\ p \in [Indices -> Indices] /\ \A i, j \in Indices : p[i] = p[j] => i = j
      /\ \A j \in Indices : \E i \in Indices : p[i] = j
  BY Fun_BijectionProperties
<1> DEFINE f == [i \in G |-> p[i]]
<1>3. f \in [G -> D] /\ \A i, j \in G : f[i] = f[j] => i = j
  BY <1>1, <1>2
<1>4. ASSUME NEW j \in D PROVE \E i \in G : f[i] = j
  <2>1. PICK i \in Indices : p[i] = j
    BY <1>2
  <2>2. i \in G
    BY <1>1, <2>1
  <2> QED
    BY <2>1, <2>2
<1>5. IsFiniteSet(G) /\ DOMAIN d = Indices /\ DOMAIN g = Indices
  BY FS_Subset, Chunks DEF Arrays
<1> HIDE DEF f, D, G
<1>6. f \in Injection(G, D)
  BY <1>3, Fun_IsInj
<1>7. f \in Surjection(G, D)
  BY <1>3, <1>4, Fun_IsSurj
<1>8. f \in Bijection(G, D)
  BY <1>6, <1>7 DEF Bijection
<1>9. ExistsBijection(G, D)
  BY <1>8 DEF ExistsBijection
<1>10. Cardinality(D) = Cardinality(G)
  BY <1>5, <1>9, FS_Bijection
<1> QED
  BY <1>5, <1>10 DEF D, G, Occurrences

\* A full bin has every number with its digit as often as the thread's share.
LEMMA FullBin ==
  ASSUME NEW d \in Arrays, NEW e \in Nat \ {0}, NEW t \in OmpThreads, NEW s \in Symbols, NEW v,
         NEW b \in Seq(SortValues), BinHolds(b, d, e, t, s, ChunkSize, 0)
  PROVE  Occurrences(b, v)
           = Cardinality({i \in Share(t) : d[i] = v /\ (v \div e) % Base = s})
<1> DEFINE S == {m \in 1 .. Len(b) : b[m] = v}
           T == {i \in Share(t) : d[i] = v /\ (v \div e) % Base = s}
           A == Mine(d, e, t, s)
           o == Offset(d, e, t, s)
           P(i) == Place(d, e, i)
<1>1. T = {i \in A : d[i] = v}
  <2>1. ASSUME NEW i PROVE i \in Share(t) <=> i \in Indices /\ t * ChunkSize <= i /\ i < t * ChunkSize + ChunkSize
    <3>1. t \in Nat /\ t <= NThreads - 1
      BY Chunks DEF OmpThreads
    <3>2. (t + 1) * ChunkSize = t * ChunkSize + ChunkSize /\ t * ChunkSize \in Nat
      BY <3>1, Chunks
    <3>3. t * ChunkSize + (ChunkSize - 1) \in Indices
      BY ShareOf, Chunks
    <3> DEFINE x == t * ChunkSize
               y == (t + 1) * ChunkSize
    <3>4. x + ChunkSize - 1 <= NElts - 1 /\ x \in Nat /\ y = x + ChunkSize
      BY <3>2, <3>3, Chunks DEF Indices
    <3>5. Share(t) = x .. y - 1
      BY DEF Share
    <3> HIDE DEF x, y
    <3>6. i \in Share(t) <=> i \in Indices /\ x <= i /\ i < x + ChunkSize
      BY <3>4, <3>5, Chunks DEF Indices
    <3> QED
      BY <3>6 DEF x
  <2> QED
    BY <2>1 DEF Mine, Taken, Digit
<1>2. /\ Len(b) = Cardinality(A) /\ Len(b) \in Nat
      /\ \A m \in 1 .. Len(b) : \E i \in A : P(i) = o + 0 + m - 1 /\ b[m] = d[i]
  <2>1. Len(b) \in Nat /\ Len(b) + 0 = Cardinality(A)
    BY DEF BinHolds, Mine
  <2> QED
    BY <2>1 DEF BinHolds, Mine
<1>3. o \in Nat /\ \A i \in A : P(i) \in Nat
  BY Countable
<1>4. \A i \in A : o <= P(i) /\ P(i) < o + Cardinality(A)
  BY PlaceRange
<1>5. \A i, j \in A : P(i) = P(j) => i = j
  BY PlaceRange, PlacesDiffer
<1>6. IsFiniteSet(A)
  BY Countable
<1> HIDE DEF T, A, o, P
<1> DEFINE f == [i \in T |-> P(i) - o + 1]
<1>7. ASSUME NEW i \in T PROVE P(i) - o + 1 \in S
  <2>1. i \in A /\ d[i] = v
    BY <1>1
  <2>2. P(i) \in Nat /\ o <= P(i) /\ P(i) < o + Cardinality(A)
    BY <1>3, <1>4, <2>1
  <2>3. P(i) - o + 1 \in 1 .. Len(b)
    BY <1>2, <1>3, <2>2
  <2>4. PICK j \in A : P(j) = o + 0 + (P(i) - o + 1) - 1 /\ b[P(i) - o + 1] = d[j]
    BY <1>2, <2>3
  <2>5. P(j) = P(i)
    BY <1>3, <2>2, <2>4
  <2>6. j = i
    BY <1>5, <2>1, <2>5
  <2> QED
    BY <2>1, <2>3, <2>4, <2>6
<1>8. f \in [T -> S]
  BY <1>7
<1>9. ASSUME NEW i \in T, NEW j \in T, f[i] = f[j] PROVE i = j
  <2>1. i \in A /\ j \in A /\ P(i) - o + 1 = P(j) - o + 1
    BY <1>1, <1>9
  <2>2. P(i) = P(j)
    BY <1>3, <2>1
  <2> QED
    BY <1>5, <2>1, <2>2
<1>10. ASSUME NEW m \in S PROVE \E i \in T : f[i] = m
  <2>1. m \in 1 .. Len(b) /\ b[m] = v
    OBVIOUS
  <2>2. PICK i \in A : P(i) = o + 0 + m - 1 /\ b[m] = d[i]
    BY <1>2, <2>1
  <2>3. i \in T /\ P(i) - o + 1 = m
    BY <1>1, <1>3, <2>1, <2>2
  <2> QED
    BY <2>3
<1>11. IsFiniteSet(T)
  BY <1>1, <1>6, FS_Subset
<1>12. DOMAIN b = 1 .. Len(b)
  OBVIOUS
<1> HIDE DEF f, S
<1>13. f \in Injection(T, S)
  BY <1>8, <1>9, Fun_IsInj
<1>14. f \in Surjection(T, S)
  BY <1>8, <1>10, Fun_IsSurj
<1>15. f \in Bijection(T, S)
  BY <1>13, <1>14 DEF Bijection
<1>16. ExistsBijection(T, S)
  BY <1>15 DEF ExistsBijection
<1>17. Cardinality(S) = Cardinality(T)
  BY <1>11, <1>16, FS_Bijection
<1> QED
  BY <1>12, <1>17 DEF S, T, Occurrences

\* The parallel sort sorts: between two steps the array is a permutation of what
\* it was given, sorted by the digits done; each thread's bins hold its share;
\* no two threads write back to one place; and in the end it is sorted
\* (omp_radix_sorter_step, omp_radix_sorter_exec).
THEOREM ParallelSorts == OmpSpec => []ParallelSortSorts
<1>1. ASSUME OmpInv PROVE ParallelSortSorts
  <2>1. /\ OmpTypes /\ data \in Arrays /\ given \in Arrays /\ exp \in Nat \ {0}
        /\ bins \in [OmpThreads \X Symbols -> Seq(SortValues)]
        /\ written \in [OmpThreads -> Nat]
    BY <1>1 DEF OmpInv, OmpTypes
  <2>2. ASSUME region \in {"clear", "bin", "done"}
        PROVE  /\ \A v \in SortValues : Occurrences(data, v) = Occurrences(given, v)
               /\ \A i, j \in Indices : i < j => data[i] % exp <= data[j] % exp
    <3>1. IsPermutation(data, given) /\ SortedBy(data, exp)
      BY <1>1, <2>2 DEF OmpInv, WholeInv
    <3> QED
      BY <2>1, <3>1, SameOccurrences DEF SortedBy
  <2>3. region = "done" => \A i, j \in Indices : i < j => data[i] <= data[j]
    BY <1>1 DEF OmpInv, DoneInv
  <2>4. ASSUME region = "sum", NEW t \in OmpThreads, NEW v \in SortValues, NEW s \in Symbols
        PROVE  Occurrences(bins[<<t, s>>], v)
                 = Cardinality({i \in Share(t) : data[i] = v /\ Symbol(v) = s})
    <3> DEFINE b == bins[<<t, s>>]
    <3>1. b \in Seq(SortValues) /\ BinHolds(b, data, exp, t, s, ChunkSize, 0)
      BY <1>1, <2>1, <2>4 DEF OmpInv, SumInv
    <3> HIDE DEF b
    <3>2. Occurrences(b, v) = Cardinality({i \in Share(t) : data[i] = v /\ (v \div exp) % Base = s})
      BY <2>1, <3>1, FullBin
    <3> QED
      BY <3>2 DEF b, Symbol
  <2>5. ASSUME region = "back", NEW t \in OmpThreads, NEW u \in OmpThreads,
               iter[t] < Base, iter[u] < Base,
               bins[<<t, iter[t]>>] # <<>>, bins[<<u, iter[u]>>] # <<>>,
               sums[<<t, iter[t]>>] + written[t] = sums[<<u, iter[u]>>] + written[u]
        PROVE  t = u
    <3>1. PICK d \in Arrays : BackHolds(d)
      BY <1>1, <2>5 DEF OmpInv, BackInv
    <3>2. ASSUME NEW x \in OmpThreads, iter[x] < Base, bins[<<x, iter[x]>>] # <<>>
          PROVE  \E i \in Mine(d, exp, x, iter[x]) :
                   Place(d, exp, i) = sums[<<x, iter[x]>>] + written[x]
      <4> DEFINE s == iter[x]
                 k == written[x]
                 b == bins[<<x, s>>]
      <4>1. s \in Symbols /\ s \in Nat /\ k \in Nat /\ b \in Seq(SortValues)
        <5>1. s \in Symbols
          BY <2>1, <3>2, SymbolOfIter
        <5> QED
          BY <2>1, <5>1 DEF OmpTypes
      <4>2. Back(d, x, s) = k
        BY <4>1 DEF Back
      <4> HIDE DEF s, k
      <4>3. sums[<<x, s>>] = Offset(d, exp, x, s) /\ BinHolds(b, d, exp, x, s, ChunkSize, k)
        BY <3>1, <4>1, <4>2 DEF BackHolds
      <4>4. b # <<>>
        BY <3>2 DEF s
      <4> HIDE DEF b
      <4>5. \E i \in Mine(d, exp, x, s) : Place(d, exp, i) = Offset(d, exp, x, s) + k
        BY <2>1, <4>1, <4>3, <4>4, BinLess
      <4> QED
        BY <4>3, <4>5 DEF s, k
    <3>3. PICK i \in Mine(d, exp, t, iter[t]) :
            Place(d, exp, i) = sums[<<t, iter[t]>>] + written[t]
      BY <2>5, <3>2
    <3>4. PICK j \in Mine(d, exp, u, iter[u]) :
            Place(d, exp, j) = sums[<<u, iter[u]>>] + written[u]
      BY <2>5, <3>2
    <3>5. i \in Indices /\ j \in Indices /\ i \in Int
      BY DEF Mine, Taken, Indices
    <3>6. i = j
      BY <2>1, <2>5, <3>3, <3>4, <3>5, PlacesDiffer
    <3>7. /\ t * ChunkSize <= i /\ i < t * ChunkSize + ChunkSize
          /\ u * ChunkSize <= i /\ i < u * ChunkSize + ChunkSize
      BY <3>6 DEF Mine, Taken
    <3> QED
      BY <3>5, <3>7, SharesDiffer
  <2> QED
    BY <2>2, <2>3, <2>4, <2>5 DEF ParallelSortSorts
<1> QED
  BY <1>1, OmpInvariant, PTL
=============================================================================

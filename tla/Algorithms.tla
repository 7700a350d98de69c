----------------------------- MODULE Algorithms -----------------------------
(***************************************************************************)
(* The algorithms of modules Sorting and DynProg, and the functions of     *)
(* modules Text and Utils, on all inputs up to a length: two words that    *)
(* grow letter by letter.                                                  *)
(***************************************************************************)
EXTENDS DynProg, Text, Utils

CONSTANTS Letters,  \* small numbers from 0 on
          MaxWord   \* the longest word

VARIABLES word1, word2
wordVars == <<word1, word2>>

WordInit == word1 = <<>> /\ word2 = <<>>

WordNext ==
  \E c \in Letters :
    \/ Len(word1) < MaxWord /\ word1' = Append(word1, c) /\ UNCHANGED word2
    \/ Len(word2) < MaxWord /\ word2' = Append(word2, c) /\ UNCHANGED word1

\* word1 as a linked list, as an array, and as an array of numbers that need
\* several digits in base 2.  A tag is the place an element had.
AsNodes   == [i \in DOMAIN word1 |-> <<word1[i], i>>]
AsArray   == [i \in 0 .. Len(word1) - 1 |-> AsNodes[i + 1]]
AsNumbers == [i \in 0 .. Len(word1) - 1 |-> 2 * word1[i + 1] + 1]
Last0     == Len(word1) - 1

\* Every sort of sort.c orders every array, or list, and loses no element;
\* those of lists keep equal elements in their order; qsort_iter never needs
\* more stack than it has; and both searches of a sorted array find exactly
\* what is there.  radix_sort has this only for arrays whose first element is
\* the zero that it puts in its place.
SortsSort ==
  /\ SortsTo(AsArray, QSortRec(AsArray, 0, Last0))
  /\ word1 # <<>> => SortsTo(AsArray, QSortIter(AsArray, Last0).arr)
  /\ Len(word1) > 1 => QSortIter(AsArray, Last0).depth <= Len(word1)
  /\ AsSeq(InsertionSort(AsArray, Len(word1))) = StableSort(AsNodes)
  /\ MergeSortRec(AsNodes) = StableSort(AsNodes)
  /\ MergeSortIter(AsNodes, 1) = StableSort(AsNodes)
  /\ LET zeroed  == [AsNumbers EXCEPT ![0] = 0]
         radix   == RadixSort(zeroed, 2)
         pair(a) == [i \in DOMAIN a |-> <<a[i], 0>>]
     IN  word1 # <<>> => SortsTo(pair(zeroed), pair(radix))
  /\ LET sorted == [i \in 0 .. Last0 |-> StableSort(AsNodes)[i + 1]]
     IN  \A k \in Letters :
           /\ FindsIn(sorted, <<k, 0>>, BSearchIter(sorted, <<k, 0>>, 0, Last0))
           /\ FindsIn(sorted, <<k, 0>>, BSearchRec(sorted, <<k, 0>>, 0, Last0))

IsLcs(s, x, y) ==
  s \in Subsequences(x) \cap Subsequences(y) /\ Len(s) = LongestCommon(x, y)

\* The tables of lcs.c and edit_dist.c give the longest common subsequence and
\* the edit distance when the second word is the shorter one (rows that are
\* too close together overwrite each other otherwise), by both methods; and
\* mcm_opt.c finds the least number of multiplications, and names each matrix
\* once.
DynProgOptimal ==
  /\ Len(word2) < Len(word1) =>
       /\ LcsIter(word1, word2).size = LongestCommon(word1, word2)
       /\ IsLcs(LcsIter(word1, word2).sequence, word1, word2)
       /\ EditDistIter(word1, word2) = LeastEdits(word1, word2)
       /\ EditDistRec(word1, word2) = LeastEdits(word1, word2)
  /\ Len(word2) <= Len(word1) => LcsRec(word1, word2) = LongestCommon(word1, word2)
  /\ Len(word1) > 2 =>
       LET dims == [i \in DOMAIN word1 |-> 3 * word1[i] + i]
           n    == Len(dims) - 1
           c    == McmOptimize(dims)
       IN  /\ c[1, n].cost = LeastMultiplications(dims)
           /\ Len(McmReport(c, 1, n)) = n /\ Range(McmReport(c, 1, n)) = 1 .. n

\* The algorithms of the library compute what their names say on every input
\* of the bounds: SortsSort and DynProgOptimal (sort.c, search.c, lcs.c,
\* edit_dist.c, mcm_opt.c).
AlgorithmsMeetDefinitions == SortsSort /\ DynProgOptimal

-----------------------------------------------------------------------------
\* The words as text, as bytes that depend on their place, and as numbers.
AsText(w)  == [i \in DOMAIN w |-> HexDigits[w[i] + 11]]
AsBytes(w) == [i \in DOMAIN w |-> (7 * w[i] + i) % 2 ^ ByteBits]
AsNumber(w) == FoldLeft(LAMBDA n, c : 5 * n + 3 * c, 0, w)

\* The specifications of module Text, a sign only in base 10, without those
\* that name a precision and do not use it.
IntegerSpecs ==
  {s \in Specs({"ZEROPAD", "LEFT", "PLUS", "SPACE", "HASH", "PRECISION", "SIGNED"}, {0, 2, 4}, {0, 3}) :
     /\ Has(s, "PRECISION") \/ s.precision = 0
     /\ Has(s, "SIGNED") => s.base = 10}

\* Zero in base 2 with a precision keeps its prefix, as in base 16 it does not.
KeepsPrefix(n, s) == n = 0 /\ s.base = 2 /\ {"HASH", "PRECISION"} \subseteq s.flags

\* How a specification is written: flags, width, precision, specifier.
FlagText(s) == FlattenSeq([k \in 1 .. 5 |->
  LET c == <<"+", "#", "0", " ", "-">>[k] IN IF Has(s, FlagOf(c)) THEN <<c>> ELSE <<>>])
Specifier(s) == CASE s.base = 16 -> "x" [] s.base = 8 -> "o" [] s.base = 2 -> "b"
                  [] OTHER -> IF Has(s, "SIGNED") THEN "d" ELSE "u"
SpecText(s) ==
  <<"%">> \o FlagText(s) \o (IF s.width = 0 THEN <<>> ELSE <<HexDigits[s.width + 1]>>)
    \o (IF Has(s, "PRECISION") THEN <<".", HexDigits[s.precision + 1]>> ELSE <<>>) \o <<Specifier(s)>>

\* The same with width and precision from the arguments, a width that aligns
\* left being negative, and a length, text around it and a second specification.
StarText(s) == <<"a", "%">> \o FlagText([s EXCEPT !.flags = @ \ {"LEFT"}])
                 \o <<"*", ".", "*", "h", "h", Specifier(s), "%", "%", "%", "2", "s">>
StarArgs(n, s) == <<IF Has(s, "LEFT") THEN -s.width ELSE s.width, s.precision, n, <<"z">>>>

\* Every integer is printed as C prints it with every combination of flags,
\* width and precision, whatever of them the code drops, takes back or turns
\* round (print_integer_finalization); strings are padded on their side; of what is printed a buffer gets what
\* it has room for; and conversions to text and back return the number.
PrintsAsC ==
  word2 = <<>> =>
    LET n == AsNumber(word1) IN
    /\ \A s \in IntegerSpecs :
         /\ ~KeepsPrefix(n, s) => Format(SpecText(s), <<n>>) = AsInC(n, s)
         /\ Has(s, "SIGNED") => Format(SpecText(s), <<-n>>) = AsInC(-n, s)
         /\ LET low == Narrowed(n, 8, Has(s, "SIGNED"))
            IN  Has(s, "PRECISION") /\ s.width > 0 /\ ~KeepsPrefix(low, s) =>
                  Format(StarText(s), StarArgs(n, s)) =
                    <<"a">> \o AsInC(low, s) \o <<"%", " ", "z">>
    /\ \A k \in {n, -n} : Atoi(Itoad(k), 10) = k
    /\ Atoi(Itoax(n, TRUE), 16) = n
    /\ \A s \in {t \in IntegerSpecs : t.base = 16} :
         LET out == IF Has(s, "PRECISION") THEN Cut(AsText(word1), s.precision) ELSE AsText(word1)
             p   == PrintString(AsText(word1), s)
         IN  /\ Len(p) = Max({s.width, Len(out)})
             /\ out = IF Has(s, "LEFT") THEN Cut(p, Len(out)) ELSE SubSeq(p, Len(p) - Len(out) + 1, Len(p))
    /\ \A size \in 0 .. MaxWord :
         LET r == Snprintf(AsText(word1), size)
         IN  /\ r.pos = Len(word1) /\ Len(r.buffer) <= size
             /\ size > 0 => r.buffer = Append(SubSeq(AsText(word1), 1, Len(r.buffer) - 1), "NUL")

\* Replacing a pattern by a new letter leaves none of it, and putting it back
\* restores the text; strings are ordered by the first difference within n;
\* strncpy fills its destination; reversal is an involution (string.c).
TextIsEdited ==
  LET s == AsText(word1)  t == AsText(word2)
      rank(c) == IF c = "NUL" THEN 0 ELSE 1 + Digit(c)
  IN  /\ t # <<>> => LET r == StrRep(s, t, <<"z">>)
                     IN  StrStr(r, t) = 0 /\ StrRep(r, <<"z">>, t) = s
      /\ \A n \in 1 .. MaxWord :
           LET d == StrNCmp(s, t, n)
               less(a, b) == \E k \in 1 .. n : /\ SubSeq(StrNCpy(a, n), 1, k - 1) = SubSeq(StrNCpy(b, n), 1, k - 1)
                                               /\ rank(StrNCpy(a, n)[k]) < rank(StrNCpy(b, n)[k])
           IN  /\ rank(d[1]) < rank(d[2]) <=> less(s, t)
               /\ rank(d[1]) = rank(d[2]) <=> StrNCpy(s, n) = StrNCpy(t, n)
      /\ s = t <=> Len(s) = Len(t) /\ StrNCmp(s, t, MaxWord) = StrCmp(s, s)
      /\ StrRev(StrRev(s)) = s /\ \A c \in Range(s) : StrStr(s, <<c>>) = StrChr(s, c)

OneChange(v, w) ==
  Len(v) = Len(w) /\ Cardinality({i \in DOMAIN v : v[i] # w[i]}) = 1

\* The table-driven, the bitwise and the seeded CRC agree, also piece by
\* piece; every checksum and hash sees a change in one place (checksum.c, hash.c).
ChecksumsAgree ==
  LET b == AsBytes(word1)  c == AsBytes(word2) IN
  /\ CrcEthl(b) = CrcEth(b) /\ CrcBrown(b, 0) = Complemented(CrcEth(b))
  /\ CrcBrown(b \o c, 0) = CrcBrown(c, Complemented(CrcBrown(b, 0)))
  /\ OneChange(b, c) => /\ XChks(b, Ones) # XChks(c, Ones) /\ AChks(b, Ones) # AChks(c, Ones)
                        /\ CrcEth(b) # CrcEth(c)
                        /\ HashDefault(b) # HashDefault(c)
                        /\ HashFnv1a(b) # HashFnv1a(c) /\ HashDjb(b) # HashDjb(c)

\* The permutations are each seen once, and the array is left as it was;
\* reflections and byte swaps undo themselves (utils.c, mem.c).
PermutationsSeen ==
  LET w == AsNodes  p == Permute(w, <<>>, 1)  n == AsNumber(word1) % 2 ^ RegBits IN
  /\ p.arr = w
  /\ Len(p.seen) = Cardinality(Range(p.seen))
  /\ Range(p.seen) = {[i \in DOMAIN w |-> w[f[i]]] : f \in Bijection(DOMAIN w, DOMAIN w)}
  /\ Reflect(Reflect(n, RegBits), RegBits) = n
  /\ \A k \in {2, 4} : Len(w) % k = 0 =>
       ByteSwap(ByteSwap(w, k), k) = w /\ (Len(w) = k => ByteSwap(w, k) = Reverse(w))

\* Time arithmetic in seconds and nanoseconds is that of nanoseconds (time.c).
TimesAddUp ==
  LET m == AsNumber(word1)  n == AsNumber(word2)
      a == FromMonons(m)    b == FromMonons(n)
  IN  /\ TsAdd(a, b) = FromMonons(m + n)
      /\ m <= n => TsDiff(a, b) = FromMonons(n - m)
      /\ Monons(TsDiff(a, b)) = n - m
      /\ TsCmp(a, b) = IF m > n THEN 1 ELSE IF m < n THEN -1 ELSE 0

\* Text, checksums, permutations and times are what they are defined to be on
\* every input of the bounds: the conjuncts say how (stdio.c, string.c,
\* printf_internal.c, checksum.c, utils.c, mem.c, time.c).
UtilitiesMeetDefinitions ==
  word1 # <<>> =>
    PrintsAsC /\ TextIsEdited /\ ChecksumsAgree /\ PermutationsSeen /\ TimesAddUp
=============================================================================

------------------------------- MODULE OmpRadix -------------------------------
(***************************************************************************)
(* The multi-threaded radix sort of src/src/multithread/omp_radix_sort.c.  *)
(* A step sorts by one digit in three parallel regions with a barrier      *)
(* behind each: every thread empties its bins, the threads put the         *)
(* elements of their shares into bins, and after the prefix sums the       *)
(* threads write the bins back.  The threads' accesses to the data and to  *)
(* the bins interleave.  A bin is a FIFO (src/src/ds/fifo.c).              *)
(***************************************************************************)
EXTENDS Integers, Sequences, FiniteSets, SequencesExt

CONSTANTS
  NThreads,   \* params->n_threads
  Base,       \* params->base
  NElts,      \* params->n_elts
  SortValues  \* the numbers in the array

\* The bins are for equal shares: with a remainder its elements would go to
\* bins behind the last, and a base of one has no end to its digits.
ASSUME OmpAssumption ==
  /\ NThreads \in Nat \ {0} /\ NElts \in Nat \ {0} /\ NElts % NThreads = 0
  /\ Base \in Nat \ {0, 1} /\ SortValues \subseteq Nat

ChunkSize == NElts \div NThreads
OmpThreads == 0 .. NThreads - 1
Symbols == 0 .. Base - 1
Indices == 0 .. NElts - 1

VARIABLES
  data,     \* sorter->data, which is sorted in place
  bins,     \* sorter->bins, by thread and symbol
  sums,     \* sorter->cum_prefix_sums, by thread and symbol
  exp,      \* the digit the step is about: 1, base, base * base, ...
  region,   \* "clear", "bin", "sum" (by one thread), "back" or "done"
  iter,     \* how many iterations of the region's loop each thread has done
  written,  \* how many elements each thread wrote back from its current bin
  given     \* ghost: the data before the sort

ompVars == <<data, bins, sums, exp, region, iter, written, given>>

\* The first region clears the bins of every thread, so that the first step
\* may start with them empty.  There is no step for an array of zeros.
OmpInit ==
  /\ data \in [Indices -> SortValues] /\ given = data
  /\ bins = [b \in OmpThreads \X Symbols |-> <<>>]
  /\ sums = [b \in OmpThreads \X Symbols |-> 0]
  /\ exp = 1
  /\ region = IF \E i \in Indices : data[i] > 0 THEN "clear" ELSE "done"
  /\ iter = [t \in OmpThreads |-> 0] /\ written = [t \in OmpThreads |-> 0]

Symbol(value) == (value \div exp) % Base

\* schedule(static): thread t has the t-th of equal contiguous shares.
Share(t) == t * ChunkSize .. (t + 1) * ChunkSize - 1

AllDid(n) == \A t \in OmpThreads : iter[t] = n
NextRegion(r) ==
  /\ region' = r
  /\ iter' = [t \in OmpThreads |-> 0] /\ written' = [t \in OmpThreads |-> 0]

\* fifo_clear of one thread's bins, one after the other.
OmpClear(t) ==
  /\ region = "clear" /\ iter[t] < Base
  /\ bins' = [bins EXCEPT ![<<t, iter[t]>>] = <<>>]
  /\ iter' = [iter EXCEPT ![t] = @ + 1]
  /\ UNCHANGED <<data, sums, exp, region, written, given>>

OmpClearBarrier ==
  /\ region = "clear" /\ AllDid(Base) /\ NextRegion("bin")
  /\ UNCHANGED <<data, bins, sums, exp, given>>

\* fifo_add of an element to the bin that its place and its symbol give; a
\* full bin would refuse it.
OmpBin(t) ==
  LET i   == t * ChunkSize + iter[t]
      bin == <<i \div ChunkSize, Symbol(data[i])>>
  IN  /\ region = "bin" /\ iter[t] < ChunkSize
      /\ bins' = [bins EXCEPT ![bin] = IF Len(@) < ChunkSize THEN Append(@, data[i]) ELSE @]
      /\ iter' = [iter EXCEPT ![t] = @ + 1]
      /\ UNCHANGED <<data, sums, exp, region, written, given>>

OmpBinBarrier ==
  /\ region = "bin" /\ AllDid(ChunkSize) /\ NextRegion("sum")
  /\ UNCHANGED <<data, bins, sums, exp, given>>

\* Mutant of PrefixSum: the first thread's bin of a symbol goes behind the
\* first thread's bin of the one before, not behind the last thread's.
PrefixSumFirst ==
  LET f[n \in 0 .. NThreads * Base - 1] ==
        LET t == n % NThreads  j == n \div NThreads
        IN  IF n = 0 THEN 0
            ELSE IF t = 0 THEN f[n - NThreads] + Len(bins[<<0, j - 1>>])
            ELSE f[n - 1] + Len(bins[<<t - 1, j>>])
  IN  [b \in OmpThreads \X Symbols |-> f[b[2] * NThreads + b[1]]]

\* Where each bin goes: symbol by symbol, and in a symbol thread by thread.
PrefixSum ==
  LET f[n \in 0 .. NThreads * Base - 1] ==
        LET t == n % NThreads  j == n \div NThreads
        IN  IF n = 0 THEN 0
            ELSE IF t = 0 THEN f[n - 1] + Len(bins[<<NThreads - 1, j - 1>>])
            ELSE f[n - 1] + Len(bins[<<t - 1, j>>])
  IN  [b \in OmpThreads \X Symbols |-> f[b[2] * NThreads + b[1]]]

OmpSums ==
  /\ region = "sum" /\ sums' = PrefixSum /\ NextRegion("back")
  /\ UNCHANGED <<data, bins, exp, given>>

\* fifo_remove of one element into its place in the array.
OmpBack(t) ==
  LET bin == <<t, iter[t]>> IN
  /\ region = "back" /\ iter[t] < Base /\ bins[bin] # <<>>
  /\ data' = [data EXCEPT ![sums[bin] + written[t]] = Head(bins[bin])]
  /\ bins' = [bins EXCEPT ![bin] = Tail(@)]
  /\ written' = [written EXCEPT ![t] = @ + 1]
  /\ UNCHANGED <<sums, exp, region, iter, given>>

OmpBackNext(t) ==
  /\ region = "back" /\ iter[t] < Base /\ bins[<<t, iter[t]>>] = <<>>
  /\ iter' = [iter EXCEPT ![t] = @ + 1] /\ written' = [written EXCEPT ![t] = 0]
  /\ UNCHANGED <<data, bins, sums, exp, region, given>>

\* The end of a step: another follows while the largest number, which
\* omp_radix_sorter_exec looked up before the first, has digits left.
OmpBackBarrier ==
  /\ region = "back" /\ AllDid(Base)
  /\ exp' = exp * Base
  /\ NextRegion(IF \E i \in Indices : given[i] \div (exp * Base) > 0 THEN "clear" ELSE "done")
  /\ UNCHANGED <<data, bins, sums, given>>

OmpNext ==
  \/ \E t \in OmpThreads : OmpClear(t) \/ OmpBin(t) \/ OmpBack(t) \/ OmpBackNext(t)
  \/ OmpClearBarrier \/ OmpBinBarrier \/ OmpSums \/ OmpBackBarrier

OmpSpec == OmpInit /\ [][OmpNext]_ompVars

-----------------------------------------------------------------------------
Occurrences(f, v) == Cardinality({i \in DOMAIN f : f[i] = v})

\* Between two steps the array holds the numbers it was given, sorted by the
\* digits done so far, and at the end it is sorted, in whatever order the
\* threads run; each thread's bins hold all of its share, a number in the bin
\* of its symbol; and while bins are written back no two threads are about to
\* write to one place (omp_radix_sorter_step, omp_radix_sorter_exec).
ParallelSortSorts ==
  /\ region \in {"clear", "bin", "done"} =>
       /\ \A v \in SortValues : Occurrences(data, v) = Occurrences(given, v)
       /\ \A i, j \in Indices : i < j => data[i] % exp <= data[j] % exp
  /\ region = "done" => \A i, j \in Indices : i < j => data[i] <= data[j]
  /\ region = "sum" => \A t \in OmpThreads, v \in SortValues, s \in Symbols :
       Occurrences(bins[<<t, s>>], v) =
         Cardinality({i \in Share(t) : data[i] = v /\ Symbol(v) = s})
  /\ region = "back" => \A t, u \in OmpThreads :
       t # u /\ iter[t] < Base /\ iter[u] < Base /\ bins[<<t, iter[t]>>] # <<>>
             /\ bins[<<u, iter[u]>>] # <<>>
         => sums[<<t, iter[t]>>] + written[t] # sums[<<u, iter[u]>>] + written[u]
=============================================================================

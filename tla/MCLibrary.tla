------------------------------ MODULE MCLibrary ------------------------------
(***************************************************************************)
(* The sequential parts of the library, one of them per behaviour: the     *)
(* variable `part` says which, and the others stay in one initial state.   *)
(***************************************************************************)
EXTENDS Iter, BinHeap, HashMap, RawFifo, MultiFifo, Trees, Algorithms, Matrices, Grind,
        Minimon, OmpRadix

VARIABLE part

MCPieces == <<1, 2>>
\* Keys enough for one bucket to overflow into another that has its own.
MCHash(key) == IF key = 2 THEN 1 ELSE 2
MCPairs == {<<1, 1>>, <<1, 2>>, <<2, 1>>, <<3, 2>>, <<4, 1>>}

\* The profiler without flags, resetting on its own, and reporting on its own.
MCGrinders == {"count", "duration", "period"} \X {{"interval", "reset_auto"}}
                \cup {<<"duration", {}>>, <<"period", {"report_auto", "report_req_full"}>>}

\* Lines for the monitor: written, shown, loaded and sent at addresses that are
\* aligned and not, misspelt, erased, cut off by the buffer, or wrong.
Line(k, m) == [keys |-> k, means |-> m]
Nothing == [cmd |-> "none"]
MCMiniLines == {
  Line(<<"w", " ", "0", " ", "5">>, [cmd |-> "write", addr |-> 0, value |-> 5, size |-> 1]),
  Line(<<"w", " ", "2", ",", "0", "x", "1", "0", "3", " ", "2">>,
       [cmd |-> "write", addr |-> 2, value |-> 259, size |-> 2]),
  Line(<<"x", "BS", "w", "r", " ", ",", "6", " ", "1", "2", "a">>,
       [cmd |-> "write", addr |-> 6, value |-> 12, size |-> 1]),
  Line(<<"BS", "w", " ", "0", " ", "9">>, Nothing),
  Line(<<" ", "w", " ", "0", " ", "9">>, Nothing),
  Line(<<"w", " ", "0", " ", "1", "g">>, Nothing),
  Line(<<"r", " ", "0", " ", "1", " ", "1">>, Nothing),
  Line(<<"h", " ", "w", "r", "i", "t", "e", "r", "s", "h", "e", "l", "p">>, Nothing),
  Line(<<"l", "NUL", " ", "1", " ", "3", " ">>, [cmd |-> "load", addr |-> 1, size |-> 3]),
  Line(<<"r", " ", "3", " ", "2">>, [cmd |-> "read", addr |-> 3, size |-> 2]),
  Line(<<"s", " ", "2", " ", "3", " ", "r", "a", "w">>, [cmd |-> "send", addr |-> 2, size |-> 3]),
  Line(<<"s", " ", "2", " ", "5", " ", "t", "e", "x", "t">>, [cmd |-> "send", addr |-> 2, size |-> 5]),
  Line(<<"s", " ", "0", " ", "3", " ", "n", "m", "e", "a">>, [cmd |-> "nmea", addr |-> 0, size |-> 3]),
  Line(<<"s", " ", "0", " ", "3", " ", "h", "e", "x">>, Nothing),
  Line(<<"w", "i", "p", "e", " ", "1", " ", "2", " ", "3", " ", "4">>, Nothing),
  Line(<<"j", " ", "0">>, Nothing)}

Parts == {"ring", "raw", "multififo", "list", "array", "heap", "map", "tree", "word",
          "graph", "dyn", "grind", "minimon", "omp"}

Init ==
  /\ part \in Parts
  /\ RingInit /\ RawInit /\ MfInit /\ WordInit /\ DynInit
  /\ ListInit /\ (part # "list" => listFlags = [pool |-> TRUE, sort |-> TRUE])
  /\ DarrInit /\ (part # "array" => darr = DaNew(0, ArrayMax, "sorted", TRUE))
  /\ HeapInit /\ (part # "heap" => heap.min /\ heap.arr.capacity = 1)
  /\ HashInit /\ (part # "map" => hflags = [linprob |-> TRUE, sorted |-> TRUE])
  /\ TreeInit /\ (part # "tree" => tree = TreeEmpty("rb", TRUE))
  /\ GraphInit /\ (part # "graph" => graph = AdjNew(TRUE, TRUE))
  /\ MiniInit /\ (part # "minimon" => Len(cmds) = 2)
  /\ OmpInit /\ (part # "omp" => \A i \in Indices : data[i] = 0)
  /\ GrindInit
  /\ part # "grind" => grinder = GrindNew("count", {"interval"}, FALSE, 0)
  /\ part = "grind" => /\ <<grinder.mode, grinder.flags>> \in MCGrinders
                       /\ grinder.in_interval => grinder.interval_start = 0

WithRing ==
  /\ part = "ring" /\ RingNext
  /\ UNCHANGED <<rawVars, mfVars, listVars, darrVars, heapVars, hashVars,
                 treeVars, wordVars, graphVars, dynVars, grindVars, miniVars, ompVars>>

WithRaw ==
  /\ part = "raw" /\ RawNext
  /\ UNCHANGED <<ringVars, mfVars, listVars, darrVars, heapVars, hashVars,
                 treeVars, wordVars, graphVars, dynVars, grindVars, miniVars, ompVars>>

WithFifo ==
  /\ part = "multififo" /\ MfNext
  /\ UNCHANGED <<ringVars, rawVars, listVars, darrVars, heapVars, hashVars,
                 treeVars, wordVars, graphVars, dynVars, grindVars, miniVars, ompVars>>

WithList ==
  /\ part = "list" /\ ListNext
  /\ UNCHANGED <<ringVars, rawVars, mfVars, darrVars, heapVars, hashVars,
                 treeVars, wordVars, graphVars, dynVars, grindVars, miniVars, ompVars>>

WithArray ==
  /\ part = "array" /\ DarrNext
  /\ UNCHANGED <<ringVars, rawVars, mfVars, listVars, heapVars, hashVars,
                 treeVars, wordVars, graphVars, dynVars, grindVars, miniVars, ompVars>>

WithHeap ==
  /\ part = "heap" /\ HeapNext
  /\ UNCHANGED <<ringVars, rawVars, mfVars, listVars, darrVars, hashVars,
                 treeVars, wordVars, graphVars, dynVars, grindVars, miniVars, ompVars>>

WithMap ==
  /\ part = "map" /\ HashNext
  /\ UNCHANGED <<ringVars, rawVars, mfVars, listVars, darrVars, heapVars,
                 treeVars, wordVars, graphVars, dynVars, grindVars, miniVars, ompVars>>

WithTree ==
  /\ part = "tree" /\ TreeNext
  /\ UNCHANGED <<ringVars, rawVars, mfVars, listVars, darrVars, heapVars,
                 hashVars, wordVars, graphVars, dynVars, grindVars, miniVars, ompVars>>

WithWord ==
  /\ part = "word" /\ WordNext
  /\ UNCHANGED <<ringVars, rawVars, mfVars, listVars, darrVars, heapVars,
                 hashVars, treeVars, graphVars, dynVars, grindVars, miniVars, ompVars>>

WithGraph ==
  /\ part = "graph" /\ GraphNext
  /\ UNCHANGED <<ringVars, rawVars, mfVars, listVars, darrVars, heapVars,
                 hashVars, treeVars, wordVars, dynVars, grindVars, miniVars, ompVars>>

WithDyn ==
  /\ part = "dyn" /\ DynNext
  /\ UNCHANGED <<ringVars, rawVars, mfVars, listVars, darrVars, heapVars,
                 hashVars, treeVars, wordVars, graphVars, grindVars, miniVars, ompVars>>

WithGrind ==
  /\ part = "grind" /\ GrindNext
  /\ UNCHANGED <<ringVars, rawVars, mfVars, listVars, darrVars, heapVars,
                 hashVars, treeVars, wordVars, graphVars, dynVars, miniVars, ompVars>>

WithMinimon ==
  /\ part = "minimon" /\ MiniNext
  /\ UNCHANGED <<ringVars, rawVars, mfVars, listVars, darrVars, heapVars, hashVars,
                 treeVars, wordVars, graphVars, dynVars, grindVars, ompVars>>

WithOmp ==
  /\ part = "omp" /\ OmpNext
  /\ UNCHANGED <<ringVars, rawVars, mfVars, listVars, darrVars, heapVars, hashVars,
                 treeVars, wordVars, graphVars, dynVars, grindVars, miniVars>>

Next ==
  /\ UNCHANGED part
  /\ \/ WithRing \/ WithRaw \/ WithFifo \/ WithList \/ WithArray \/ WithHeap
     \/ WithMap \/ WithTree \/ WithWord \/ WithGraph \/ WithDyn \/ WithGrind
     \/ WithMinimon \/ WithOmp

Spec ==
  Init /\ [][Next]_<<part, ringVars, rawVars, mfVars, listVars, darrVars, heapVars,
                    hashVars, treeVars, wordVars, graphVars, dynVars, grindVars, miniVars, ompVars>>
=============================================================================

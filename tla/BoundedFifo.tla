---------------------------- MODULE BoundedFifo ----------------------------
(***************************************************************************)
(* What a producer-consumer queue promises: one sequence of at most        *)
(* Capacity elements, to which every operation takes effect at once.       *)
(* Each thread owns a box: a producer offers its content, a consumer finds *)
(* there what it was given.                                                *)
(***************************************************************************)
EXTENDS Naturals, Sequences

CONSTANTS Producers, Consumers, Elts, Unset, Capacity

VARIABLES
  q,   \* the elements in the queue, oldest first
  box  \* box[t]: the element thread t offers or was given

vars == <<q, box>>

Threads == Producers \cup Consumers

Init == q = <<>> /\ box = [t \in Threads |-> Unset]

\* A producer prepares its next element, a consumer clears its box.
Offer(t, e) ==
  /\ box' = [box EXCEPT ![t] = e]
  /\ e = Unset <=> t \in Consumers
  /\ UNCHANGED q

Put(t) ==
  /\ t \in Producers
  /\ Len(q) < Capacity
  /\ q' = Append(q, box[t])
  /\ UNCHANGED box

Take(t) ==
  /\ t \in Consumers
  /\ q # <<>>
  /\ box' = [box EXCEPT ![t] = Head(q)]
  /\ q' = Tail(q)

Look(t) ==
  /\ t \in Consumers
  /\ q # <<>>
  /\ box' = [box EXCEPT ![t] = Head(q)]
  /\ UNCHANGED q

Next == \E t \in Threads :
          \/ \E e \in Elts \cup {Unset} : Offer(t, e)
          \/ Put(t) \/ Take(t) \/ Look(t)

Spec == Init /\ [][Next]_vars
=============================================================================

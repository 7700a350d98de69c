------------------------------ MODULE MultiFifo ------------------------------
(***************************************************************************)
(* The multi-FIFO of src/src/ds/multififo.c: packets in a root FIFO, and   *)
(* for every child a FIFO of the pieces of the packet in front.  The main  *)
(* program adds and removes packets; interrupts take pieces from the       *)
(* children when the multi-FIFO is not locked.  An interrupt may come in   *)
(* the middle of an operation, and may itself call multififo_add.  FIFOs   *)
(* are queues here: module PCQueue shows that the ring buffer under a FIFO *)
(* keeps one.                                                              *)
(***************************************************************************)
EXTENDS Integers, Sequences, FiniteSets

CONSTANTS
  Packets,      \* the elements of the root FIFO
  RootMax,      \* params->max_elts
  Pieces,       \* Pieces[i]: how many elements of child i make a packet
  MaxIntruders  \* how many interrupts call multififo_add during one operation

\* front_refmask is a byte: a bit for each of at most 8 children.
ASSUME MultiFifoAssumption ==
  /\ Pieces \in Seq(Nat) /\ Len(Pieces) <= 8
  /\ MaxIntruders \in Nat

Children == DOMAIN Pieces

VARIABLES
  mf,         \* the structure: root, kids, front_refmask, locked
  mfPc,       \* what the main program is in the middle of
  mfServed,   \* ghost: how many pieces of the front packet each child handed out
  mfEarly,    \* ghost: was a packet removed before its pieces were handed out?
  mfIntruders \* calls of multififo_add that interrupted the current operation

mfVars == <<mf, mfPc, mfServed, mfEarly, mfIntruders>>

\* The pieces of packet p for child i, in order.
PiecesOf(p, i) == [j \in 1 .. Pieces[i] |-> <<p, j>>]

MultiFifos ==
  [root : Seq(Packets), kids : [Children -> Seq(Packets \X Nat)],
   front_refmask : SUBSET Children, locked : BOOLEAN]

NothingServed == [i \in Children |-> 0]

EmptyMultiFifo ==
  [root |-> <<>>, kids |-> [i \in Children |-> <<>>], front_refmask |-> {}, locked |-> FALSE]

MfInit ==
  /\ mf = EmptyMultiFifo
  /\ mfPc = "idle" /\ mfServed = NothingServed
  /\ mfEarly = FALSE /\ mfIntruders = 0

MfIsFull(f) == Len(f.root) = RootMax
MfIsEmpty(f) == f.root = <<>>

\* multififo_children_status_update
StatusUpdate(f) ==
  [f EXCEPT !.front_refmask = {i \in @ : f.kids[i] # <<>>}]

\* Mutant of Feed: the mask is not rebuilt.
FeedKeepsMask(f) ==
  IF MfIsEmpty(f) THEN f
  ELSE [f EXCEPT !.kids = [i \in Children |-> f.kids[i] \o PiecesOf(f.root[1], i)]]

\* multififo_children_feed: the pieces of the front packet for each child in
\* turn, up to the first child that is too full to take all of its own.
Feed(f) ==
  LET stuck == {i \in Children : f.kids[i] # <<>>}
      last  == IF stuck = {} THEN Cardinality(Children)
               ELSE CHOOSE i \in stuck : \A k \in stuck : i <= k
      room(i) == Pieces[i] - Len(f.kids[i])
      fed   == {i \in 1 .. last : room(i) > 0}
  IN  IF MfIsEmpty(f) THEN f
      ELSE [f EXCEPT
        !.kids = [i \in Children |->
                    IF i \in fed THEN @[i] \o SubSeq(PiecesOf(f.root[1], i), 1, room(i)) ELSE @[i]],
        !.front_refmask = fed]

\* The second half of multififo_add: the children learn of the packet in
\* front when none has a piece of it left.
Settle(f) ==
  LET g == StatusUpdate(f)
  IN  [IF g.front_refmask = {} THEN Feed(g) ELSE g EXCEPT !.locked = FALSE]

MfAddBegin(p) ==
  /\ mfPc = "idle" /\ ~mf.locked /\ ~MfIsFull(mf)
  /\ mf' = [mf EXCEPT !.root = Append(@, p), !.locked = TRUE]
  /\ mfPc' = "added"
  /\ UNCHANGED <<mfServed, mfEarly, mfIntruders>>

MfAddEnd ==
  /\ mfPc = "added"
  /\ mf' = Settle(mf)
  /\ mfPc' = "idle" /\ mfIntruders' = 0
  /\ UNCHANGED <<mfServed, mfEarly>>

\* multififo_remove fails, having updated the mask, while a child has pieces.
MfRemoveBusy ==
  /\ mfPc = "idle" /\ ~mf.locked
  /\ StatusUpdate(mf).front_refmask # {}
  /\ mf' = StatusUpdate(mf)
  /\ UNCHANGED <<mfPc, mfServed, mfEarly, mfIntruders>>

MfRemoveBegin ==
  /\ mfPc = "idle" /\ ~mf.locked
  /\ StatusUpdate(mf).front_refmask = {} /\ ~MfIsEmpty(mf)
  /\ mf' = [StatusUpdate(mf) EXCEPT !.root = Tail(@), !.locked = TRUE]
  /\ mfPc' = "removed"
  /\ mfServed' = NothingServed
  /\ mfEarly' = (mfEarly \/ mfServed # Pieces)
  /\ UNCHANGED mfIntruders

MfRemoveEnd ==
  /\ mfPc = "removed"
  /\ mf' = [Feed(mf) EXCEPT !.locked = FALSE]
  /\ mfPc' = "idle" /\ mfIntruders' = 0
  /\ UNCHANGED <<mfServed, mfEarly>>

MfClear ==
  /\ mfPc = "idle"
  /\ mf' = EmptyMultiFifo
  /\ mfServed' = NothingServed
  /\ UNCHANGED <<mfPc, mfEarly, mfIntruders>>

\* An interrupt that finds the multi-FIFO unlocked takes a piece of child i.
MfPull(i) ==
  /\ ~mf.locked /\ mf.kids[i] # <<>>
  /\ mf' = [mf EXCEPT !.kids[i] = Tail(@)]
  /\ mfServed' = [mfServed EXCEPT ![i] = mf.kids[i][1][2]]
  /\ UNCHANGED <<mfPc, mfEarly, mfIntruders>>

\* An interrupt in the middle of an operation calls multififo_add: its error
\* path clears the flag it did not take; when the flag is clear it adds.
MfIntrude(p) ==
  /\ mfPc # "idle" /\ mfIntruders < MaxIntruders
  /\ mf' = IF mf.locked \/ MfIsFull(mf) THEN [mf EXCEPT !.locked = FALSE]
           ELSE Settle([mf EXCEPT !.root = Append(@, p)])
  /\ mfIntruders' = mfIntruders + 1
  /\ UNCHANGED <<mfPc, mfServed, mfEarly>>

MfNext ==
  \/ \E p \in Packets : MfAddBegin(p) \/ MfIntrude(p)
  \/ MfAddEnd \/ MfRemoveBusy \/ MfRemoveBegin \/ MfRemoveEnd \/ MfClear
  \/ \E i \in Children : MfPull(i)

MfSpec == MfInit /\ [][MfNext]_mfVars

-----------------------------------------------------------------------------
IsTailOf(s, t) ==
  /\ Len(s) <= Len(t)
  /\ s = SubSeq(t, Len(t) - Len(s) + 1, Len(t))

\* "All children have finished processing root FIFO front element": no packet
\* is removed before its pieces are handed out (multififo_remove).
FrontFinished == ~mfEarly

\* A child only ever holds the last pieces of the packet in front, and a
\* packet leaves the root only after every child handed out all of its pieces,
\* although interrupts pull pieces between the halves of an operation
\* (multififo_children_feed, multififo_remove).
MultiFifoServesFront ==
  /\ mf \in MultiFifos
  /\ \A i \in Children :
       mf.kids[i] # <<>> => ~MfIsEmpty(mf) /\ IsTailOf(mf.kids[i], PiecesOf(mf.root[1], i))
  /\ FrontFinished
=============================================================================

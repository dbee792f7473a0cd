----------------------------- MODULE BoundedFifo -----------------------------
(***************************************************************************)
(* What a shared-memory frame queue promises the two threads that use it:  *)
(* the consumer receives the frames the producer handed over, whole, in    *)
(* order, none twice and none skipped, and at most Capacity of them wait   *)
(* at any time.  The state is the history of both ends.                    *)
(***************************************************************************)
EXTENDS Integers, Sequences

CONSTANTS
  Items,      \* what may be queued
  Capacity    \* the largest number of items that wait

VARIABLES
  accepted,   \* every item the queue took from its producer, in order
  delivered   \* every item the queue gave its consumer, in order

fifoVars == <<accepted, delivered>>

Waiting == Len(accepted) - Len(delivered)

Init ==
  /\ accepted = <<>>
  /\ delivered = <<>>

\* The producer hands over an item; there must be room for it.
Put(item) ==
  /\ Waiting < Capacity
  /\ accepted' = Append(accepted, item)
  /\ UNCHANGED delivered

\* The consumer takes the n oldest items that wait.
Get(n) ==
  /\ n <= Waiting
  /\ delivered' = SubSeq(accepted, 1, Len(delivered) + n)
  /\ UNCHANGED accepted

Next ==
  \/ \E item \in Items : Put(item)
  \/ \E n \in 1..Waiting : Get(n)

Spec == Init /\ [][Next]_fifoVars
==============================================================================

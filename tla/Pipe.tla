-------------------------------- MODULE Pipe --------------------------------
(***************************************************************************)
(* What two ends joined by queues and wires may count on: an item is       *)
(* offered, accepted at the far end of the queue, and handed over at the   *)
(* near end, in order, once, unchanged. A lossy pipe may refuse the item   *)
(* it took last where it holds as many others as it has room for.          *)
(***************************************************************************)
EXTENDS Sequences, Naturals

CONSTANTS Items,   \* what goes through the pipe
          None,    \* nothing on offer, nothing handed over
          Room     \* items a lossy pipe never refuses to hold

VARIABLES offer,   \* the item the sender is working on
          queue,   \* accepted and not handed over, oldest first
          last,    \* the item handed over last
          lossy,   \* whether the newest item may be dropped; a pipe stays what it is
          spoils   \* whether the item handed over next may come to nothing

Init == offer = None /\ queue = <<>> /\ last = None /\ lossy \in BOOLEAN

Offer(x) ==
  /\ offer = None
  /\ offer' = x
  /\ UNCHANGED <<queue, last>>

Accept ==
  /\ offer # None
  /\ queue' = Append(queue, offer)
  /\ offer' = None
  /\ UNCHANGED last

HandOver ==
  /\ queue # <<>>
  /\ last' = Head(queue) \/ (spoils /\ last' = None)
  /\ queue' = Tail(queue)
  /\ UNCHANGED offer

Drop ==
  /\ lossy
  /\ Len(queue) > Room
  /\ queue' = SubSeq(queue, 1, Len(queue) - 1)
  /\ UNCHANGED <<offer, last>>

Next ==
  /\ (\E x \in Items : Offer(x)) \/ Accept \/ HandOver \/ Drop
  /\ UNCHANGED lossy

Spec == Init /\ [][Next]_<<offer, queue, last, lossy>>
=============================================================================

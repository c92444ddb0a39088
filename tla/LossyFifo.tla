------------------------------ MODULE LossyFifo ------------------------------
(***************************************************************************)
(* What a Threaded_queue promises its two users, the thread that enqueues  *)
(* and the callback that consumes (cpp_17/utility/threaded_queue.h): every *)
(* accepted item is handed to the callback at most once and in the order   *)
(* of acceptance.  Items may be lost, by stop() and by a missing callback, *)
(* but a loss never reorders and never repeats what is delivered.          *)
(*                                                                         *)
(* Items are named by the order in which they were accepted: 1, 2, 3, ...  *)
(***************************************************************************)
EXTENDS Naturals, Sequences

VARIABLES
    accepted,   \* how many items were accepted so far
    pending,    \* the accepted items not yet delivered and not yet lost
    delivered   \* the item delivered last, 0 before the first

fifoVars == <<accepted, pending, delivered>>

FifoInit ==
    /\ accepted = 0
    /\ pending = <<>>
    /\ delivered = 0

Accept ==
    /\ accepted' = accepted + 1
    /\ pending' = Append(pending, accepted + 1)
    /\ UNCHANGED delivered

Deliver ==
    /\ pending # <<>>
    /\ delivered' = Head(pending)
    /\ pending' = Tail(pending)
    /\ UNCHANGED accepted

\* The callback is missing: the oldest item is consumed by nobody.
LoseOldest ==
    /\ pending # <<>>
    /\ pending' = Tail(pending)
    /\ UNCHANGED <<accepted, delivered>>

\* stop(): what waits is thrown away, an item already being handed over is not.
LoseNewest ==
    /\ \E keep \in {0, 1} :
           /\ keep < Len(pending)
           /\ pending' = SubSeq(pending, 1, keep)
    /\ UNCHANGED <<accepted, delivered>>

FifoNext == Accept \/ Deliver \/ LoseOldest \/ LoseNewest

FifoSpec == FifoInit /\ [][FifoNext]_fifoVars
=============================================================================

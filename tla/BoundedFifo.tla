---------------------------- MODULE BoundedFifo ----------------------------
(***************************************************************************)
(* What a message queue of the OSAL promises about its contents, stripped  *)
(* of threads, locks and storage: at most Capacity messages, added at the  *)
(* back and removed from the front, in that order, one at a time.          *)
(***************************************************************************)
EXTENDS Naturals, Sequences

CONSTANTS Items,     \* the messages
          Capacity   \* max_msgs

VARIABLE queue

Init == queue = << >>

Put(item) ==
    /\ Len(queue) < Capacity
    /\ queue' = Append(queue, item)

Get ==
    /\ queue # << >>
    /\ queue' = Tail(queue)

Next == Get \/ \E item \in Items : Put(item)

Spec == Init /\ [][Next]_queue
============================================================================

------------------------------ MODULE BulkFifo ------------------------------
(***************************************************************************)
(* What one producer of a ConcurrentQueue promises: items 1, 2, ... are    *)
(* enqueued in that order, and every call of dequeue that gets items gets  *)
(* the oldest ones, which nobody else gets.                                *)
(***************************************************************************)
EXTENDS Naturals, Sequences

CONSTANTS Consumers

VARIABLES
    queue,      \* the items enqueued and not dequeued
    got         \* the items the call of each consumer dequeued

Init == queue = <<>> /\ got = [c \in Consumers |-> <<>>]

Enqueue ==
    /\ queue' # <<>> /\ queue' = Append(queue, queue'[Len(queue')])
    /\ UNCHANGED got

Dequeue(c) ==
    /\ got[c] = <<>>
    /\ \E n \in 1 .. Len(queue) :
          /\ got' = [got EXCEPT ![c] = SubSeq(queue, 1, n)]
          /\ queue' = SubSeq(queue, n + 1, Len(queue))

Return(c) == got' = [got EXCEPT ![c] = <<>>] /\ UNCHANGED queue

Next == Enqueue \/ \E c \in Consumers : Dequeue(c) \/ Return(c)

vars == <<queue, got>>

Spec == Init /\ [][Next]_vars
=============================================================================

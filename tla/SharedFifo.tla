----------------------------- MODULE SharedFifo -----------------------------
(***************************************************************************)
(* What a ConcurrentQueue promises its users: the items of one producer    *)
(* come out in the order they went in, each once; between two producers    *)
(* there is no order.                                                      *)
(***************************************************************************)
EXTENDS Naturals, Sequences

CONSTANTS Producers, Consumers

VARIABLES
    queue,      \* the items each producer enqueued that are still there
    got         \* the items the call of each consumer has dequeued

Init ==
    /\ queue = [p \in Producers |-> <<>>]
    /\ got = [c \in Consumers |-> <<>>]

Enqueue(p) ==
    /\ queue'[p] # <<>>
    /\ queue' = [queue EXCEPT ![p] = Append(@, queue'[p][Len(queue'[p])])]
    /\ UNCHANGED got

Dequeue(c, p) ==
    \E n \in 1 .. Len(queue[p]) :
        /\ got' = [got EXCEPT ![c] = @ \o SubSeq(queue[p], 1, n)]
        /\ queue' = [queue EXCEPT ![p] = SubSeq(@, n + 1, Len(@))]

Return(c) == got' = [got EXCEPT ![c] = <<>>] /\ UNCHANGED queue

Next ==
    \/ \E p \in Producers : Enqueue(p)
    \/ \E c \in Consumers : Return(c) \/ \E p \in Producers : Dequeue(c, p)

Spec == Init /\ [][Next]_<<queue, got>>
=============================================================================

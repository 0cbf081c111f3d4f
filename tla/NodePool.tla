------------------------------ MODULE NodePool ------------------------------
(***************************************************************************)
(* What FreeList promises: a node that is added may be handed out once,    *)
(* to one thread, which then has it to itself until it adds it again.      *)
(***************************************************************************)
CONSTANTS Nodes, Threads, Null

VARIABLES owner     \* the thread that has each node; Null: it may be handed out

Init == owner \in [Nodes -> Threads]

Add(t, n) == owner[n] = t /\ owner' = [owner EXCEPT ![n] = Null]

Get(t, n) == owner[n] = Null /\ owner' = [owner EXCEPT ![n] = t]

Next == \E t \in Threads, n \in Nodes : Add(t, n) \/ Get(t, n)

Spec == Init /\ [][Next]_owner
=============================================================================

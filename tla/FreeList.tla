------------------------------ MODULE FreeList ------------------------------
(***************************************************************************)
(* FreeList (concurrentqueue.h:1353-1466), the lock-free list from which   *)
(* the queues take blocks they used before.  Every access to a shared      *)
(* atomic is a step of its own, in the order of the code; the steps are    *)
(* sequentially consistent, so the memory orders are not under test.       *)
(*                                                                         *)
(* freeListRefs is a count of references with the bit                      *)
(* SHOULD_BE_ON_FREELIST: [n, bit].                                        *)
(***************************************************************************)
EXTENDS Naturals, FiniteSets

CONSTANTS Nodes, Threads, Null

FreeListAssumption ==
    IsFiniteSet(Nodes) /\ IsFiniteSet(Threads) /\ Null \notin Nodes \cup Threads

VARIABLES
    freeListHead,
    refs,           \* freeListRefs of each node
    next,           \* freeListNext of each node
    owner,          \* the thread that may use or add a node; Null: the list's
    pc,             \* what each thread does next
    head,           \* its local head (prevHead, until the CAS on the head)
    seen,           \* its local next, refs or prevHead
    node            \* the node it adds

shared == <<freeListHead, refs, next, owner>>
local == <<pc, head, seen, node>>
vars == <<shared, local>>

PCs == {"idle", "refs", "grab", "next", "pop", "check", "drop", "undo",
        "add", "link", "open", "push", "defer"}

Ref(n, bit) == [n |-> n, bit |-> bit]

Go(t, to) == pc' = [pc EXCEPT ![t] = to]

(* while (head != nullptr): head is what the thread has just loaded        *)
Loop(t, h) == head' = [head EXCEPT ![t] = h] /\ Go(t, IF h = Null THEN "idle" ELSE "refs")

-----------------------------------------------------------------------------
(* try_get                                                                 *)

TryGet(t) ==
    /\ pc[t] = "idle"
    /\ freeListHead # Null
    /\ Loop(t, freeListHead)
    /\ UNCHANGED <<shared, seen, node>>

(* auto refs = head->freeListRefs.load(): 0 without the bit, start over    *)
BugLoadRefs(t) ==
    /\ pc[t] = "refs"
    /\ seen' = [seen EXCEPT ![t] = refs[head[t]]]
    /\ Go(t, "grab")
    /\ UNCHANGED <<head, shared, node>>
LoadRefs(t) ==
    /\ pc[t] = "refs"
    /\ seen' = [seen EXCEPT ![t] = refs[head[t]]]
    /\ IF refs[head[t]].n = 0
       THEN Loop(t, freeListHead)
       ELSE Go(t, "grab") /\ UNCHANGED head
    /\ UNCHANGED <<shared, node>>

(* freeListRefs.compare_exchange_strong(refs, refs + 1)                    *)
Grab(t) ==
    /\ pc[t] = "grab"
    /\ IF refs[head[t]] = seen[t]
       THEN /\ refs' = [refs EXCEPT ![head[t]].n = @ + 1]
            /\ Go(t, "next")
            /\ UNCHANGED head
       ELSE Loop(t, freeListHead) /\ UNCHANGED refs
    /\ seen' = [seen EXCEPT ![t] = Null]
    /\ UNCHANGED <<freeListHead, next, owner, node>>

LoadNext(t) ==
    /\ pc[t] = "next"
    /\ seen' = [seen EXCEPT ![t] = next[head[t]]]
    /\ Go(t, "pop")
    /\ UNCHANGED <<shared, head, node>>

(* freeListHead.compare_exchange_strong(head, next): a CAS that fails      *)
(* leaves the head of the moment in `head', prevHead keeps the old one     *)
Pop(t) ==
    /\ pc[t] = "pop"
    /\ IF freeListHead = head[t]
       THEN /\ freeListHead' = seen[t]
            /\ owner' = [owner EXCEPT ![head[t]] = t]
            /\ seen' = [seen EXCEPT ![t] = Null]
            /\ Go(t, "check")
            /\ UNCHANGED head
       ELSE /\ seen' = [seen EXCEPT ![t] = head[t]]
            /\ head' = [head EXCEPT ![t] = freeListHead]
            /\ Go(t, "undo")
            /\ UNCHANGED <<freeListHead, owner>>
    /\ UNCHANGED <<refs, next, node>>

(* assert((freeListRefs & SHOULD_BE_ON_FREELIST) == 0)                     *)
Check(t) ==
    /\ pc[t] = "check"
    /\ Go(t, "drop")
    /\ UNCHANGED <<shared, head, seen, node>>

(* fetch_sub(2): this thread's reference and the list's                    *)
Drop(t) ==
    /\ pc[t] = "drop"
    /\ refs' = [refs EXCEPT ![head[t]].n = @ - 2]
    /\ head' = [head EXCEPT ![t] = Null]
    /\ Go(t, "idle")
    /\ UNCHANGED <<freeListHead, next, owner, seen, node>>

(* prevHead->freeListRefs.fetch_sub(1): the last reference of a node that  *)
(* should be on the list adds it                                           *)
BugUndo(t) ==
    /\ pc[t] = "undo"
    /\ LET prevHead == seen[t]
       IN  /\ refs' = [refs EXCEPT ![prevHead].n = @ - 1]
           /\ IF refs[prevHead].n = 1
              THEN /\ node' = [node EXCEPT ![t] = prevHead]
                   /\ seen' = [seen EXCEPT ![t] = freeListHead]
                   /\ Go(t, "link")
              ELSE /\ seen' = [seen EXCEPT ![t] = Null]
                   /\ Go(t, IF head[t] = Null THEN "idle" ELSE "refs")
                   /\ UNCHANGED node
    /\ UNCHANGED <<freeListHead, next, owner, head>>
Undo(t) ==
    /\ pc[t] = "undo"
    /\ LET prevHead == seen[t]
       IN  IF refs[prevHead] = Ref(1, TRUE)
           THEN /\ refs' = [refs EXCEPT ![prevHead] = Ref(0, TRUE)]
                /\ node' = [node EXCEPT ![t] = prevHead]
                /\ seen' = [seen EXCEPT ![t] = freeListHead]
                /\ Go(t, "link")
           ELSE /\ refs' = [refs EXCEPT ![prevHead].n = @ - 1]
                /\ seen' = [seen EXCEPT ![t] = Null]
                /\ Go(t, IF head[t] = Null THEN "idle" ELSE "refs")
                /\ UNCHANGED node
    /\ UNCHANGED <<freeListHead, next, owner, head>>

-----------------------------------------------------------------------------
(* add                                                                     *)

Add(t, n) ==
    /\ pc[t] = "idle"
    /\ owner[n] = t
    /\ node' = [node EXCEPT ![t] = n]
    /\ Go(t, "add")
    /\ UNCHANGED <<shared, head, seen>>

(* freeListRefs.fetch_add(SHOULD_BE_ON_FREELIST) == 0, and, of             *)
(* add_knowing_refcount_is_zero, the load of the head                      *)
SetBit(t) ==
    /\ pc[t] = "add"
    /\ refs' = [refs EXCEPT ![node[t]].bit = TRUE]
    /\ owner' = [owner EXCEPT ![node[t]] = Null]
    /\ IF refs[node[t]] = Ref(0, FALSE)
       THEN /\ seen' = [seen EXCEPT ![t] = freeListHead]
            /\ Go(t, "link")
            /\ UNCHANGED node
       ELSE /\ node' = [node EXCEPT ![t] = Null]
            /\ Go(t, "idle")
            /\ UNCHANGED seen
    /\ UNCHANGED <<freeListHead, next, head>>

(* node->freeListNext.store(head)                                          *)
Link(t) ==
    /\ pc[t] = "link"
    /\ next' = [next EXCEPT ![node[t]] = seen[t]]
    /\ Go(t, "open")
    /\ UNCHANGED <<freeListHead, refs, owner, head, seen, node>>

(* node->freeListRefs.store(1)                                             *)
Open(t) ==
    /\ pc[t] = "open"
    /\ refs' = [refs EXCEPT ![node[t]] = Ref(1, FALSE)]
    /\ Go(t, "push")
    /\ UNCHANGED <<freeListHead, next, owner, head, seen, node>>

(* The node is on the list or left to the last reference; back to try_get, *)
(* if that is where it was added from                                      *)
Added(t) ==
    /\ node' = [node EXCEPT ![t] = Null]
    /\ seen' = [seen EXCEPT ![t] = Null]
    /\ Go(t, IF head[t] = Null THEN "idle" ELSE "refs")

Push(t) ==
    /\ pc[t] = "push"
    /\ IF freeListHead = seen[t]
       THEN freeListHead' = node[t] /\ Added(t)
       ELSE /\ seen' = [seen EXCEPT ![t] = freeListHead]
            /\ Go(t, "defer")
            /\ UNCHANGED <<freeListHead, node>>
    /\ UNCHANGED <<refs, next, owner, head>>

(* fetch_add(SHOULD_BE_ON_FREELIST - 1) == 1: nobody else has a reference, *)
(* try again                                                               *)
Defer(t) ==
    /\ pc[t] = "defer"
    /\ refs' = [refs EXCEPT ![node[t]] = Ref(@.n - 1, TRUE)]
    /\ IF refs[node[t]] = Ref(1, FALSE)
       THEN Go(t, "link") /\ UNCHANGED <<seen, node>>
       ELSE Added(t)
    /\ UNCHANGED <<freeListHead, next, owner, head>>

-----------------------------------------------------------------------------
Init ==
    /\ freeListHead = Null
    /\ refs = [n \in Nodes |-> Ref(0, FALSE)]
    /\ next = [n \in Nodes |-> Null]
    /\ owner \in [Nodes -> Threads]
    /\ pc = [t \in Threads |-> "idle"]
    /\ head = [t \in Threads |-> Null]
    /\ seen = [t \in Threads |-> Null]
    /\ node = [t \in Threads |-> Null]

Next ==
    \E t \in Threads :
        \/ TryGet(t) \/ LoadRefs(t) \/ Grab(t) \/ LoadNext(t) \/ Pop(t)
        \/ Check(t) \/ Drop(t) \/ Undo(t)
        \/ \E n \in Nodes : Add(t, n)
        \/ SetBit(t) \/ Link(t) \/ Open(t) \/ Push(t) \/ Defer(t)

Spec == Init /\ [][Next]_vars

-----------------------------------------------------------------------------
(* Every variable has its type; a thread that reads or drops a reference   *)
(* has a node to do it to, and a count never goes below 0.                 *)
TypeOK ==
    /\ freeListHead \in Nodes \cup {Null}
    /\ refs \in [Nodes -> [n : 0 .. Cardinality(Threads) + 2, bit : BOOLEAN]]
    /\ next \in [Nodes -> Nodes \cup {Null}]
    /\ owner \in [Nodes -> Threads \cup {Null}]
    /\ pc \in [Threads -> PCs]
    /\ \A t \in Threads :
          /\ pc[t] \in {"refs", "grab", "next", "pop", "check", "drop"} =>
                head[t] \in Nodes
          /\ pc[t] = "undo" => seen[t] \in Nodes
          /\ pc[t] \in {"add", "link", "open", "push", "defer"} =>
                node[t] \in Nodes

(* "we run only one copy of this method per node at a time": no two        *)
(* threads are in add_knowing_refcount_is_zero with the same node          *)
(* (concurrentqueue.h:1434-1436).                                          *)
Adding(t) == pc[t] \in {"link", "open", "push", "defer"}
OneAdder ==
    \A t, u \in Threads :
        Adding(t) /\ Adding(u) /\ node[t] = node[u] => t = u

(* assert((head->freeListRefs & SHOULD_BE_ON_FREELIST) == 0): a node that  *)
(* was just taken is not claimed to be free (concurrentqueue.h:1409).      *)
TakenIsNotFlagged == \A t \in Threads : pc[t] = "check" => ~refs[head[t]].bit

(* Whoever reads freeListNext may rely on it until its CAS: no node with a *)
(* reference taken by try_get is linked anew (concurrentqueue.h:1402-1404, *)
(* 1433-1438).                                                             *)
NextIsStable ==
    \A t \in Threads :
        pc[t] = "pop" /\ freeListHead = head[t] => next[head[t]] = seen[t]

(* What has the head of the list, and the next of all that it has          *)
Closed(S) ==
    /\ freeListHead \in S \cup {Null}
    /\ \A n \in S : next[n] \in S \cup {Null}

(* When no call is under way the list holds exactly the nodes added and    *)
(* not taken: none was left behind with its bit set, whoever it was left   *)
(* to (concurrentqueue.h:1419-1422, 1439-1440).                            *)
ListIsExact ==
    (\A t \in Threads : pc[t] = "idle") =>
        LET free == {n \in Nodes : owner[n] = Null}
        IN  Closed(free) /\ \A S \in SUBSET free : Closed(S) => S = free

(* What keeps the list whole, all of it at once: whoever reads, takes or   *)
(* leaves a node while others do, the list ends up exact                   *)
(* (concurrentqueue.h:1374-1466).                                          *)
FreeListInv ==
    TypeOK /\ OneAdder /\ TakenIsNotFlagged /\ NextIsStable /\ ListIsExact

(* A node is never handed to two threads.                                  *)
Pool == INSTANCE NodePool

PoolSpec == Pool!Spec
=============================================================================

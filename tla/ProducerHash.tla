---------------------------- MODULE ProducerHash ----------------------------
(***************************************************************************)
(* get_or_add_implicit_producer (concurrentqueue.h:3237-3442): how a       *)
(* thread that enqueues finds the producer that is its own, in a chain of  *)
(* open-addressing tables that grow while others use them, and how new     *)
(* producers get on the list that consumers walk (3131-3189).  Compiled    *)
(* without thread-exit support, so no key is removed and no producer       *)
(* becomes inactive.                                                       *)
(*                                                                         *)
(* A key is written once, in an empty slot, and a thread looks for its own *)
(* key only: the slots it has passed stay taken, so a probe sequence is    *)
(* one step, at the load or CAS that ends it.                              *)
(***************************************************************************)
EXTENDS Naturals, Sequences, SequencesExt, FiniteSets

CONSTANTS
    Threads, Null,
    Hash(_),            \* hash_thread_id
    InitialCapacity,    \* INITIAL_IMPLICIT_PRODUCER_HASH_SIZE
    MaxCalls,           \* bound: calls in all
    MaxFailures         \* bound: allocations that fail

HashAssumption ==
    /\ IsFiniteSet(Threads) /\ Null \notin Threads
    /\ \A t \in Threads : Hash(t) \in Nat
    /\ InitialCapacity \in {2, 4, 8, 16, 32}
    /\ MaxCalls \in Nat /\ MaxFailures \in Nat

VARIABLES
    tables,         \* the hash tables: the last is implicitProducerHash, the
                    \* one before a table is its prev
    hashCount,      \* implicitProducerHashCount
    resizing,       \* implicitProducerHashResizeInProgress
    list,           \* the producers from producerListTail along next
    producers,      \* producers created so far, numbered from 1
    pc,             \* what each thread does next
    main,           \* its mainHash, an index of tables
    newCount,       \* its newCount
    value,          \* the producer it has found or created
    calls, failures,
    returned        \* history: the producers returned to each thread

local == <<main, newCount, value>>
bounds == <<calls, failures>>
vars == <<tables, hashCount, resizing, list, producers, pc, local, bounds, returned>>

PCs == {"idle", "readd", "count", "loop", "locked", "unlock", "wait", "create",
        "push", "insert"}

Empty(capacity) ==
    [capacity |-> capacity,
     keys |-> [i \in 0 .. capacity - 1 |-> Null],
     values |-> [t \in Threads |-> 0]]

Go(t, to) == pc' = [pc EXCEPT ![t] = to]

(* The slots probed from the thread's home slot, in order                  *)
Probe(t, table, k) == (Hash(t) + k) % table.capacity

IsFree(table) == \E i \in DOMAIN table.keys : table.keys[i] = Null

FirstFree(t, table) ==
    LET k == CHOOSE k \in 0 .. table.capacity - 1 :
                /\ table.keys[Probe(t, table, k)] = Null
                /\ \A j \in 0 .. k - 1 : table.keys[Probe(t, table, j)] # Null
    IN  Probe(t, table, k)

(* key.compare_exchange_strong(empty, id) of the first free slot, and its  *)
(* value                                                                   *)
Put(t, table, producer) ==
    [table EXCEPT !.keys[FirstFree(t, table)] = t, !.values[t] = producer]

(* The newest of the tables 1 .. n that has the thread's key, or 0: probing*)
(* ends at the first empty slot                                            *)
Holds(t, table) ==
    \E k \in 0 .. table.capacity - 1 :
        /\ table.keys[Probe(t, table, k)] = t
        /\ \A j \in 0 .. k - 1 : table.keys[Probe(t, table, j)] # Null

Found(t, n) ==
    LET with == {i \in 1 .. n : Holds(t, tables[i])}
    IN  IF with = {} THEN 0 ELSE CHOOSE i \in with : \A j \in with : j <= i

(* newCount >= capacity >> 1, and newCount < three quarters of it          *)
HalfFull(count, capacity) == count >= capacity \div 2
BugFits(count, capacity) == count < 2 * capacity
Fits(count, capacity) == count < capacity \div 2 + capacity \div 4

-----------------------------------------------------------------------------
(* The call returns `producer', or nullptr                                 *)
Return(t, producer) ==
    /\ returned' = [returned EXCEPT ![t] = @ \cup ({producer} \ {0})]
    /\ value' = [value EXCEPT ![t] = 0]
    /\ newCount' = [newCount EXCEPT ![t] = 0]
    /\ main' = [main EXCEPT ![t] = 1]
    /\ Go(t, "idle")

(* The search of the tables: only the thread itself adds its key           *)
Call(t) ==
    /\ pc[t] = "idle"
    /\ calls < MaxCalls /\ calls' = calls + 1
    /\ LET i == Found(t, Len(tables))
       IN  /\ main' = [main EXCEPT ![t] = IF i = Len(tables) THEN 1 ELSE Len(tables)]
           /\ IF i = 0 THEN Go(t, "count") /\ UNCHANGED <<value, returned>>
              ELSE IF i = Len(tables)
              THEN /\ returned' = [returned EXCEPT ![t] = @ \cup {tables[i].values[t]}]
                   /\ UNCHANGED <<pc, value>>
              ELSE /\ value' = [value EXCEPT ![t] = tables[i].values[t]]
                   /\ Go(t, "readd")
                   /\ UNCHANGED returned
    /\ UNCHANGED <<tables, hashCount, resizing, list, producers, newCount, failures>>

(* Found in an older table: lazily added to the main one                   *)
Readd(t) ==
    /\ pc[t] = "readd"
    /\ IsFree(tables[main[t]])
    /\ tables' = [tables EXCEPT ![main[t]] = Put(t, @, value[t])]
    /\ Return(t, value[t])
    /\ UNCHANGED <<hashCount, resizing, list, producers, bounds>>

(* implicitProducerHashCount.fetch_add(1)                                  *)
Count(t) ==
    /\ pc[t] = "count"
    /\ hashCount' = hashCount + 1
    /\ newCount' = [newCount EXCEPT ![t] = hashCount + 1]
    /\ Go(t, "loop")
    /\ UNCHANGED <<tables, resizing, list, producers, main, value, bounds, returned>>

(* Room in the table all the same, or wait for the new one                 *)
InsertOrWait(t) ==
    Go(t, IF Fits(newCount[t], tables[main[t]].capacity) THEN "create" ELSE "wait")

(* newCount >= capacity / 2 && !test_and_set()                             *)
TestAndSet(t) ==
    /\ pc[t] = "loop"
    /\ IF HalfFull(newCount[t], tables[main[t]].capacity) /\ ~resizing
       THEN resizing' = TRUE /\ Go(t, "locked")
       ELSE InsertOrWait(t) /\ UNCHANGED resizing
    /\ UNCHANGED <<tables, hashCount, list, producers, local, bounds, returned>>

(* Wait: mainHash is loaded again                                          *)
Reload(t) ==
    /\ pc[t] = "wait"
    /\ main' = [main EXCEPT ![t] = Len(tables)]
    /\ Go(t, "loop")
    /\ UNCHANGED <<tables, hashCount, resizing, list, producers, newCount, value,
                   bounds, returned>>

(* With the lock held: look again, and publish a table that is big enough  *)
Resize(t) ==
    /\ pc[t] = "locked"
    /\ LET capacity == tables[Len(tables)].capacity
           bigger == CHOOSE c \in {capacity * 2, capacity * 4, capacity * 8} :
                        /\ ~HalfFull(newCount[t], c)
                        /\ c > capacity * 2 => HalfFull(newCount[t], c \div 2)
       IN  IF HalfFull(newCount[t], capacity)
           THEN /\ tables' = Append(tables, Empty(bigger))
                /\ main' = [main EXCEPT ![t] = Len(tables) + 1]
           ELSE main' = [main EXCEPT ![t] = Len(tables)] /\ UNCHANGED tables
    /\ Go(t, "unlock")
    /\ UNCHANGED <<hashCount, resizing, list, producers, newCount, value, bounds,
                   returned>>

Unlock(t) ==
    /\ pc[t] = "unlock"
    /\ resizing' = FALSE
    /\ InsertOrWait(t)
    /\ UNCHANGED <<tables, hashCount, list, producers, local, bounds, returned>>

(* The allocation of the table failed: the lock is released, the caller    *)
(* gets nullptr                                                            *)
ResizeFails(t) ==
    /\ pc[t] = "locked"
    /\ failures < MaxFailures /\ failures' = failures + 1
    /\ HalfFull(newCount[t], tables[Len(tables)].capacity)
    /\ hashCount' = hashCount - 1
    /\ resizing' = FALSE
    /\ Return(t, 0)
    /\ UNCHANGED <<tables, list, producers, calls>>

(* recycle_or_create_producer: no producer is inactive                     *)
Create(t) ==
    /\ pc[t] = "create"
    /\ producers' = producers + 1
    /\ value' = [value EXCEPT ![t] = producers + 1]
    /\ Go(t, "push")
    /\ UNCHANGED <<tables, hashCount, resizing, list, main, newCount, bounds, returned>>

CreateFails(t) ==
    /\ pc[t] = "create"
    /\ failures < MaxFailures /\ failures' = failures + 1
    /\ hashCount' = hashCount - 1
    /\ Return(t, 0)
    /\ UNCHANGED <<tables, resizing, list, producers, calls>>

(* add_producer: producer->next = prevTail and the CAS of the tail that    *)
(* succeeds; producers are never taken off the list                        *)
Push(t) ==
    /\ pc[t] = "push"
    /\ list' = <<value[t]>> \o list
    /\ Go(t, "insert")
    /\ UNCHANGED <<tables, hashCount, resizing, producers, local, bounds, returned>>

Insert(t) ==
    /\ pc[t] = "insert"
    /\ IsFree(tables[main[t]])
    /\ tables' = [tables EXCEPT ![main[t]] = Put(t, @, value[t])]
    /\ Return(t, value[t])
    /\ UNCHANGED <<hashCount, resizing, list, producers, bounds>>

-----------------------------------------------------------------------------
(* populate_initial_implicit_producer_hash                                 *)
Init ==
    /\ tables = <<Empty(InitialCapacity)>>
    /\ hashCount = 0 /\ resizing = FALSE
    /\ list = <<>> /\ producers = 0
    /\ pc = [t \in Threads |-> "idle"]
    /\ main = [t \in Threads |-> 1] /\ newCount = [t \in Threads |-> 0]
    /\ value = [t \in Threads |-> 0]
    /\ calls = 0 /\ failures = 0
    /\ returned = [t \in Threads |-> {}]

Step(t) ==
    \/ Readd(t) \/ Count(t) \/ TestAndSet(t) \/ Reload(t) \/ Resize(t)
    \/ Unlock(t) \/ ResizeFails(t) \/ Create(t) \/ CreateFails(t) \/ Push(t)
    \/ Insert(t)

Next == \E t \in Threads : Call(t) \/ Step(t)

(* A thread that has called goes on.                                       *)
Fairness == \A t \in Threads : WF_vars(Step(t))

Spec == Init /\ [][Next]_vars /\ Fairness

-----------------------------------------------------------------------------
(* Every variable has its type; the resize lock is held by one thread.     *)
TypeOK ==
    /\ \A i \in 1 .. Len(tables) :
          /\ tables[i].keys \in [0 .. tables[i].capacity - 1 -> Threads \cup {Null}]
          /\ tables[i].values \in [Threads -> 0 .. producers]
    /\ hashCount \in 0 .. Cardinality(Threads)
    /\ pc \in [Threads -> PCs]
    /\ main \in [Threads -> 1 .. Len(tables)]
    /\ newCount \in [Threads -> 0 .. Cardinality(Threads)]
    /\ value \in [Threads -> 0 .. producers]
    /\ resizing <=> Cardinality({t \in Threads : pc[t] \in {"locked", "unlock"}}) = 1

(* "at least one slot is free in the hash table": in every table of the    *)
(* chain, after inserts that counted against an older table and lazy ones  *)
(* that counted against none (concurrentqueue.h:3317, 3322-3326).          *)
SlotFree == \A i \in 1 .. Len(tables) : IsFree(tables[i])

(* A thread has one producer and keeps it, and shares it with nobody: the  *)
(* order of what it enqueues rests on it (concurrentqueue.h:3300-3302).    *)
OwnProducer ==
    /\ \A t \in Threads : Cardinality(returned[t]) <= 1
    /\ \A t, u \in Threads : t # u => returned[t] \cap returned[u] = {}

(* What a thread enqueues to, consumers find: each producer is on the list *)
(* once, before it is returned (concurrentqueue.h:3168-3171).              *)
AllListed ==
    /\ \A t \in Threads : returned[t] \subseteq ToSet(list)
    /\ IsInjective(list)

(* The count says how many threads have a producer or are about to: it     *)
(* is never below the keys of any table (concurrentqueue.h:3326, 3358).    *)
CountCoversKeys ==
    \A i \in 1 .. Len(tables) :
        Cardinality({k \in DOMAIN tables[i].keys : tables[i].keys[k] # Null})
            <= hashCount

(* The hash as a whole: a thread that looks for its producer finds its own *)
(* one or a free slot, in whichever table it looks while others grow them  *)
(* (concurrentqueue.h:3237-3442).                                          *)
ProducerHashInv ==
    TypeOK /\ SlotFree /\ OwnProducer /\ AllListed /\ CountCoversKeys
=============================================================================

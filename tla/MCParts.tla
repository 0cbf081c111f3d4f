------------------------------- MODULE MCParts -------------------------------
(* Instances of the parts that are modelled on their own, for TLC: `part'  *)
(* says which of them runs, and the others stay as they were initialised.  *)
EXTENDS Naturals, Sequences, FiniteSets, TLC

CONSTANTS
    Nodes, Threads,                         \* the free list's
    Blocks, b1, b2, Consumers, c1,          \* the producer's
    Null, e1, e2, e3,                       \* threads that enqueue
    CookieNames, Cut(_), NameHash(_), OldIds, QueryThreads,
    MaxCookies,                             \* the registry's
    StoredNames, StoredDescs, StoredValues, Access,     \* what a load finds
    long, short, other, p1, p2, client

VARIABLES
    part,
    freeListHead, refs, next, owner, takerPc, head, seen, node,
    tables, hashCount, resizing, producerList, producers, hashPc, main,
    newCount, found, hashCalls, hashFailures, returned,
    tailIndex, headIndex, dequeueOptimisticCount, dequeueOvercommit, headers,
    entries, elements, dequeued, free, unused, tailBlock, enqueuePc, con,
    dequeueCalls, allocationFailures, published, claimed,
    cookieList, queue, thread, sent, results, ids,
    loaded, clientMenu, data, live, SettingsMenuItems, menu, undefined, loads,
    list, id, desc, access, value, pipe, rows

poolVars == <<freeListHead, refs, next, owner, takerPc, head, seen, node>>
hashVars == <<tables, hashCount, resizing, producerList, producers, hashPc, main,
              newCount, found, hashCalls, hashFailures, returned>>
producerVars == <<tailIndex, headIndex, dequeueOptimisticCount,
                  dequeueOvercommit, headers, entries, elements, dequeued, free,
                  unused, tailBlock, enqueuePc, con, dequeueCalls,
                  allocationFailures, published, claimed>>
registryVars == <<cookieList, queue, thread, sent, results, ids>>
menuVars == <<loaded, clientMenu, data, live, SettingsMenuItems, menu, undefined,
              loads>>
selectVars == <<list, id, desc, access, value, pipe, rows>>

(* Hashes that meet in a table of two, and some that do in one of four     *)
HashOf(t) == CASE t = e1 -> 3 [] t = e2 -> 3 [] OTHER -> 0
(* A name that is cut, and the name it is cut to                           *)
CutOf(n) == IF n = long THEN short ELSE n
HashOfName(n) == IF n = other THEN 2 ELSE 1
(* Two plugins with a text in common and one of their own                  *)
MenuTexts(p) == IF p = p1 THEN {"a", "b"} ELSE {"a", "c"}

Pool == INSTANCE FreeList WITH pc <- takerPc

Hash == INSTANCE ProducerHash
          WITH Threads <- {e1, e2, e3}, Hash <- HashOf, InitialCapacity <- 2,
               MaxCalls <- 4, MaxFailures <- 1, list <- producerList,
               pc <- hashPc, value <- found, calls <- hashCalls,
               failures <- hashFailures

Producer == INSTANCE ImplicitProducer
              WITH BlockSize <- 2, IndexSize <- 2, Range <- 16, MaxBulk <- 2,
                   MaxItems <- 5, MaxCalls <- 2, MaxFailures <- 1,
                   pc <- enqueuePc, calls <- dequeueCalls,
                   failures <- allocationFailures

(* A producer that has been in use until its indexes wrap around           *)
Wrap == INSTANCE ImplicitProducer
          WITH Consumers <- {c1}, Blocks <- {b1, b2}, BlockSize <- 2,
               IndexSize <- 2, Range <- 16, MaxBulk <- 2, MaxItems <- 17, MaxCalls <- 9, MaxFailures <- 0,
               pc <- enqueuePc, calls <- dequeueCalls,
               failures <- allocationFailures

Registry == INSTANCE CookieRegistry
              WITH Names <- CookieNames, Hash <- NameHash, Threads <- QueryThreads,
                   pipe <- sent

Menu == INSTANCE SettingsMenu
          WITH Plugins <- {p1, p2}, Clients <- {client}, TextsOf <- MenuTexts,
               MaxData <- 3, MaxLoads <- 3

Select == INSTANCE SelectData
            WITH Names <- StoredNames, Descs <- StoredDescs, Values <- StoredValues,
                 Threads <- QueryThreads, Nil <- Null, results <- rows

ASSUME PartsAssumption ==
    /\ Pool!FreeListAssumption /\ Hash!HashAssumption
    /\ Producer!ProducerAssumption /\ Wrap!ProducerAssumption
    /\ Registry!RegistryAssumption
    /\ Menu!MenuAssumption /\ Select!SelectAssumption

Init ==
    /\ part \in {"pool", "hash", "producer", "wrap", "registry", "menu", "select"}
    /\ Pool!Init /\ Hash!Init /\ Registry!Init
    /\ IF part = "wrap" THEN Wrap!Init ELSE Producer!Init
    /\ Menu!Init /\ Select!Init
    /\ part # "pool" => owner = [n \in Nodes |-> CHOOSE t \in Threads : TRUE]
    /\ part # "registry" => ids = [n \in CookieNames |-> 0]

Next ==
    \/ /\ part = "pool" /\ Pool!Next
       /\ UNCHANGED <<part, hashVars, producerVars, registryVars, menuVars,
                      selectVars>>
    \/ /\ part = "hash" /\ Hash!Next
       /\ UNCHANGED <<part, poolVars, producerVars, registryVars, menuVars,
                      selectVars>>
    \/ /\ part = "producer" /\ Producer!Next
       /\ UNCHANGED <<part, poolVars, hashVars, registryVars, menuVars,
                      selectVars>>
    \/ /\ part = "wrap" /\ Wrap!Next
       /\ UNCHANGED <<part, poolVars, hashVars, registryVars, menuVars,
                      selectVars>>
    \/ /\ part = "registry" /\ Registry!Next
       /\ UNCHANGED <<part, poolVars, hashVars, producerVars, menuVars,
                      selectVars>>
    \/ /\ part = "menu" /\ Menu!Next
       /\ UNCHANGED <<part, poolVars, hashVars, producerVars, registryVars,
                      selectVars>>
    \/ /\ part = "select" /\ Select!Next
       /\ UNCHANGED <<part, poolVars, hashVars, producerVars, registryVars,
                      menuVars>>

vars == <<part, poolVars, hashVars, producerVars, registryVars, menuVars,
          selectVars>>

Spec == Init /\ [][Next]_vars

(* The free list is whole, and a pool (FreeList).                          *)
FreeListInv == part = "pool" => Pool!FreeListInv
FreeListIsPool == Pool!PoolSpec

(* Every thread has its own producer, in tables that grow (ProducerHash).  *)
ProducerHashInv == part = "hash" => Hash!ProducerHashInv

(* A producer's blocks are found, used and freed as they should be, and it *)
(* hands out its items in order, each once (ImplicitProducer).             *)
ProducerBlocksInv ==
    /\ part = "producer" => Producer!ProducerBlocksInv
    /\ part = "wrap" => Wrap!ProducerBlocksInv
DestructorIsExact ==
    /\ part = "producer" => Producer!DestructorIsExact
    /\ part = "wrap" => Wrap!DestructorIsExact
ProducerIsFifo ==
    /\ part = "producer" => Producer!Fifo!Init
    /\ part = "wrap" => Wrap!Fifo!Init
    /\ [][/\ part = "producer" => Producer!FifoStep
          /\ part = "wrap" => Wrap!FifoStep]_vars

(* All cookies of a name get one id, that which Redis has, if it has one   *)
(* (CookieRegistry).                                                       *)
IdsAgree == part = "registry" => Registry!TypeOK /\ Registry!IdsAgree

(* The settings menu keeps what it should and nothing more (SettingsMenu). *)
SettingsMenuInv == part = "menu" => Menu!SettingsMenuInv
OwnItemsGo == Menu!OwnItemsGo

(* A load gives what is stored (SelectData).                               *)
LoadIsExact == []Select!TypeOK /\ Select!LoadIsExact
=============================================================================

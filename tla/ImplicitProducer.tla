-------------------------- MODULE ImplicitProducer --------------------------
(***************************************************************************)
(* ConcurrentQueue::ImplicitProducer (concurrentqueue.h:1627-1691,         *)
(* 2344-2471, 2473-2542, 2694-2794, 2797-2918): the thread that owns it    *)
(* enqueues, any thread dequeues.  Items lie in blocks of BLOCK_SIZE; a    *)
(* block index, a circular array of entries that is doubled when it is     *)
(* full, says where the block of an index is.  Every access to an atomic   *)
(* that another thread may change is a step, sequentially consistent.      *)
(*                                                                         *)
(* The blocks come from a pool: those never used (the initial pool and     *)
(* malloc) and those of the free list, which FreeList shows to be handed   *)
(* out once.  Indexes are numbers modulo 2^w: `Range' is 2^w.              *)
(***************************************************************************)
EXTENDS Integers, Sequences, FiniteSets

CONSTANTS
    Consumers, Blocks, Null,
    BlockSize,          \* BLOCK_SIZE
    IndexSize,          \* IMPLICIT_INITIAL_INDEX_SIZE
    Range,              \* the indexes are 0 .. Range - 1
    MaxBulk,            \* bound: items a call of dequeue_bulk wants
    MaxItems,           \* bound: items enqueued
    MaxCalls,           \* bound: calls of dequeue
    MaxFailures         \* bound: allocations that fail

ProducerAssumption ==
    /\ BlockSize \in {2, 4, 8, 16, 32} /\ IndexSize \in {2, 4, 8, 16, 32}
    /\ Range \in Nat /\ Range % (2 * BlockSize) = 0 /\ Range > 2 * BlockSize
    /\ MaxBulk \in Nat \ {0} /\ MaxItems \in Nat /\ MaxCalls \in Nat
    /\ MaxFailures \in Nat

VARIABLES
    tailIndex, headIndex, dequeueOptimisticCount, dequeueOvercommit,
    headers,        \* the block indexes: the last is blockIndex
    entries,        \* the BlockIndexEntries, each [key, value]
    elements,       \* the items in each block
    dequeued,       \* elementsCompletelyDequeued of each block
    free,           \* the blocks of the free list
    unused,         \* the blocks never used
    tailBlock,
    pc,             \* what the producer does next
    con,            \* the local state of each consumer
    calls, failures,
    published,      \* history: items enqueued
    claimed         \* history: items dequeued or being dequeued

counters == <<dequeueOptimisticCount, dequeueOvercommit>>
index == <<headers, entries>>
blocks == <<elements, dequeued, free, unused>>
producer == <<tailBlock, pc, failures>>
vars == <<tailIndex, headIndex, counters, index, blocks, producer, con, calls,
          published, claimed>>

-----------------------------------------------------------------------------
(* Arithmetic of index_t                                                   *)

Plus(a, b) == (a + b) % Range
Minus(a, b) == (a - b) % Range

(* circular_less_than: a - b > 2^(w-1)                                     *)
CircularLess(a, b) == Minus(a, b) > Range \div 2

Base(i) == i - (i % BlockSize)
Slot(i) == i % BlockSize

(* (signed)(i - base) / BLOCK_SIZE, where i is a block's base              *)
BlockOffset(i, base) ==
    LET d == Minus(i, base)
    IN  (IF d >= Range \div 2 THEN d - Range ELSE d) \div BlockSize

SmallerOf(a, b) == IF a < b THEN a ELSE b

INVALID_BLOCK_BASE == 1

BlockIndex == headers[Len(headers)]
NewTail == (BlockIndex.tail + 1) % BlockIndex.capacity
NewEntry == BlockIndex.index[NewTail]

-----------------------------------------------------------------------------
(* enqueue                                                                 *)

AtBlockStart == Slot(tailIndex) = 0
Full == ~CircularLess(headIndex, Plus(tailIndex, BlockSize))

(* The next entry of the index is free ...                                 *)
EntryIsFree ==
    entries[NewEntry].key = INVALID_BLOCK_BASE \/ entries[NewEntry].value = Null

NewBlock ==
    /\ pc = "idle" /\ published < MaxItems
    /\ AtBlockStart /\ ~Full
    /\ EntryIsFree
    /\ pc' = "key"
    /\ UNCHANGED <<tailIndex, headIndex, counters, index, blocks, tailBlock, failures,
                   con, calls, published, claimed>>

(* ... or new_block_index: the old entries, the oldest first, and as many  *)
(* new ones; it may fail, and enqueue returns false                        *)
GrowIndex ==
    /\ pc = "idle" /\ published < MaxItems
    /\ AtBlockStart /\ ~Full
    /\ ~EntryIsFree
    /\ LET n == BlockIndex.capacity
           old == Len(entries)
       IN  /\ entries' = entries \o
                [i \in 1 .. n |-> [key |-> INVALID_BLOCK_BASE, value |-> Null]]
           /\ headers' = Append(headers,
                [capacity |-> 2 * n, tail |-> n - 1,
                 index |-> [i \in 0 .. 2 * n - 1 |->
                    IF i < n THEN BlockIndex.index[(BlockIndex.tail + 1 + i) % n]
                             ELSE old + i - n + 1]])
    /\ pc' = "key"
    /\ UNCHANGED <<tailIndex, headIndex, counters, blocks, tailBlock, failures, con,
                   calls, published, claimed>>

StoreKey ==
    /\ pc = "key"
    /\ entries' = [entries EXCEPT ![NewEntry].key = tailIndex]
    /\ pc' = "tail"
    /\ UNCHANGED <<tailIndex, headIndex, counters, headers, blocks, tailBlock, failures,
                   con, calls, published, claimed>>

StoreTail ==
    /\ pc = "tail"
    /\ headers' = [headers EXCEPT ![Len(headers)].tail = NewTail]
    /\ pc' = "block"
    /\ UNCHANGED <<tailIndex, headIndex, counters, entries, blocks, tailBlock, failures,
                   con, calls, published, claimed>>

(* The blocks never used come in the order of the pool; one from the free  *)
(* list may come at any time, as pool and list are shared by all producers *)
NextUnused == IF unused = {} THEN {} ELSE {CHOOSE b \in unused : TRUE}

(* requisition_block and reset_empty                                       *)
RequisitionBlock ==
    /\ pc = "block"
    /\ \E b \in free \cup NextUnused :
          /\ tailBlock' = b
          /\ free' = free \ {b} /\ unused' = unused \ {b}
          /\ dequeued' = [dequeued EXCEPT ![b] = 0]
    /\ pc' = "value"
    /\ UNCHANGED <<tailIndex, headIndex, counters, index, elements, failures, con,
                   calls, published, claimed>>

(* No block: rewind_block_index_tail, and enqueue returns false            *)
RequisitionFails ==
    /\ pc = "block"
    /\ failures < MaxFailures /\ failures' = failures + 1
    /\ headers' = [headers EXCEPT ![Len(headers)].tail =
                      (BlockIndex.tail - 1) % BlockIndex.capacity]
    /\ entries' = [entries EXCEPT ![BlockIndex.index[BlockIndex.tail]].value = Null]
    /\ pc' = "idle"
    /\ UNCHANGED <<tailIndex, headIndex, counters, blocks, tailBlock, con, calls,
                   published, claimed>>

StoreValue ==
    /\ pc = "value"
    /\ entries' = [entries EXCEPT ![BlockIndex.index[BlockIndex.tail]].value = tailBlock]
    /\ pc' = "write"
    /\ UNCHANGED <<tailIndex, headIndex, counters, headers, blocks, tailBlock, failures,
                   con, calls, published, claimed>>

(* The element is constructed in the tail block ...                        *)
Write ==
    /\ \/ pc = "write"
       \/ pc = "idle" /\ published < MaxItems /\ ~AtBlockStart
    /\ elements' = [elements EXCEPT ![tailBlock][Slot(tailIndex)] = published + 1]
    /\ pc' = "publish"
    /\ UNCHANGED <<tailIndex, headIndex, counters, index, dequeued, free, unused,
                   tailBlock, failures, con, calls, published, claimed>>

(* ... before tailIndex says that it is there.                             *)
Publish ==
    /\ pc = "publish"
    /\ tailIndex' = Plus(tailIndex, 1)
    /\ published' = published + 1
    /\ pc' = "idle"
    /\ UNCHANGED <<headIndex, counters, index, blocks, tailBlock, failures, con, calls,
                   claimed>>

Enqueue ==
    \/ NewBlock \/ GrowIndex \/ StoreKey \/ StoreTail \/ RequisitionBlock
    \/ RequisitionFails \/ StoreValue \/ Write \/ Publish

-----------------------------------------------------------------------------
(* dequeue, which wants one item, and dequeue_bulk                         *)

Idle == [pc |-> "idle", want |-> 0, tail |-> 0, over |-> 0, mine |-> 0,
         index |-> 0, end |-> 0, header |-> 0, at |-> 0, block |-> Null,
         first |-> 0, count |-> 0]

Local(c, record) == con' = [con EXCEPT ![c] = record]

shared == <<index, blocks, producer, tailIndex, published, calls>>

(* The loads of tailIndex, dequeueOvercommit, dequeueOptimisticCount       *)
LoadTail(c) ==
    /\ con[c].pc = "idle"
    /\ calls < MaxCalls /\ calls' = calls + 1
    /\ \E max \in 1 .. MaxBulk :
          Local(c, [Idle EXCEPT !.pc = "over", !.want = max, !.tail = tailIndex])
    /\ UNCHANGED <<tailIndex, headIndex, counters, index, blocks, producer, published,
                   claimed>>

LoadOvercommit(c) ==
    /\ con[c].pc = "over"
    /\ Local(c, [con[c] EXCEPT !.pc = "optimistic", !.over = dequeueOvercommit])
    /\ UNCHANGED <<headIndex, counters, shared, claimed>>

(* How many of the wanted items lie between count and tail: dequeue (one   *)
(* item) compares the two, dequeue_bulk their difference with 0            *)
There(tail, count, want) ==
    IF want = 1 THEN IF CircularLess(count, tail) THEN 1 ELSE 0
    ELSE LET n == Minus(tail, count)
         IN  IF CircularLess(0, n) THEN SmallerOf(want, n) ELSE 0

LoadOptimistic(c) ==
    /\ con[c].pc = "optimistic"
    /\ LET n == There(con[c].tail, Minus(dequeueOptimisticCount, con[c].over),
                      con[c].want)
       IN  Local(c, IF n = 0 THEN Idle
                    ELSE [con[c] EXCEPT !.pc = "add", !.tail = 0, !.want = n])
    /\ UNCHANGED <<headIndex, counters, shared, claimed>>

(* dequeueOptimisticCount.fetch_add(desiredCount)                          *)
AddOptimistic(c) ==
    /\ con[c].pc = "add"
    /\ dequeueOptimisticCount' = Plus(dequeueOptimisticCount, con[c].want)
    /\ Local(c, [con[c] EXCEPT !.pc = "check", !.mine = dequeueOptimisticCount])
    /\ UNCHANGED <<headIndex, dequeueOvercommit, shared, claimed>>

(* tailIndex again: how many of the desired items there are for this call  *)
BugCheckTailOnce(c) ==
    /\ con[c].pc = "check"
    /\ Local(c, [con[c] EXCEPT !.pc = "claim", !.count = con[c].want,
                               !.mine = 0, !.over = 0])
    /\ UNCHANGED <<headIndex, counters, shared, claimed>>
CheckTail(c) ==
    /\ con[c].pc = "check"
    /\ LET n == There(tailIndex, Minus(con[c].mine, con[c].over), con[c].want)
       IN  Local(c, [con[c] EXCEPT !.pc = IF n = con[c].want THEN "claim" ELSE "undo",
                                   !.count = n, !.mine = 0, !.over = 0])
    /\ UNCHANGED <<headIndex, counters, shared, claimed>>

(* dequeueOvercommit.fetch_add: what this call counted and does not take   *)
AddOvercommit(c) ==
    /\ con[c].pc = "undo"
    /\ dequeueOvercommit' = Plus(dequeueOvercommit, con[c].want - con[c].count)
    /\ Local(c, IF con[c].count = 0 THEN Idle
                ELSE [con[c] EXCEPT !.pc = "claim", !.want = con[c].count])
    /\ UNCHANGED <<headIndex, dequeueOptimisticCount, shared, claimed>>

(* headIndex.fetch_add(actualCount)                                        *)
Claim(c) ==
    /\ con[c].pc = "claim"
    /\ headIndex' = Plus(headIndex, con[c].count)
    /\ claimed' = claimed + con[c].count
    /\ Local(c, [con[c] EXCEPT !.pc = "header", !.index = headIndex, !.want = 0,
                               !.end = Plus(headIndex, con[c].count),
                               !.first = claimed + 1])
    /\ UNCHANGED <<counters, shared>>

(* get_block_index_index_for_index: the index, its tail, the tail's key    *)
LoadHeader(c) ==
    /\ con[c].pc = "header"
    /\ Local(c, [con[c] EXCEPT !.pc = "tail", !.header = Len(headers)])
    /\ UNCHANGED <<headIndex, counters, shared, claimed>>

LoadIndexTail(c) ==
    /\ con[c].pc = "tail"
    /\ Local(c, [con[c] EXCEPT !.pc = "key", !.at = headers[con[c].header].tail])
    /\ UNCHANGED <<headIndex, counters, shared, claimed>>

EntryAt(c, i) == entries[headers[con[c].header].index[i]]
Located(c) ==
    (con[c].at + BlockOffset(Base(con[c].index), EntryAt(c, con[c].at).key))
        % headers[con[c].header].capacity

LoadKey(c) ==
    /\ con[c].pc = "key"
    /\ Local(c, [con[c] EXCEPT !.pc = "value", !.at = Located(c)])
    /\ UNCHANGED <<headIndex, counters, shared, claimed>>

LoadValue(c) ==
    /\ con[c].pc = "value"
    /\ Local(c, [con[c] EXCEPT !.pc = "take", !.block = EntryAt(c, con[c].at).value])
    /\ UNCHANGED <<headIndex, counters, shared, claimed>>

(* The items of this call that lie in the block                            *)
Here(c) ==
    LET left == Minus(con[c].end, con[c].index)
    IN  SmallerOf(left, BlockSize - Slot(con[c].index))

SlotsHere(c) == Slot(con[c].index) .. Slot(con[c].index) + Here(c) - 1

(* They are moved out and destroyed.                                       *)
Take(c) ==
    /\ con[c].pc = "take"
    /\ elements' = [elements EXCEPT ![con[c].block] =
                       [s \in DOMAIN @ |-> IF s \in SlotsHere(c) THEN 0 ELSE @[s]]]
    /\ Local(c, [con[c] EXCEPT !.pc = "empty"])
    /\ UNCHANGED <<tailIndex, headIndex, counters, index, dequeued, free, unused,
                   producer, calls, published, claimed>>

(* On to the block of the next entry, or done                              *)
BugAdvance(c) ==
    LET i == Plus(con[c].index, Here(c))
    IN  IF i = con[c].end THEN Idle
        ELSE [con[c] EXCEPT !.pc = "value", !.index = i, !.block = Null]
Advance(c) ==
    LET i == Plus(con[c].index, Here(c))
    IN  IF i = con[c].end THEN Idle
        ELSE [con[c] EXCEPT !.pc = "value", !.index = i, !.block = Null,
                            !.at = (@ + 1) % headers[con[c].header].capacity]

(* set_many_empty: the one who empties the block frees it                  *)
SetEmpty(c) ==
    /\ con[c].pc = "empty"
    /\ dequeued' = [dequeued EXCEPT ![con[c].block] = @ + Here(c)]
    /\ Local(c, IF dequeued[con[c].block] + Here(c) = BlockSize
                THEN [con[c] EXCEPT !.pc = "clear"] ELSE Advance(c))
    /\ UNCHANGED <<tailIndex, headIndex, counters, index, elements, free, unused,
                   producer, calls, published, claimed>>

(* entry->value.store(nullptr), before the block can be used again         *)
ClearEntry(c) ==
    /\ con[c].pc = "clear"
    /\ entries' = [entries EXCEPT ![headers[con[c].header].index[con[c].at]].value = Null]
    /\ Local(c, [con[c] EXCEPT !.pc = "free"])
    /\ UNCHANGED <<tailIndex, headIndex, counters, headers, blocks, producer, calls,
                   published, claimed>>

AddToFreeList(c) ==
    /\ con[c].pc = "free"
    /\ free' = free \cup {con[c].block}
    /\ Local(c, Advance(c))
    /\ UNCHANGED <<tailIndex, headIndex, counters, index, elements, dequeued, unused,
                   producer, calls, published, claimed>>

Dequeue(c) ==
    \/ LoadTail(c) \/ LoadOvercommit(c) \/ LoadOptimistic(c) \/ AddOptimistic(c)
    \/ CheckTail(c) \/ AddOvercommit(c) \/ Claim(c) \/ LoadHeader(c)
    \/ LoadIndexTail(c) \/ LoadKey(c) \/ LoadValue(c) \/ Take(c) \/ SetEmpty(c)
    \/ ClearEntry(c) \/ AddToFreeList(c)

-----------------------------------------------------------------------------
(* ~ImplicitProducer, with nobody inside enqueue or dequeue                *)

BlockOf(i) ==
    LET last == entries[BlockIndex.index[BlockIndex.tail]].key
        at == (BlockIndex.tail + BlockOffset(Base(i), last)) % BlockIndex.capacity
    IN  entries[BlockIndex.index[at]].value

Remaining == Minus(tailIndex, headIndex)

DestroyedItems ==
    [k \in 1 .. Remaining |->
        LET i == Plus(headIndex, k - 1) IN elements[BlockOf(i)][Slot(i)]]

(* The blocks the loop leaves, and the tail block: it is still in use but  *)
(* when it is full and all of it was dequeued                              *)
BlocksLeft ==
    IF Remaining = 0 THEN 0
    ELSE Minus(Base(Minus(tailIndex, 1)), Base(headIndex)) \div BlockSize

BugFreedBlocks ==
    [k \in 1 .. BlocksLeft |-> BlockOf(Plus(headIndex, (k - 1) * BlockSize))]
        \o (IF tailBlock # Null /\ Slot(tailIndex) # 0 THEN <<tailBlock>> ELSE <<>>)
FreedBlocks ==
    [k \in 1 .. BlocksLeft |-> BlockOf(Plus(headIndex, (k - 1) * BlockSize))]
        \o (IF tailBlock # Null /\ (Remaining # 0 \/ Slot(tailIndex) # 0)
            THEN <<tailBlock>> ELSE <<>>)

-----------------------------------------------------------------------------
Init ==
    /\ tailIndex = 0 /\ headIndex = 0
    /\ dequeueOptimisticCount = 0 /\ dequeueOvercommit = 0
    /\ entries = [i \in 1 .. IndexSize |-> [key |-> INVALID_BLOCK_BASE, value |-> Null]]
    /\ headers = <<[capacity |-> IndexSize, tail |-> IndexSize - 1,
                    index |-> [i \in 0 .. IndexSize - 1 |-> i + 1]]>>
    /\ elements = [b \in Blocks |-> [s \in 0 .. BlockSize - 1 |-> 0]]
    /\ dequeued = [b \in Blocks |-> 0]
    /\ free = {} /\ unused = Blocks
    /\ tailBlock = Null /\ pc = "idle" /\ failures = 0
    /\ con = [c \in Consumers |-> Idle]
    /\ calls = 0 /\ published = 0 /\ claimed = 0

Next == Enqueue \/ \E c \in Consumers : Dequeue(c)

Spec == Init /\ [][Next]_vars

-----------------------------------------------------------------------------
(* Every variable has its type.                                            *)
TypeOK ==
    /\ {tailIndex, headIndex, dequeueOptimisticCount, dequeueOvercommit}
          \subseteq 0 .. Range - 1
    /\ \A i \in 1 .. Len(entries) :
          entries[i] \in [key : 0 .. Range - 1, value : Blocks \cup {Null}]
    /\ \A i \in 1 .. Len(headers) :
          /\ headers[i].tail \in 0 .. headers[i].capacity - 1
          /\ headers[i].index \in
                [0 .. headers[i].capacity - 1 -> 1 .. Len(entries)]
    /\ dequeued \in [Blocks -> 0 .. BlockSize]
    /\ free \cap unused = {}
    /\ \A c \in Consumers : con[c].pc \in {"take", "empty", "clear", "free"} =>
          con[c].block \in Blocks

(* The item that was enqueued at the index the call has come to            *)
Item(c) == con[c].first + con[c].count - Minus(con[c].end, con[c].index)

(* What a call dequeues is what was enqueued at the index it claimed,      *)
(* whatever blocks and index entries were recycled and whatever indexes    *)
(* were built meanwhile (concurrentqueue.h:2485-2531, 2716-2784).          *)
TakesWhatItClaimed ==
    \A c \in Consumers : con[c].pc = "take" =>
        /\ con[c].block # Null
        /\ \A s \in SlotsHere(c) :
              elements[con[c].block][s] = Item(c) + s - Slot(con[c].index)

(* The entry a consumer computes is its block's: the assertions of         *)
(* get_block_index_index_for_index (concurrentqueue.h:2867, 2872).         *)
EntryIsFound ==
    \A c \in Consumers : con[c].pc = "key" =>
        /\ EntryAt(c, con[c].at).key # INVALID_BLOCK_BASE
        /\ EntryAt(c, Located(c)).key = Base(con[c].index)
        /\ EntryAt(c, Located(c)).value # Null

(* A block that is free or being filled for the first time is read by no   *)
(* consumer, and it is freed once (concurrentqueue.h:2518-2531, 2977-2983).*)
NoUseAfterFree ==
    /\ \A c \in Consumers : con[c].block # Null => con[c].block \notin free \cup unused
    /\ \A c, d \in Consumers :
          con[c].pc \in {"clear", "free"} /\ c # d => con[c].block # con[d].block

(* With nobody inside dequeue, what the calls counted and gave back comes  *)
(* to the items they took: no call that lost a race leaves an item that    *)
(* later calls do not see (concurrentqueue.h:2482, 2537, 2704-2711).       *)
CountersSettle ==
    (\A c \in Consumers : con[c].pc = "idle") =>
        Minus(dequeueOptimisticCount, dequeueOvercommit) = headIndex

(* Blocks, index and counters together: every claimed index leads to its   *)
(* block, which nobody has freed, and lost races leave no trace            *)
(* (concurrentqueue.h:2473-2542, 2694-2794, 2861-2880).                    *)
ProducerBlocksInv ==
    TypeOK /\ TakesWhatItClaimed /\ EntryIsFound /\ NoUseAfterFree /\ CountersSettle

(* Deleting the queue destroys every item that was not dequeued, once, and *)
(* puts every block that is in use on the free list, once: whatever was    *)
(* recycled, no block leaks, is freed twice or is looked up in vain, not   *)
(* even when an allocation failed (concurrentqueue.h:2354-2392, 2431-2436).*)
DestructorIsExact ==
    (pc = "idle" /\ \A c \in Consumers : con[c].pc = "idle") =>
        /\ DestroyedItems = [k \in 1 .. published - claimed |-> claimed + k]
        /\ \A j, k \in 1 .. Len(FreedBlocks) :
              j # k => FreedBlocks[j] # FreedBlocks[k]
        /\ {FreedBlocks[k] : k \in 1 .. Len(FreedBlocks)} = Blocks \ (free \cup unused)

(* Items are dequeued in the order they were enqueued in, each once.       *)
Fifo == INSTANCE BulkFifo
            WITH queue <- [i \in 1 .. published - claimed |-> claimed + i],
                 got <- [c \in Consumers |->
                            IF con[c].first = 0 THEN <<>>
                            ELSE [i \in 1 .. con[c].count |-> con[c].first + i - 1]]

FifoStep == [Fifo!Next]_(Fifo!vars)
=============================================================================

---------------------------- MODULE BlockingQueue ----------------------------
(***************************************************************************)
(* The queues the program uses: a ConcurrentQueue (concurrentqueue.h:      *)
(* 911-926, 1041-1072, 1147-1157, 1241-1248) polled by GetResult, and a    *)
(* BlockingConcurrentQueue (blockingconcurrentqueue.h:519-526, 755-761,    *)
(* 857-866), which adds a semaphore whose permits stand for items.         *)
(*                                                                         *)
(* It composes what the other modules show of the parts: the semaphore is  *)
(* a counter (LightweightSemaphore implements CountingSemaphore), a        *)
(* thread's producer is its own and gets on the list before it is used     *)
(* (ProducerHash), and a producer keeps its items in order and hands each  *)
(* out once (ImplicitProducer implements BulkFifo); of a producer only the *)
(* four counters remain, for a call that loses a race to an item fails     *)
(* until the winner has put them right.  Indexes do not wrap here.         *)
(***************************************************************************)
EXTENDS Naturals, Sequences, SequencesExt, FiniteSets, Functions

CONSTANTS
    Producers, Consumers, Null,
    GameThread,     \* the consumer that polls, the only one that does
    MaxBulk,        \* bound: the most items a bulk call wants
    MaxItems        \* bound: items enqueued in all

ASSUME QueueAssumption ==
    /\ IsFiniteSet(Producers) /\ IsFiniteSet(Consumers) /\ Null \notin Producers
    /\ GameThread \in Consumers /\ MaxBulk \in Nat \ {0} /\ MaxItems \in Nat

VARIABLES
    blocking,       \* BlockingConcurrentQueue, or ConcurrentQueue: queryQueue
                    \* and m_commands, or resultQueue
    list,           \* the producers from producerListTail along next
    tail, head,     \* of each producer: tailIndex and headIndex
    optimistic,     \* dequeueOptimisticCount
    overcommit,     \* dequeueOvercommit
    signaling,      \* the producers that have enqueued and not yet signalled
    permits,        \* the semaphore
    con,            \* the local state of each consumer
    got             \* history: the items its call has dequeued

producerVars == <<blocking, list, tail, signaling>>
dequeueVars == <<head, optimistic, overcommit>>
queueVars == <<producerVars, dequeueVars, permits, con, got>>

SmallerOf(a, b) == IF a < b THEN a ELSE b

(* The sum of the values of f, which are at most `bound'                   *)
Total(f, bound) == Cardinality({u \in (DOMAIN f) \X (1 .. bound) : u[2] <= f[u[1]]})

Published == Total(tail, MaxItems)

Idle == [pc |-> "idle", bulk |-> FALSE, need |-> 0, todo |-> <<>>, seen |-> 0,
         best |-> Null, size |-> 0, found |-> 0, from |-> Null, want |-> 0,
         over |-> 0, mine |-> 0, sure |-> FALSE]

Locals ==
    [pc : {"idle", "sum", "sumHead", "list", "score", "scoreHead", "others", "next",
           "dequeue", "add", "check", "claim"},
     bulk : BOOLEAN, need : 0 .. MaxBulk, todo : Seq(Producers), seen : Nat,
     best : Producers \cup {Null}, size : Nat, found : Nat,
     from : Producers \cup {Null}, want : 0 .. MaxBulk, over : Nat, mine : Nat,
     sure : BOOLEAN]

Local(c, record) == con' = [con EXCEPT ![c] = record]

-----------------------------------------------------------------------------
(* A thread's first enqueue adds its producer to the list.                 *)
Join(p) ==
    /\ p \notin ToSet(list)
    /\ list' = <<p>> \o list
    /\ UNCHANGED <<blocking, tail, signaling, dequeueVars, permits, con, got>>

Enqueue(p) ==
    /\ p \in ToSet(list) /\ p \notin signaling
    /\ Published < MaxItems
    /\ tail' = [tail EXCEPT ![p] = @ + 1]
    /\ signaling' = IF blocking THEN signaling \cup {p} ELSE signaling
    /\ UNCHANGED <<blocking, list, dequeueVars, permits, con, got>>

(* sema->signal(), once the item is there                                  *)
BugSignalItem(p) ==
    /\ p \in signaling
    /\ signaling' = signaling \ {p}
    /\ permits' = IF permits = 0 THEN 1 ELSE permits
    /\ UNCHANGED <<blocking, list, tail, dequeueVars, con, got>>
SignalItem(p) ==
    /\ p \in signaling
    /\ signaling' = signaling \ {p}
    /\ permits' = permits + 1
    /\ UNCHANGED <<blocking, list, tail, dequeueVars, con, got>>

-----------------------------------------------------------------------------
(* wait_dequeue: past the semaphore, one item is owed to the call; and     *)
(* wait_dequeue_bulk_timed: as many as the permits it got                  *)
WaitDequeue(c, n, bulk) ==
    /\ blocking /\ con[c].pc = "idle"
    /\ n <= permits
    /\ permits' = permits - n
    /\ Local(c, [Idle EXCEPT !.pc = "list", !.bulk = bulk, !.need = n])
    /\ got' = [got EXCEPT ![c] = <<>>]
    /\ UNCHANGED <<producerVars, dequeueVars>>

(* GetResult, which looks at size_approx first                             *)
GetResult(c) ==
    /\ ~blocking /\ c = GameThread /\ con[c].pc = "idle"
    /\ Local(c, [Idle EXCEPT !.pc = "sum", !.todo = list,
                             !.sure = \E p \in Producers : head[p] < tail[p]])
    /\ got' = [got EXCEPT ![c] = <<>>]
    /\ UNCHANGED <<producerVars, dequeueVars, permits>>

(* ProducerBase::size_approx: tailIndex, then headIndex                    *)
LoadTail(c) ==
    /\ con[c].pc \in {"sum", "score"}
    /\ con[c].todo # <<>> /\ con[c].found < 3
    /\ Local(c, [con[c] EXCEPT !.seen = tail[Head(con[c].todo)],
                               !.pc = IF @ = "sum" THEN "sumHead" ELSE "scoreHead"])
    /\ UNCHANGED <<producerVars, dequeueVars, permits, got>>

Size(c) ==
    LET p == Head(con[c].todo)
    IN  IF head[p] < con[c].seen THEN con[c].seen - head[p] ELSE 0

BugAddSize(c) ==
    /\ con[c].pc = "sumHead"
    /\ Local(c, [con[c] EXCEPT !.pc = "sum", !.todo = Tail(@), !.seen = 0,
                               !.size = Size(c)])
    /\ UNCHANGED <<producerVars, dequeueVars, permits, got>>
AddSize(c) ==
    /\ con[c].pc = "sumHead"
    /\ Local(c, [con[c] EXCEPT !.pc = "sum", !.todo = Tail(@), !.seen = 0,
                               !.size = @ + Size(c)])
    /\ UNCHANGED <<producerVars, dequeueVars, permits, got>>

Summed(c) ==
    /\ con[c].pc = "sum" /\ con[c].todo = <<>>
    /\ Local(c, IF con[c].size = 0 THEN Idle
                ELSE [con[c] EXCEPT !.pc = "list", !.size = 0, !.need = 1])
    /\ UNCHANGED <<producerVars, dequeueVars, permits, got>>

-----------------------------------------------------------------------------
(* try_dequeue scores the first three producers that are not empty;        *)
(* try_dequeue_bulk takes them in turn.                                    *)
LoadList(c) ==
    /\ con[c].pc \in {"list", "others"}
    /\ Local(c, [con[c] EXCEPT !.todo = list,
                   !.pc = IF con[c].bulk \/ @ = "others" THEN "next" ELSE "score"])
    /\ UNCHANGED <<producerVars, dequeueVars, permits, got>>

Score(c) ==
    /\ con[c].pc = "scoreHead"
    /\ LET n == Size(c)
       IN  Local(c, [con[c] EXCEPT !.pc = "score", !.todo = Tail(@), !.seen = 0,
                       !.found = IF n > 0 THEN @ + 1 ELSE @,
                       !.best = IF n > con[c].size THEN Head(con[c].todo) ELSE @,
                       !.size = IF n > @ THEN n ELSE @])
    /\ UNCHANGED <<producerVars, dequeueVars, permits, got>>

(* Nothing found: the blocking queue's loop tries again, for the permit    *)
(* says that there is an item; GetResult returns nullptr                   *)
Retry(c) ==
    IF blocking
    THEN [Idle EXCEPT !.pc = "list", !.bulk = con[c].bulk, !.need = con[c].need]
    ELSE Idle

Scored(c) ==
    /\ con[c].pc = "score"
    /\ con[c].todo = <<>> \/ con[c].found = 3
    /\ Local(c, IF con[c].found = 0 THEN Retry(c)
                ELSE [con[c] EXCEPT !.pc = "dequeue", !.todo = <<>>, !.size = 0,
                                    !.found = 0, !.from = con[c].best])
    /\ UNCHANGED <<producerVars, dequeueVars, permits, got>>

(* The producers one after the other, without the one tried first          *)
NextProducer(c) ==
    /\ con[c].pc = "next"
    /\ Local(c, IF con[c].todo = <<>> THEN Retry(c)
                ELSE IF Head(con[c].todo) = con[c].best
                THEN [con[c] EXCEPT !.todo = Tail(@)]
                ELSE [con[c] EXCEPT !.pc = "dequeue", !.todo = Tail(@),
                                    !.from = Head(con[c].todo)])
    /\ UNCHANGED <<producerVars, dequeueVars, permits, got>>

-----------------------------------------------------------------------------
(* dequeue and dequeue_bulk of the producer `from'                         *)

(* Nothing there: the others, if it was the best one                       *)
Failed(c) ==
    [con[c] EXCEPT !.pc = IF con[c].from = con[c].best THEN "others" ELSE "next",
                   !.from = Null, !.want = 0, !.over = 0, !.mine = 0]

There(p, count, want) ==
    IF count < tail[p] THEN SmallerOf(want, tail[p] - count) ELSE 0

Look(c) ==
    /\ con[c].pc = "dequeue"
    /\ LET p == con[c].from
           n == There(p, optimistic[p] - overcommit[p], con[c].need)
       IN  Local(c, IF n = 0 THEN Failed(c)
                    ELSE [con[c] EXCEPT !.pc = "add", !.want = n, !.over = overcommit[p]])
    /\ UNCHANGED <<producerVars, dequeueVars, permits, got>>

AddOptimistic(c) ==
    /\ con[c].pc = "add"
    /\ LET p == con[c].from
       IN  /\ optimistic' = [optimistic EXCEPT ![p] = @ + con[c].want]
           /\ Local(c, [con[c] EXCEPT !.pc = "check", !.mine = optimistic[p]])
    /\ UNCHANGED <<producerVars, head, overcommit, permits, got>>

(* What is left for this call, and what it has counted too much            *)
AddOvercommit(c) ==
    /\ con[c].pc = "check"
    /\ LET p == con[c].from
           n == There(p, con[c].mine - con[c].over, con[c].want)
       IN  /\ overcommit' = [overcommit EXCEPT ![p] = @ + con[c].want - n]
           /\ Local(c, IF n = 0 THEN Failed(c)
                       ELSE [con[c] EXCEPT !.pc = "claim", !.want = n])
    /\ UNCHANGED <<producerVars, head, optimistic, permits, got>>

BugClaim(c) ==
    /\ con[c].pc = "claim"
    /\ LET p == con[c].from
           n == con[c].want
           left == con[c].need - n
       IN  /\ head' = [head EXCEPT ![p] = @ + n]
           /\ got' = [got EXCEPT ![c] = @ \o [i \in 1 .. n |-> <<p, con[c].mine + i>>]]
           /\ Local(c, IF left = 0 THEN Idle
                       ELSE [con[c] EXCEPT !.pc = "next", !.need = left,
                               !.from = Null, !.want = 0, !.over = 0, !.mine = 0])
    /\ UNCHANGED <<producerVars, optimistic, overcommit, permits>>
BugClaimLess(c) ==
    /\ con[c].pc = "claim"
    /\ LET p == con[c].from
           n == con[c].want
           left == con[c].need - n
       IN  /\ head' = [head EXCEPT ![p] = @ + n]
           /\ got' = [got EXCEPT ![c] = @ \o [i \in 1 .. n |-> <<p, head[p] + i>>]]
           /\ Local(c, IF left >= 0 THEN Idle
                       ELSE [con[c] EXCEPT !.pc = "next", !.need = left,
                               !.from = Null, !.want = 0, !.over = 0, !.mine = 0])
    /\ UNCHANGED <<producerVars, optimistic, overcommit, permits>>
Claim(c) ==
    /\ con[c].pc = "claim"
    /\ LET p == con[c].from
           n == con[c].want
           left == con[c].need - n
       IN  /\ head' = [head EXCEPT ![p] = @ + n]
           /\ got' = [got EXCEPT ![c] = @ \o [i \in 1 .. n |-> <<p, head[p] + i>>]]
           /\ Local(c, IF left = 0 THEN Idle
                       ELSE [con[c] EXCEPT !.pc = "next", !.need = left,
                               !.from = Null, !.want = 0, !.over = 0, !.mine = 0])
    /\ UNCHANGED <<producerVars, optimistic, overcommit, permits>>

-----------------------------------------------------------------------------
QueueInit ==
    /\ blocking \in BOOLEAN
    /\ list = <<>>
    /\ tail = [p \in Producers |-> 0] /\ head = [p \in Producers |-> 0]
    /\ optimistic = [p \in Producers |-> 0] /\ overcommit = [p \in Producers |-> 0]
    /\ signaling = {} /\ permits = 0
    /\ con = [c \in Consumers |-> Idle] /\ got = [c \in Consumers |-> <<>>]

Call(c) ==
    \/ WaitDequeue(c, 1, FALSE) \/ \E n \in 1 .. MaxBulk : WaitDequeue(c, n, TRUE)
    \/ GetResult(c)

Step(c) ==
    \/ LoadTail(c) \/ AddSize(c) \/ Summed(c) \/ LoadList(c) \/ Score(c)
    \/ Scored(c) \/ NextProducer(c) \/ Look(c) \/ AddOptimistic(c)
    \/ AddOvercommit(c) \/ Claim(c)

QueueNext ==
    \/ \E p \in Producers : Join(p) \/ Enqueue(p) \/ SignalItem(p)
    \/ \E c \in Consumers : Call(c) \/ Step(c)

(* Consumers call again and again (extension.cpp:160, client.cpp:58, and   *)
(* RunFrame every frame) and every thread goes on with what it does.       *)
QueueFairness ==
    /\ \A c \in Consumers : WF_queueVars(Call(c)) /\ WF_queueVars(Step(c))
    /\ \A p \in Producers : WF_queueVars(SignalItem(p))

QueueSpec == QueueInit /\ [][QueueNext]_queueVars /\ QueueFairness

-----------------------------------------------------------------------------
(* The variables have their types: no producer's counters are below 0.     *)
QueueTypeOK ==
    /\ list \in Seq(Producers) /\ IsInjective(list)
    /\ tail \in [Producers -> 0 .. MaxItems] /\ head \in [Producers -> 0 .. MaxItems]
    /\ {optimistic, overcommit} \subseteq [Producers -> Nat]
    /\ signaling \subseteq Producers /\ permits \in Nat /\ blocking \in BOOLEAN
    /\ con \in [Consumers -> Locals]

(* Every permit, taken or not, stands for an item that is there: the items *)
(* not dequeued are the permits, those about to be signalled and those     *)
(* owed to calls past the semaphore (blockingconcurrentqueue.h:521, 758).  *)
PermitsAreItems ==
    blocking =>
        Published = Total(head, MaxItems) + permits + Cardinality(signaling)
                        + Total([c \in Consumers |-> con[c].need], MaxBulk)

(* Semaphore, list and counters together (blockingconcurrentqueue.h:519-526, *)
(* 755-761).                                                               *)
QueueInv == QueueTypeOK /\ PermitsAreItems

(* Every item enqueued is dequeued, whichever producer it is with and      *)
(* however many others have items (concurrentqueue.h:1048-1070).           *)
EveryItemDequeued ==
    \A p \in Producers : \A i \in 1 .. MaxItems : tail[p] >= i ~> head[p] >= i

(* A lone consumer does not come back empty-handed when an item was there  *)
(* before it called: a result is not put off to a later frame              *)
(* (TQueue.h:73-80).                                                       *)
LonePollFinds ==
    [][\A c \in Consumers :
          ~blocking /\ con[c].sure /\ con[c].pc # "idle" /\ con'[c].pc = "idle"
             => got'[c] # <<>>]_queueVars

(* The items of a producer that are there: the abstract queue.             *)
Fifo == INSTANCE SharedFifo
            WITH queue <- [p \in Producers |->
                    [i \in 1 .. tail[p] - head[p] |-> <<p, head[p] + i>>]]

(* Items come out in the order their producer enqueued them, each once     *)
(* (concurrentqueue.h:911-926, TQueue.h:54-80).                            *)
QueueIsFifo == Fifo!Spec
=============================================================================

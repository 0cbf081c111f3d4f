---------------------------- MODULE WorkerShutdown ----------------------------
(***************************************************************************)
(* How the extension is unloaded (extension.cpp, CookieManager::Unload).   *)
(*                                                                         *)
(* The query threads are detached.  SDK_OnUnload puts one nullptr per      *)
(* thread into the query queue, waits until worker_exit is 0 and deletes   *)
(* the queue; then SourceMod calls SDK_OnDependenciesDropped, which saves  *)
(* the values of the players who are still connected.  worker_exit starts  *)
(* at 0, and a thread that takes a nullptr decrements it.                  *)
(*                                                                         *)
(* What a query does is left out; a thread whose connection is down holds  *)
(* its query until Redis can be reached again.                             *)
(***************************************************************************)
EXTENDS Integers, Sequences, FiniteSets

CONSTANTS
    Workers,        \* the query threads (RedisQueryThread)
    Slots,          \* the slots of connected players
    MaxQueue,       \* bound: operations in the queue before unloading
    NullPtr         \* the nullptr that ends a thread

(* An operation is the save of a slot's value, or any other query.         *)
Operations == Slots \cup {"query"}

ASSUME ShutdownAssumption ==
    /\ IsFiniteSet(Workers)
    /\ MaxQueue \in Nat
    /\ NullPtr \notin Operations

VARIABLES
    phase,          \* how far the game thread is: "running", "notifying",
                    \* "waiting", "deleted" or "dropped"
    notified,       \* how many nullptrs SDK_OnUnload has queued
    unsaved,        \* slots that hold a changed value
    lost,           \* slots whose save was put into a deleted queue
    queryQueue,     \* TQueue::queryQueue
    tqqDeleted,     \* delete tqq; nobody clears the pointer
    worker_exit,
    thread,         \* thread -> "connecting", "waiting" in GetQuery, "running",
                    \* "exited", or "astray": it uses a deleted queue
    op              \* thread -> what it runs, NullPtr if nothing

gameVars == <<phase, notified, unsaved, lost>>
threadVars == <<worker_exit, thread, op>>
shutdownVars == <<gameVars, queryQueue, tqqDeleted, threadVars>>
-----------------------------------------------------------------------------
(* The game thread.                                                        *)

(* tqq->AddToThreadQueue for several operations; only on a live queue.     *)
BugPriority(ops) == queryQueue' = ops \o queryQueue   \* what comes last runs first
AddToThreadQueue(ops) == queryQueue' = queryQueue \o ops

(* Some handler makes a query, a plugin changes a value, a player leaves.  *)
Query ==
    /\ phase = "running" /\ Len(queryQueue) < MaxQueue
    /\ AddToThreadQueue(<<"query">>)
    /\ UNCHANGED <<gameVars, tqqDeleted, threadVars>>

SetCookieValue(c) ==
    /\ phase = "running"
    /\ unsaved' = unsaved \cup {c}
    /\ UNCHANGED <<phase, notified, lost, queryQueue, tqqDeleted, threadVars>>

OnClientDisconnecting(c) ==
    /\ phase = "running" /\ Len(queryQueue) < MaxQueue
    /\ c \in unsaved
    /\ unsaved' = unsaved \ {c}
    /\ AddToThreadQueue(<<c>>)
    /\ UNCHANGED <<phase, notified, lost, tqqDeleted, threadVars>>

(* SDK_OnUnload: the frame hook goes, each thread gets a nullptr.          *)
RemoveGameFrameHook ==
    /\ phase = "running"
    /\ phase' = "notifying"
    /\ UNCHANGED <<notified, unsaved, lost, queryQueue, tqqDeleted, threadVars>>

NotifyUpTo(n) ==
    /\ phase = "notifying"
    /\ \/ /\ notified < n
          /\ AddToThreadQueue(<<NullPtr>>)
          /\ notified' = notified + 1
          /\ UNCHANGED phase
       \/ /\ notified = n
          /\ phase' = "waiting"
          /\ UNCHANGED <<notified, queryQueue>>
    /\ UNCHANGED <<unsaved, lost, tqqDeleted, threadVars>>

BugNotifyFewer == NotifyUpTo(Cardinality(Workers) - 1)    \* one thread gets none
Notify == NotifyUpTo(Cardinality(Workers))

(* It sleeps as long as worker_exit is not 0.                              *)
DeleteQueue ==
    /\ phase = "waiting" /\ worker_exit = 0
    /\ phase' = "deleted"
    /\ tqqDeleted' = TRUE
    /\ UNCHANGED <<notified, unsaved, lost, queryQueue, threadVars>>

(* SDK_OnDependenciesDropped: Unload runs OnClientDisconnecting for every  *)
(* connected slot, whose saves go to tqq.                                  *)
SDK_OnDependenciesDropped ==
    /\ phase = "deleted"
    /\ phase' = "dropped"
    /\ unsaved' = {}
    /\ lost' = IF tqqDeleted THEN unsaved ELSE {}
    /\ UNCHANGED <<notified, queryQueue, tqqDeleted, threadVars>>
-----------------------------------------------------------------------------
(* Query thread w.                                                         *)

(* connectDb reaches Redis, for the first time or again.                   *)
ConnectDb(w) ==
    /\ thread[w] = "connecting"
    /\ thread' = [thread EXCEPT ![w] = IF op[w] = NullPtr THEN "waiting" ELSE "running"]
    /\ UNCHANGED <<gameVars, queryQueue, tqqDeleted, worker_exit, op>>

(* GetQuery returns: a nullptr ends the thread; an operation is run, over  *)
(* a new connection if the old one is down.                                *)
GetQuery(w) ==
    /\ thread[w] = "waiting" /\ ~tqqDeleted
    /\ queryQueue # <<>>
    /\ queryQueue' = Tail(queryQueue)
    /\ op' = [op EXCEPT ![w] = Head(queryQueue)]
    /\ \/ /\ Head(queryQueue) = NullPtr
          /\ worker_exit' = worker_exit - 1
          /\ thread' = [thread EXCEPT ![w] = "exited"]
       \/ /\ Head(queryQueue) # NullPtr
          /\ \E next \in {"running", "connecting"} : thread' = [thread EXCEPT ![w] = next]
          /\ UNCHANGED worker_exit
    /\ UNCHANGED <<gameVars, tqqDeleted>>

(* RunThreadPart and PutResult, into the same TQueue.                      *)
RunThreadPart(w) ==
    /\ thread[w] = "running" /\ ~tqqDeleted
    /\ op' = [op EXCEPT ![w] = NullPtr]
    /\ thread' = [thread EXCEPT ![w] = "waiting"]
    /\ UNCHANGED <<gameVars, queryQueue, tqqDeleted, worker_exit>>

(* GetQuery or PutResult on a TQueue that is gone: undefined, the thread   *)
(* does nothing more that can be relied on.                                *)
GoAstray(w) ==
    /\ thread[w] \in {"waiting", "running"} /\ tqqDeleted
    /\ thread' = [thread EXCEPT ![w] = "astray"]
    /\ UNCHANGED <<gameVars, queryQueue, tqqDeleted, worker_exit, op>>
-----------------------------------------------------------------------------
ShutdownInit ==
    /\ phase = "running" /\ notified = 0
    /\ unsaved = {} /\ lost = {}
    /\ queryQueue = <<>> /\ tqqDeleted = FALSE
    /\ worker_exit = 0
    /\ thread = [w \in Workers |-> "connecting"]
    /\ op = [w \in Workers |-> NullPtr]

Game ==
    \/ Query \/ RemoveGameFrameHook \/ Notify \/ DeleteQueue
    \/ SDK_OnDependenciesDropped
    \/ \E c \in Slots : SetCookieValue(c) \/ OnClientDisconnecting(c)

Worker(w) == ConnectDb(w) \/ GetQuery(w) \/ RunThreadPart(w) \/ GoAstray(w)

ShutdownNext == Game \/ \E w \in Workers : Worker(w)

(* Unloading, once begun, goes on; threads are scheduled, and Redis can be *)
(* reached again some time.                                                *)
ShutdownFairness ==
    /\ WF_shutdownVars(Notify \/ DeleteQueue \/ SDK_OnDependenciesDropped)
    /\ \A w \in Workers : WF_shutdownVars(Worker(w))

ShutdownSpec == ShutdownInit /\ [][ShutdownNext]_shutdownVars /\ ShutdownFairness
-----------------------------------------------------------------------------
(***************************************************************************)
(* Properties                                                              *)
(***************************************************************************)
Exited == {w \in Workers : thread[w] = "exited"}

(* Every variable has its type.                                            *)
ShutdownTypeOK ==
    /\ phase \in {"running", "notifying", "waiting", "deleted", "dropped"}
    /\ notified \in 0..Cardinality(Workers)
    /\ unsaved \subseteq Slots /\ lost \subseteq Slots
    /\ queryQueue \in Seq(Operations \cup {NullPtr})
    /\ tqqDeleted \in BOOLEAN
    /\ worker_exit \in Int
    /\ thread \in [Workers -> {"connecting", "waiting", "running", "exited", "astray"}]
    /\ op \in [Workers -> Operations \cup {NullPtr}]

(* A thread that exits leaves no operation behind: what was queued before  *)
(* the extension was unloaded is run, because the nullptrs come after it   *)
(* and each thread takes one only; the last one leaves no nullptr either.  *)
DrainedBeforeExit ==
    Exited # {} => /\ \A i \in DOMAIN queryQueue : queryQueue[i] = NullPtr
                   /\ Exited = Workers => queryQueue = <<>>

(* Both, and no thread is told to end more often than there are threads.   *)
ShutdownInv == ShutdownTypeOK /\ DrainedBeforeExit

(* Every thread that got its nullptr in time exits: unloading ends the     *)
(* threads unless it deletes the queue under them.                         *)
ThreadsExit == phase = "waiting" ~> (Exited = Workers \/ tqqDeleted)

(* SDK_OnDependenciesDropped runs when the query threads are done          *)
(* (extension.cpp:262: "we're guaranteed that DBI has flushed the worker   *)
(* thread for us, so no cookies should have outstanding queries").         *)
FlushedWhenDropped ==
    phase = "dropped" => Exited = Workers /\ queryQueue = <<>>

(* The values of players who are connected when the extension is unloaded  *)
(* are queued for storage where a thread will find them (cookie.cpp:53:    *)
(* "If clients are connected we should try save their data").              *)
ConnectedPlayersSaved == lost = {}
=============================================================================

------------------------- MODULE WorkerShutdownProofs -------------------------
(***************************************************************************)
(* Proof that unloading drains the query queue, ShutdownSpec =>            *)
(* []ShutdownInv, for any finite number of query threads (RedisQueryThread *)
(* may even be 0), of players and of queued operations.                    *)
(*                                                                         *)
(* That no operation is left once a thread exited is not inductive by      *)
(* itself: it needs the shape of the queue.  There is a number k such that *)
(* the first k entries are operations and the others are nullptrs; the     *)
(* nullptrs and the threads that took one are as many as were queued; none *)
(* is queued before unloading, and a thread exits only when k is 0.        *)
(***************************************************************************)
EXTENDS WorkerShutdown, FiniteSetTheorems, TLAPS

NullsAfter(k) ==
    /\ k \in 0 .. Len(queryQueue)
    /\ \A i \in 1 .. Len(queryQueue) : queryQueue[i] = NullPtr <=> i > k
    /\ (Len(queryQueue) - k) + Cardinality(Exited) = notified
    /\ Exited # {} => k = 0

NullsLast ==
    /\ \E k \in Nat : NullsAfter(k)
    /\ phase = "running" => notified = 0

IInv == ShutdownTypeOK /\ NullsLast

-----------------------------------------------------------------------------
(* The threads that exited can be counted.                                 *)
LEMMA ExitedCount ==
    /\ Cardinality(Workers) \in Nat
    /\ IsFiniteSet(Exited) /\ Cardinality(Exited) \in Nat
    /\ Cardinality(Exited) <= Cardinality(Workers)
    /\ Cardinality(Exited) = 0 <=> Exited = {}
    /\ Cardinality(Exited) = Cardinality(Workers) => Exited = Workers
<1>1. Exited \subseteq Workers
  BY DEF Exited
<1>2. IsFiniteSet(Workers)
  BY ShutdownAssumption
<1>3. QED
  BY <1>1, <1>2, FS_Subset, FS_CardinalityType, FS_EmptySet

(* The invariant implies the property.                                     *)
LEMMA NullsLastDrains == IInv => ShutdownInv
<1>1. SUFFICES ASSUME ShutdownTypeOK, Exited # {}, NEW k \in Nat, NullsAfter(k)
               PROVE  /\ \A i \in DOMAIN queryQueue : queryQueue[i] = NullPtr
                      /\ Exited = Workers => queryQueue = <<>>
  BY DEF IInv, NullsLast, ShutdownInv, DrainedBeforeExit
<1>2. k = 0 /\ Len(queryQueue) \in Nat /\ DOMAIN queryQueue = 1 .. Len(queryQueue)
  BY <1>1 DEF NullsAfter, ShutdownTypeOK
<1>3. \A i \in DOMAIN queryQueue : queryQueue[i] = NullPtr
  BY <1>1, <1>2 DEF NullsAfter
<1>4. ASSUME Exited = Workers PROVE queryQueue = <<>>
  <2>1. Len(queryQueue) + Cardinality(Workers) <= Cardinality(Workers)
    BY <1>1, <1>2, <1>4, ExitedCount DEF NullsAfter, ShutdownTypeOK
  <2>2. Len(queryQueue) = 0
    BY <1>2, <2>1, ExitedCount
  <2>3. QED
    BY <1>1, <2>2 DEF ShutdownTypeOK
<1>5. QED
  BY <1>3, <1>4

-----------------------------------------------------------------------------
(* The initial states.                                                     *)
LEMMA InitIInv == ShutdownInit => IInv
<1>1. SUFFICES ASSUME ShutdownInit PROVE IInv
  OBVIOUS
<1>2. ShutdownTypeOK
  <2>1. 0 \in 0 .. Cardinality(Workers)
    BY ExitedCount
  <2>2. queryQueue \in Seq(Operations \cup {NullPtr})
    BY <1>1 DEF ShutdownInit
  <2>3. /\ thread \in [Workers -> {"connecting", "waiting", "running", "exited", "astray"}]
        /\ op \in [Workers -> Operations \cup {NullPtr}]
    BY <1>1 DEF ShutdownInit
  <2>4. notified \in 0 .. Cardinality(Workers)
    BY <1>1, <2>1 DEF ShutdownInit
  <2>5. unsaved \subseteq Slots /\ lost \subseteq Slots /\ worker_exit \in Int
    BY <1>1 DEF ShutdownInit
  <2>6. QED
    BY <1>1, <2>2, <2>3, <2>4, <2>5 DEF ShutdownInit, ShutdownTypeOK
<1>3. Exited = {} /\ Len(queryQueue) = 0
  BY <1>1 DEF ShutdownInit, Exited
<1>4. NullsAfter(0)
  BY <1>1, <1>3, ExitedCount DEF ShutdownInit, NullsAfter
<1>5. QED
  BY <1>1, <1>2, <1>4 DEF IInv, NullsLast, ShutdownInit

(* The types, one action after the other.                                  *)
LEMMA TypeStep == ShutdownTypeOK /\ [ShutdownNext]_shutdownVars => ShutdownTypeOK'
<1>1. SUFFICES ASSUME ShutdownTypeOK, [ShutdownNext]_shutdownVars PROVE ShutdownTypeOK'
  OBVIOUS
<1> USE <1>1 DEF ShutdownTypeOK
<1>2. CASE Query
  BY <1>2 DEF Query, AddToThreadQueue, Operations, gameVars, threadVars
<1>3. ASSUME NEW c \in Slots, SetCookieValue(c) PROVE ShutdownTypeOK'
  BY <1>3 DEF SetCookieValue, threadVars
<1>4. ASSUME NEW c \in Slots, OnClientDisconnecting(c) PROVE ShutdownTypeOK'
  BY <1>4 DEF OnClientDisconnecting, AddToThreadQueue, Operations, threadVars
<1>5. CASE RemoveGameFrameHook
  BY <1>5 DEF RemoveGameFrameHook, threadVars
<1>6. CASE Notify
  <2>1. Cardinality(Workers) \in Nat
    BY ExitedCount
  <2>2. UNCHANGED <<unsaved, lost, tqqDeleted, worker_exit, thread, op>>
    BY <1>6 DEF Notify, NotifyUpTo, threadVars
  <2>3. CASE /\ notified < Cardinality(Workers) /\ AddToThreadQueue(<<NullPtr>>)
             /\ notified' = notified + 1 /\ UNCHANGED phase
    <3>1. <<NullPtr>> \in Seq(Operations \cup {NullPtr})
      OBVIOUS
    <3>2. queryQueue' \in Seq(Operations \cup {NullPtr})
      BY <2>3, <3>1 DEF AddToThreadQueue
    <3>3. notified' \in 0 .. Cardinality(Workers)
      BY <2>1, <2>3
    <3>4. QED
      BY <2>2, <2>3, <3>2, <3>3
  <2>4. CASE phase' = "waiting" /\ UNCHANGED <<notified, queryQueue>>
    BY <2>2, <2>4
  <2>5. QED
    BY <1>6, <2>3, <2>4 DEF Notify, NotifyUpTo
<1>7. CASE DeleteQueue \/ SDK_OnDependenciesDropped
  BY <1>7 DEF DeleteQueue, SDK_OnDependenciesDropped, threadVars
<1>8. ASSUME NEW w \in Workers, ConnectDb(w) PROVE ShutdownTypeOK'
  BY <1>8 DEF ConnectDb, gameVars
<1>9. ASSUME NEW w \in Workers, GetQuery(w) PROVE ShutdownTypeOK'
  <2>1. /\ Head(queryQueue) \in Operations \cup {NullPtr}
        /\ Tail(queryQueue) \in Seq(Operations \cup {NullPtr})
    BY <1>9 DEF GetQuery
  <2>2. QED
    BY <1>9, <2>1 DEF GetQuery, gameVars
<1>10. ASSUME NEW w \in Workers, RunThreadPart(w) \/ GoAstray(w) PROVE ShutdownTypeOK'
  BY <1>10 DEF RunThreadPart, GoAstray, gameVars
<1>11. CASE UNCHANGED shutdownVars
  BY <1>11 DEF shutdownVars, gameVars, threadVars
<1>12. QED
  BY <1>2, <1>3, <1>4, <1>5, <1>6, <1>7, <1>8, <1>9, <1>10, <1>11
     DEF ShutdownNext, Game, Worker

(* What leaves the queue, the count and the exited threads alone keeps the *)
(* shape, and so does an operation that is queued while the game runs.     *)
LEMMA ShapeKept ==
    ASSUME IInv, UNCHANGED <<queryQueue, notified>>, Exited' = Exited,
           phase' = "running" => phase = "running"
    PROVE  NullsLast'
<1>1. PICK k \in Nat : NullsAfter(k)
  BY DEF IInv, NullsLast
<1>2. NullsAfter(k)'
  BY <1>1 DEF NullsAfter
<1>3. QED
  BY <1>1, <1>2 DEF IInv, NullsLast

LEMMA OperationQueued ==
    ASSUME IInv, phase = "running", NEW o \in Operations,
           queryQueue' = Append(queryQueue, o), Exited' = Exited,
           UNCHANGED <<phase, notified>>
    PROVE  NullsLast'
<1>1. PICK k \in Nat : NullsAfter(k)
  BY DEF IInv, NullsLast
<1>2. notified = 0 /\ queryQueue \in Seq(Operations \cup {NullPtr}) /\ o # NullPtr
  BY ShutdownAssumption DEF IInv, NullsLast, ShutdownTypeOK
<1>3. k = Len(queryQueue) /\ Exited = {} /\ Cardinality(Exited) = 0
  BY <1>1, <1>2, ExitedCount DEF NullsAfter
<1>4. NullsAfter(k + 1)'
  <2>1. Len(queryQueue') = k + 1
    BY <1>2, <1>3
  <2>2. \A i \in 1 .. k + 1 : queryQueue'[i] # NullPtr
    BY <1>1, <1>2, <1>3 DEF NullsAfter
  <2>3. QED
    BY <1>2, <1>3, <2>1, <2>2 DEF NullsAfter
<1>5. QED
  BY <1>1, <1>2, <1>4 DEF NullsLast

(* A nullptr comes last.                                                   *)
LEMMA NullQueued ==
    ASSUME IInv, phase = "notifying",
           queryQueue' = Append(queryQueue, NullPtr), Exited' = Exited,
           notified' = notified + 1, UNCHANGED phase
    PROVE  NullsLast'
<1>1. PICK k \in Nat : NullsAfter(k)
  BY DEF IInv, NullsLast
<1>2. queryQueue \in Seq(Operations \cup {NullPtr}) /\ notified \in Nat
  BY ExitedCount DEF IInv, ShutdownTypeOK
<1>3. NullsAfter(k)'
  <2>1. Len(queryQueue') = Len(queryQueue) + 1
    BY <1>2
  <2>2. \A i \in 1 .. Len(queryQueue') : queryQueue'[i] = NullPtr <=> i > k
    BY <1>1, <1>2 DEF NullsAfter
  <2>3. QED
    BY <1>1, <1>2, <2>1, <2>2, ExitedCount DEF NullsAfter
<1>4. QED
  BY <1>3 DEF NullsLast

(* A thread takes what is first: the threads exit one after the other once *)
(* the operations are gone.                                                *)
LEMMA FirstTaken ==
    ASSUME IInv, NEW w \in Workers, GetQuery(w)
    PROVE  NullsLast'
<1>1. PICK k \in Nat : NullsAfter(k)
  BY DEF IInv, NullsLast
<1>2. /\ queryQueue \in Seq(Operations \cup {NullPtr})
      /\ thread \in [Workers -> {"connecting", "waiting", "running", "exited", "astray"}]
      /\ notified \in Nat
  BY ExitedCount DEF IInv, ShutdownTypeOK
<1>3. /\ queryQueue # <<>> /\ Len(queryQueue) > 0
      /\ queryQueue' = Tail(queryQueue) /\ Len(queryQueue') = Len(queryQueue) - 1
      /\ \A i \in 1 .. Len(queryQueue') : queryQueue'[i] = queryQueue[i + 1]
      /\ Head(queryQueue) = queryQueue[1]
      /\ UNCHANGED <<phase, notified>> /\ thread[w] = "waiting"
  BY <1>2 DEF GetQuery, gameVars
<1>4. CASE Head(queryQueue) = NullPtr
  <2>1. k = 0
    BY <1>1, <1>2, <1>3, <1>4 DEF NullsAfter
  <2>2. thread' = [thread EXCEPT ![w] = "exited"]
    BY <1>4 DEF GetQuery
  <2>3. Exited' = Exited \cup {w} /\ w \notin Exited
    BY <1>2, <1>3, <2>2 DEF Exited
  <2>4. Cardinality(Exited') = Cardinality(Exited) + 1
    BY <2>3, ExitedCount, FS_AddElement
  <2>5. NullsAfter(0)'
    BY <1>1, <1>2, <1>3, <2>1, <2>4, ExitedCount DEF NullsAfter
  <2>6. QED
    BY <1>3, <2>5 DEF NullsLast, IInv
<1>5. CASE Head(queryQueue) # NullPtr
  <2>1. k > 0
    BY <1>1, <1>2, <1>3, <1>5 DEF NullsAfter
  <2>2. PICK next \in {"running", "connecting"} : thread' = [thread EXCEPT ![w] = next]
    BY <1>5 DEF GetQuery
  <2>3. Exited' = Exited
    BY <1>2, <1>3, <2>2 DEF Exited
  <2>4. Exited = {}
    BY <1>1, <2>1 DEF NullsAfter
  <2>5. NullsAfter(k - 1)'
    <3>1. k - 1 \in 0 .. Len(queryQueue')
      BY <1>1, <1>2, <1>3, <2>1 DEF NullsAfter
    <3>2. \A i \in 1 .. Len(queryQueue') : queryQueue'[i] = NullPtr <=> i > k - 1
      BY <1>1, <1>2, <1>3, <2>1 DEF NullsAfter
    <3>3. QED
      BY <1>1, <1>2, <1>3, <2>1, <2>3, <2>4, <3>1, <3>2, ExitedCount DEF NullsAfter
  <2>6. QED
    BY <1>3, <2>1, <2>5 DEF NullsLast, IInv
<1>6. QED
  BY <1>4, <1>5

LEMMA NextIInv == IInv /\ [ShutdownNext]_shutdownVars => IInv'
<1>1. SUFFICES ASSUME IInv, [ShutdownNext]_shutdownVars PROVE NullsLast'
  BY TypeStep DEF IInv
<1>2. thread \in [Workers -> {"connecting", "waiting", "running", "exited", "astray"}]
  BY <1>1 DEF IInv, ShutdownTypeOK
<1>3. queryQueue \in Seq(Operations \cup {NullPtr})
  BY <1>1 DEF IInv, ShutdownTypeOK
<1>4. \A o : queryQueue \o <<o>> = Append(queryQueue, o)
  BY <1>3
<1>5. CASE Query
  BY <1>1, <1>4, <1>5, OperationQueued
     DEF Query, AddToThreadQueue, Operations, gameVars, threadVars, Exited
<1>6. ASSUME NEW c \in Slots, OnClientDisconnecting(c) PROVE NullsLast'
  BY <1>1, <1>4, <1>6, OperationQueued
     DEF OnClientDisconnecting, AddToThreadQueue, Operations, threadVars, Exited
<1>7. ASSUME NEW c \in Slots, SetCookieValue(c) PROVE NullsLast'
  BY <1>1, <1>7, ShapeKept DEF SetCookieValue, threadVars, Exited
<1>8. CASE RemoveGameFrameHook \/ DeleteQueue \/ SDK_OnDependenciesDropped
  BY <1>1, <1>8, ShapeKept
     DEF RemoveGameFrameHook, DeleteQueue, SDK_OnDependenciesDropped, threadVars, Exited
<1>9. CASE Notify
  BY <1>1, <1>4, <1>9, NullQueued, ShapeKept
     DEF Notify, NotifyUpTo, AddToThreadQueue, threadVars, Exited
<1>10. ASSUME NEW w \in Workers, ConnectDb(w) \/ RunThreadPart(w) \/ GoAstray(w)
       PROVE  NullsLast'
  <2>1. PICK s \in {"waiting", "running", "astray"} : thread' = [thread EXCEPT ![w] = s]
    BY <1>10 DEF ConnectDb, RunThreadPart, GoAstray
  <2>2. thread[w] # "exited"
    BY <1>10 DEF ConnectDb, RunThreadPart, GoAstray
  <2>3. Exited' = Exited
    BY <1>2, <2>1, <2>2 DEF Exited
  <2>4. QED
    BY <1>1, <1>10, <2>3, ShapeKept DEF ConnectDb, RunThreadPart, GoAstray, gameVars
<1>11. ASSUME NEW w \in Workers, GetQuery(w) PROVE NullsLast'
  BY <1>1, <1>11, FirstTaken
<1>12. CASE UNCHANGED shutdownVars
  BY <1>1, <1>12, ShapeKept DEF shutdownVars, gameVars, threadVars, Exited
<1>13. QED
  BY <1>1, <1>5, <1>6, <1>7, <1>8, <1>9, <1>10, <1>11, <1>12 DEF ShutdownNext, Game, Worker

(* Unloading drains the queue (extension.cpp:227-244): as soon as one      *)
(* query thread has exited no operation is left in the query queue, and    *)
(* after the last one exited nothing is.                                   *)
THEOREM Drained == ShutdownSpec => []ShutdownInv
<1>1. ShutdownInit => IInv
  BY InitIInv
<1>2. IInv /\ [ShutdownNext]_shutdownVars => IInv'
  BY NextIInv
<1>3. IInv => ShutdownInv
  BY NullsLastDrains
<1>4. QED
  BY <1>1, <1>2, <1>3, PTL DEF ShutdownSpec
=============================================================================

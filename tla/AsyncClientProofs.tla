------------------------- MODULE AsyncClientProofs -------------------------
(***************************************************************************)
(* async_redis::client is an ordered pipe that drops no command            *)
(* (ClientIsPipe, NoCommandDropped), for any number of commands and        *)
(* connections.  Over it a query thread meets a null reply only after a    *)
(* connection was lost (CrashesOnlyAfterLoss), selects the database first  *)
(* (SelectedFirst) and ends no load without the server's answer            *)
(* (LoadsAreReal).                                                         *)
(*                                                                         *)
(* The invariant says where the commands are: in m_commands, then in the   *)
(* io thread's batch, then on the wire and back as replies, increasing     *)
(* along the way, and that the replies the connection still owes are those *)
(* of the rest of the batch.  A batch is taken at once in the two ways the *)
(* client is used: without a cache, for then reqs has no more room than    *)
(* there are commands, or with a pipe timeout, which ends the loop.        *)
(***************************************************************************)
EXTENDS MCQueryThread, SequenceTheorems, TLAPS

-----------------------------------------------------------------------------
(* once: the loop of wait_dequeue_bulk_timed has one round whatever it     *)
(* takes.                                                                  *)
OneRound == CacheSize = 0 \/ PipeTimeout
Once == PipeTimeout \/ user = "cached"

Holding == worker \in {"more", "flush", "append", "reply"}
Waiting == worker = "reply" /\ ctx = "ok"

(* The batch: all of it commands, and it fills reqs unless the loop ends.  *)
Batches(once) ==
    /\ dequeued \in Nat /\ next \in Nat
    /\ worker = "take" =>
          dequeued = 0 /\ size > 0 /\ (once \/ size <= Len(commands))
    /\ worker = "more" => dequeued = size
    /\ worker \in {"append", "reply"} => dequeued > 0
    /\ Holding => dequeued <= Len(reqs) /\ \A i \in 1 .. dequeued : reqs[i] \in Calls

(* The numbers of the commands increase from the server to the queue.      *)
Increasing ==
    /\ \A i, j \in 1 .. Len(commands) : i < j => commands[i] < commands[j]
    /\ \A j \in 1 .. Len(commands) : commands[j] <= calls
    /\ Holding =>
          /\ \A i, j \in 1 .. dequeued : i < j => reqs[i] < reqs[j]
          /\ \A i \in 1 .. dequeued : reqs[i] <= calls
          /\ \A i \in 1 .. dequeued, j \in 1 .. Len(commands) : reqs[i] < commands[j]

ExecutedFirst ==
    /\ \A e \in 1 .. Len(executed) : executed[e] <= calls
    /\ \A e \in 1 .. Len(executed), j \in 1 .. Len(commands) :
          executed[e] < commands[j]
    /\ worker \in {"more", "flush", "append"} =>
          \A e \in 1 .. Len(executed), i \in 1 .. dequeued : executed[e] < reqs[i]
    /\ \A e \in 1 .. Len(executed), i \in 1 .. Len(wire) : executed[e] < wire[i]

(* The connection: what it still owes is the rest of the batch, in order.  *)
Owed ==
    /\ Waiting =>
          /\ Len(replies) + Len(wire) <= (dequeued - next) + 1
          /\ link => Len(replies) + Len(wire) = (dequeued - next) + 1
          /\ \A i \in 1 .. Len(replies) : replies[i] = reqs[(next + i) - 1]
          /\ \A i \in 1 .. Len(wire) : wire[i] = reqs[(next + Len(replies) + i) - 1]
    /\ ~Waiting => replies = <<>> /\ wire = <<>>
    /\ ~link => wire = <<>>
    /\ \A i \in 1 .. Len(replies) : \E e \in 1 .. Len(executed) : executed[e] = replies[i]

(* A connection that is not there was lost or disconnected.                *)
Connections ==
    /\ ctx = "err" => severed /\ ~link
    /\ ctx = "ok" /\ ~link => severed
    /\ worker \in {"wait", "send", "take", "more", "flush", "append"} => ctx = "ok"
    /\ worker = "none" <=> ctx = "null"

(* Commands are answered once, and with a null reply only after a loss.    *)
Answers ==
    /\ \A c \in Calls : answer[c] = NullReply => severed
    /\ \A c \in Calls : c > calls => answer[c] = Pending
    /\ \A j \in 1 .. Len(commands) : answer[commands[j]] = Pending
    /\ worker \in {"more", "flush", "append"} =>
          \A i \in 1 .. dequeued : answer[reqs[i]] = Pending
    /\ worker = "reply" => \A i \in next .. dequeued : answer[reqs[i]] = Pending

IInv(once) ==
    /\ TypeOK
    /\ Batches(once)
    /\ Increasing
    /\ ExecutedFirst
    /\ Owed
    /\ Connections
    /\ Answers

-----------------------------------------------------------------------------
(* The steps of the client, with what its constants leave open: the same   *)
(* for CacheSize and for the instance Cached.                              *)
TopStep ==
    /\ worker = "top" /\ worker' \in {"exited", "wait", "send"}
    /\ worker' # "exited" => ctx = "ok"
    /\ stopped' \in BOOLEAN
    /\ UNCHANGED <<queueVars, linkVars, reqs, size, dequeued, next, callVars,
                   ctx, answer>>

SignalStep ==
    /\ caller.pc = "signal"
    /\ pipelineSem' \in {pipelineSem, pipelineSem + 1}
    /\ caller' \in {Idle, [caller EXCEPT !.pc = "get"]}
    /\ UNCHANGED <<commands, flush, linkVars, workVars, calls, connects,
                   stopped, ctx, answer>>

NothingToSend ==
    /\ worker = "send" /\ commands = <<>> /\ worker' = "top"
    /\ UNCHANGED <<queueVars, linkVars, reqs, size, dequeued, next, callVars,
                   stopped, ctx, answer>>

SendStep(once) ==
    /\ worker = "send" /\ commands # <<>> /\ worker' = "take"
    /\ size' \in Nat /\ size' > 0
    /\ once \/ size' = Len(commands)
    /\ reqs' = [i \in 1 .. size' |-> 0]
    /\ dequeued' = 0
    /\ UNCHANGED <<queueVars, linkVars, next, callVars, stopped, ctx, answer>>

TakeStep(once) ==
    /\ worker = "take"
    /\ LET n == IF Len(commands) < size - dequeued THEN Len(commands)
                                                   ELSE size - dequeued
       IN  /\ reqs' = [i \in 1 .. size |-> IF i <= n THEN commands[i] ELSE reqs[i]]
           /\ commands' = SubSeq(commands, n + 1, Len(commands))
           /\ dequeued' = dequeued + n
    /\ worker' \in {"flush", "more"}
    /\ worker' = "more" => ~once
    /\ UNCHANGED <<pipelineSem, flush, linkVars, size, next, callVars, stopped,
                   ctx, answer>>

AppendStep ==
    /\ worker = "append"
    /\ wire' = IF link THEN wire \o SubSeq(reqs, 1, dequeued) ELSE wire
    /\ next' = 1
    /\ worker' = "reply"
    /\ UNCHANGED <<queueVars, link, replies, executed, severed, reqs, size,
                   dequeued, callVars, stopped, ctx, answer>>

CallerStep ==
    \/ AppendOnly \/ Command \/ CommitFlag \/ SignalStep \/ GetReturns
    \/ Connect \/ DisconnectStop \/ DisconnectJoin

WorkerStep(once) ==
    \/ TopStep \/ WaitPermit \/ NothingToSend \/ SendStep(once) \/ TakeStep(once)
    \/ More \/ ClearFlush \/ AppendStep \/ GetReply \/ ReplyError

ClientStep(once) == CallerStep \/ WorkerStep(once) \/ ServerExecute \/ Sever

LEMMA TopSteps ==
    ASSUME TypeOK, Top \/ Cached!Top
    PROVE  TopStep
BY DEF TypeOK, Top, Cached!Top, TopStep, queueVars, linkVars, callVars,
       Cached!queueVars, Cached!linkVars, Cached!callVars

LEMMA SignalSteps ==
    ASSUME CommitSignal \/ Cached!CommitSignal
    PROVE  SignalStep
BY DEF CommitSignal, Cached!CommitSignal, SignalStep, Idle, Cached!Idle,
       linkVars, workVars, Cached!linkVars, Cached!workVars

LEMMA SendSteps ==
    ASSUME ClientAssumption, TypeOK
    PROVE  /\ OneRound /\ Send => NothingToSend \/ SendStep(PipeTimeout)
           /\ Cached!Send => NothingToSend \/ SendStep(TRUE)
<1>1. commands # <<>> => Len(commands) \in Nat /\ Len(commands) > 0
  BY DEF TypeOK
<1>2. CacheSize \in Nat /\ PipeTimeout \in BOOLEAN
  BY DEF ClientAssumption
<1>3. OneRound /\ Send => NothingToSend \/ SendStep(PipeTimeout)
  BY <1>1, <1>2 DEF Send, OneRound, NothingToSend, SendStep
<1>4. Cached!Send => NothingToSend \/ SendStep(TRUE)
  BY <1>1 DEF Cached!Send, NothingToSend, SendStep, queueVars, linkVars, callVars,
       Cached!queueVars, Cached!linkVars, Cached!callVars
<1> QED BY <1>3, <1>4

LEMMA TakeSteps ==
    ASSUME ClientAssumption
    PROVE  /\ Take => TakeStep(PipeTimeout)
           /\ Cached!Take => TakeStep(TRUE)
<1>1. PipeTimeout \in BOOLEAN
  BY DEF ClientAssumption
<1>2. Take => TakeStep(PipeTimeout)
  BY <1>1 DEF Take, TakeStep
<1>3. Cached!Take => TakeStep(TRUE)
  BY DEF Cached!Take, TakeStep, linkVars, callVars, Cached!linkVars, Cached!callVars
<1> QED BY <1>2, <1>3

(* There is no empty command in a batch.                                   *)
LEMMA AppendSteps ==
    ASSUME NEW once, TypeOK, Batches(once), AppendBatch \/ Cached!AppendBatch
    PROVE  AppendStep
<1>1. PICK batch : batch = SubSeq(reqs, 1, dequeued)
  OBVIOUS
<1>2. worker = "append"
  BY DEF AppendBatch, Cached!AppendBatch
<1>3. /\ reqs \in Seq(Calls \cup {0}) /\ dequeued \in 0 .. Len(reqs)
      /\ \A i \in 1 .. dequeued : reqs[i] \in Calls
  BY <1>2 DEF TypeOK, Batches, Holding
<1>4. Len(batch) = dequeued /\ \A i \in 1 .. dequeued : batch[i] = reqs[i]
  BY <1>1, <1>3
<1>5. 0 \notin ToSet(batch) /\ 0 \notin Cached!ToSet(batch)
  <2>1. \A i \in 1 .. Len(batch) : batch[i] # 0
    BY <1>3, <1>4 DEF Calls
  <2> QED BY <2>1 DEF ToSet, Cached!ToSet
<1>6. Batch = batch /\ Cached!Batch = batch
  BY <1>1, <1>5 DEF Batch, Cached!Batch
<1> QED BY <1>1, <1>6 DEF AppendBatch, Cached!AppendBatch, AppendStep, queueVars, linkVars,
        workVars, callVars, Cached!queueVars, Cached!linkVars, Cached!workVars, Cached!callVars

LEMMA NextIsStep ==
    ASSUME ClientAssumption, OneRound, TypeOK, Batches(PipeTimeout), Next
    PROVE  ClientStep(PipeTimeout)
<1>1. Caller \/ Worker \/ ServerExecute \/ Sever
  BY DEF Next
<1>2. ASSUME Caller PROVE CallerStep
  BY <1>2, SignalSteps DEF Caller, CallerStep
<1>3. ASSUME Worker PROVE WorkerStep(PipeTimeout)
  BY <1>3, TopSteps, SendSteps, TakeSteps, AppendSteps DEF Worker, WorkerStep
<1> QED BY <1>1, <1>2, <1>3 DEF ClientStep

(* What does not depend on CacheSize and PipeTimeout is the same in Cached. *)
LEMMA CachedSame ==
    /\ Cached!AppendOnly <=> AppendOnly
    /\ Cached!Command <=> Command
    /\ Cached!CommitFlag <=> CommitFlag
    /\ Cached!GetReturns <=> GetReturns
    /\ Cached!Connect <=> Connect
    /\ Cached!DisconnectStop <=> DisconnectStop
    /\ Cached!DisconnectJoin <=> DisconnectJoin
    /\ Cached!WaitPermit <=> WaitPermit
    /\ Cached!More <=> More
    /\ Cached!ClearFlush <=> ClearFlush
    /\ Cached!GetReply <=> GetReply
    /\ Cached!ReplyError <=> ReplyError
    /\ Cached!ServerExecute <=> ServerExecute
    /\ Cached!Sever <=> Sever
<1> USE DEF queueVars, linkVars, workVars, callVars, Cached!queueVars,
            Cached!linkVars, Cached!workVars, Cached!callVars, Idle, Cached!Idle
<1>1. Cached!AppendOnly <=> AppendOnly
  BY DEF Cached!AppendOnly, AppendOnly, Cached!Enqueue, Enqueue
<1>2. Cached!Command <=> Command
  BY DEF Cached!Command, Command, Cached!Enqueue, Enqueue
<1>3. Cached!CommitFlag <=> CommitFlag
  BY DEF Cached!CommitFlag, CommitFlag
<1>4. Cached!GetReturns <=> GetReturns
  BY DEF Cached!GetReturns, GetReturns
<1>5. Cached!Connect <=> Connect
  BY DEF Cached!Connect, Connect
<1>6. Cached!DisconnectStop <=> DisconnectStop
  BY DEF Cached!DisconnectStop, DisconnectStop
<1>7. Cached!DisconnectJoin <=> DisconnectJoin
  BY DEF Cached!DisconnectJoin, DisconnectJoin
<1>8. Cached!WaitPermit <=> WaitPermit
  BY DEF Cached!WaitPermit, WaitPermit
<1>9. Cached!More <=> More
  BY DEF Cached!More, More
<1>10. Cached!ClearFlush <=> ClearFlush
  BY DEF Cached!ClearFlush, ClearFlush
<1>12. Cached!GetReply <=> GetReply
  BY DEF Cached!GetReply, GetReply, Cached!Callback, Callback
<1>13. Cached!ReplyError <=> ReplyError
  BY DEF Cached!ReplyError, ReplyError, Cached!Callback, Callback
<1>14. Cached!ServerExecute <=> ServerExecute
  BY DEF Cached!ServerExecute, ServerExecute
<1>15. Cached!Sever <=> Sever
  BY DEF Cached!Sever, Sever
<1> QED BY <1>1, <1>2, <1>3, <1>4, <1>5, <1>6, <1>7, <1>8, <1>9, <1>10, <1>12,
           <1>13, <1>14, <1>15

LEMMA CachedIsStep ==
    ASSUME ClientAssumption, TypeOK, Batches(TRUE), Cached!Next
    PROVE  ClientStep(TRUE)
<1>1. Cached!Caller \/ Cached!Worker \/ Cached!ServerExecute \/ Cached!Sever
  BY DEF Cached!Next
<1>2. ASSUME Cached!Caller PROVE CallerStep
  BY <1>2, SignalSteps, CachedSame DEF Cached!Caller, CallerStep
<1>3. ASSUME Cached!Worker PROVE WorkerStep(TRUE)
  BY <1>3, TopSteps, SendSteps, TakeSteps, AppendSteps, CachedSame DEF Cached!Worker, WorkerStep
<1> QED BY <1>1, <1>2, <1>3, CachedSame DEF ClientStep

-----------------------------------------------------------------------------
(* Steps of the caller that append nothing, and those of the io thread     *)
(* that touch neither a batch nor the connection.                          *)
QuietStep ==
    /\ UNCHANGED <<commands, wire, replies, executed, reqs, size, dequeued, next,
                   calls, answer, link, severed, ctx>>
    /\ \/ worker' = worker
       \/ worker # "none" /\ worker \notin {"reply"} /\ worker' \in {"top", "exited"}
       \/ ctx = "ok" /\ worker # "reply" /\ worker' \in {"wait", "send"}

(* TypeOK is an invariant on its own, but for the parts that Batches adds. *)
LEMMA CallerTypes ==
    ASSUME ClientAssumption, TypeOK, CallerStep
    PROVE  TypeOK'
<1> USE DEF TypeOK, queueVars, linkVars, workVars, callVars, Idle
<1>0. MaxCalls \in Nat /\ MaxConnects \in Nat
  BY DEF ClientAssumption
<1>00. <<>> \in Seq(Calls)
  OBVIOUS
<1>1. ASSUME AppendOnly \/ Command PROVE TypeOK'
  <2>1. PICK c : c = calls + 1
    OBVIOUS
  <2>2. c \in Calls /\ calls' = c /\ commands' = Append(commands, c)
    BY <1>0, <1>1, <2>1 DEF AppendOnly, Command, Enqueue, Calls
  <2>3. commands' \in Seq(Calls) /\ calls' \in 0 .. MaxCalls
    BY <1>0, <2>2 DEF Calls
  <2> QED BY <1>1, <2>1, <2>2, <2>3 DEF AppendOnly, Command
<1>2. ASSUME CommitFlag PROVE TypeOK'
  BY <1>2 DEF CommitFlag
<1>3. ASSUME SignalStep PROVE TypeOK'
  BY <1>3 DEF SignalStep
<1>4. ASSUME GetReturns PROVE TypeOK'
  BY <1>4 DEF GetReturns
<1>5. ASSUME Connect PROVE TypeOK'
  <2>1. connects' \in 0 .. MaxConnects
    BY <1>0, <1>5 DEF Connect
  <2> QED BY <1>00, <1>5, <2>1 DEF Connect
<1>6. ASSUME DisconnectStop PROVE TypeOK'
  BY <1>6 DEF DisconnectStop
<1>7. ASSUME DisconnectJoin PROVE TypeOK'
  BY <1>00, <1>7 DEF DisconnectJoin
<1> QED BY <1>1, <1>2, <1>3, <1>4, <1>5, <1>6, <1>7 DEF CallerStep

LEMMA WorkerTypes ==
    ASSUME ClientAssumption, NEW once, TypeOK, Batches(once), WorkerStep(once)
    PROVE  TypeOK'
<1> USE DEF queueVars, linkVars, workVars, callVars
<1>0. dequeued \in Nat /\ next \in Nat /\ Len(commands) \in Nat
  BY DEF TypeOK, Batches
<1>1. ASSUME TopStep \/ WaitPermit \/ NothingToSend \/ More \/ ClearFlush PROVE TypeOK'
  <2>1. CASE TopStep
    BY <2>1 DEF TypeOK, TopStep
  <2>2. CASE WaitPermit
    BY <2>2 DEF TypeOK, WaitPermit
  <2>3. CASE NothingToSend
    BY <2>3 DEF TypeOK, NothingToSend
  <2>4. CASE More
    BY <2>4 DEF TypeOK, More
  <2>5. CASE ClearFlush
    BY <2>5 DEF TypeOK, ClearFlush
  <2> QED BY <1>1, <2>1, <2>2, <2>3, <2>4, <2>5
<1>2. ASSUME SendStep(once) PROVE TypeOK'
  <2>1. reqs' \in Seq(Calls \cup {0}) /\ Len(reqs') = size'
    BY <1>2 DEF SendStep
  <2> QED BY <1>2, <2>1 DEF TypeOK, SendStep
<1>3. ASSUME TakeStep(once) PROVE TypeOK'
  <2>1. PICK n : n = IF Len(commands) < size - dequeued THEN Len(commands)
                                                        ELSE size - dequeued
    OBVIOUS
  <2>2. /\ size \in Nat /\ dequeued = 0 /\ Len(reqs) = size
        /\ commands \in Seq(Calls) /\ reqs \in Seq(Calls \cup {0})
    BY <1>3 DEF TypeOK, Batches, TakeStep
  <2>3. /\ reqs' = [i \in 1 .. size |-> IF i <= n THEN commands[i] ELSE reqs[i]]
        /\ commands' = SubSeq(commands, n + 1, Len(commands))
        /\ dequeued' = dequeued + n
    BY <1>3, <2>1 DEF TakeStep
  <2>4. n \in Nat /\ n <= Len(commands) /\ n <= size
    BY <1>0, <2>1, <2>2
  <2>5. commands' \in Seq(Calls)
    BY <1>0, <2>2, <2>3, <2>4
  <2>6. reqs' \in Seq(Calls \cup {0}) /\ Len(reqs') = size
    BY <1>0, <2>2, <2>3, <2>4
  <2>7. dequeued' <= size
    BY <2>2, <2>3, <2>4
  <2>8. /\ worker' \in {"flush", "more"}
        /\ UNCHANGED <<pipelineSem, flush, linkVars, size, callVars, stopped, ctx, answer>>
    BY <1>3 DEF TakeStep
  <2> QED BY <2>5, <2>6, <2>7, <2>8 DEF TypeOK
<1>4. ASSUME AppendStep PROVE TypeOK'
  <2>1. SubSeq(reqs, 1, dequeued) \in Seq(Calls)
    <3>1. reqs \in Seq(Calls \cup {0}) /\ dequeued \in 0 .. Len(reqs)
      BY <1>0, <1>4 DEF TypeOK, Batches, Holding, AppendStep
    <3>2. \A i \in 1 .. dequeued : reqs[i] \in Calls
      BY <1>4 DEF Batches, Holding, AppendStep
    <3> QED BY <3>1, <3>2
  <2>2. wire' \in Seq(Calls)
    BY <1>4, <2>1 DEF TypeOK, AppendStep
  <2>3. 1 \in 1 .. dequeued
    BY <1>0, <1>4 DEF Batches, AppendStep
  <2> QED BY <1>4, <2>2, <2>3 DEF TypeOK, AppendStep
<1>5. ASSUME NEW r, Callback(r), r \in Calls \cup {NullReply}, worker = "reply"
      PROVE  /\ answer' \in [Calls -> Calls \cup {Pending, NullReply}]
             /\ worker' \in {"top", "reply"}
             /\ worker' = "reply" => next' \in 1 .. dequeued'
             /\ UNCHANGED <<queueVars, reqs, size, dequeued, callVars, stopped>>
  <2>1. next \in 1 .. dequeued
    BY <1>5 DEF TypeOK
  <2>2. next + 1 \in 1 .. dequeued \/ next = dequeued
    BY <1>0, <2>1
  <2> QED BY <1>5, <2>1, <2>2 DEF TypeOK, Callback
<1>6. ASSUME GetReply PROVE TypeOK'
  <2>1. Head(replies) \in Calls /\ Tail(replies) \in Seq(Calls)
    BY <1>6 DEF TypeOK, GetReply
  <2> QED BY <1>5, <1>6, <2>1 DEF TypeOK, GetReply
<1>7. ASSUME ReplyError PROVE TypeOK'
  BY <1>5, <1>7 DEF TypeOK, ReplyError
<1> QED BY <1>1, <1>2, <1>3, <1>4, <1>6, <1>7 DEF WorkerStep

LEMMA ServerTypes ==
    ASSUME TypeOK, ServerExecute \/ Sever
    PROVE  TypeOK'
<1> USE DEF queueVars, workVars, callVars
<1>1. ASSUME ServerExecute PROVE TypeOK'
  <2>1. Head(wire) \in Calls /\ Tail(wire) \in Seq(Calls)
    BY <1>1 DEF TypeOK, ServerExecute
  <2>2. executed' \in Seq(Calls) /\ replies' \in Seq(Calls)
    BY <1>1, <2>1 DEF TypeOK, ServerExecute
  <2> QED BY <1>1, <2>1, <2>2 DEF TypeOK, ServerExecute
<1>2. ASSUME Sever PROVE TypeOK'
  <2>1. PICK k \in 0 .. Len(replies) : replies' = SubSeq(replies, 1, k)
    BY <1>2 DEF Sever
  <2>2. replies' \in Seq(Calls) /\ <<>> \in Seq(Calls)
    BY <2>1 DEF TypeOK
  <2> QED BY <1>2, <2>2 DEF TypeOK, Sever
<1> QED BY <1>1, <1>2

LEMMA ClientTypes ==
    ASSUME ClientAssumption, NEW once, TypeOK, Batches(once), ClientStep(once)
    PROVE  TypeOK'
BY CallerTypes, WorkerTypes, ServerTypes DEF ClientStep

-----------------------------------------------------------------------------
(* The invariant, one kind of step after the other.                        *)
LEMMA QuietKeeps ==
    ASSUME NEW once, IInv(once), TypeOK', QuietStep
    PROVE  IInv(once)'
<1> USE DEF QuietStep
<1>1. /\ Holding' => Holding
      /\ Waiting' <=> Waiting
      /\ worker' \in {"take", "more", "flush", "append", "reply"} => worker' = worker
  BY DEF Holding, Waiting
<1>2. Batches(once)'
  BY <1>1 DEF IInv, Batches
<1>3. Increasing'
  BY <1>1 DEF IInv, Increasing
<1>4. ExecutedFirst'
  BY <1>1 DEF IInv, ExecutedFirst
<1>5. Owed'
  BY <1>1 DEF IInv, Owed
<1>6. Connections'
  BY DEF IInv, Connections
<1>7. Answers'
  BY <1>1 DEF IInv, Answers
<1> QED BY <1>2, <1>3, <1>4, <1>5, <1>6, <1>7 DEF IInv

LEMMA EnqueueKeeps ==
    ASSUME ClientAssumption, NEW once, IInv(once), TypeOK', Enqueue,
           UNCHANGED <<linkVars, workVars, answer, ctx>>
    PROVE  IInv(once)'
<1> USE DEF linkVars, workVars
<1>0. MaxCalls \in Nat
  BY DEF ClientAssumption
<1>1. PICK l : l = Len(commands)
  OBVIOUS
<1>2. PICK c : c = calls + 1
  OBVIOUS
<1>3. /\ l \in Nat /\ calls \in Nat /\ c \in Calls
      /\ calls' = c /\ commands' = Append(commands, c)
  BY <1>0, <1>1, <1>2 DEF IInv, TypeOK, Enqueue, Calls
<1>4. /\ Len(commands') = l + 1 /\ commands'[l + 1] = c
      /\ \A j \in 1 .. l : commands'[j] = commands[j] /\ commands[j] \in Calls
  BY <1>1, <1>3 DEF IInv, TypeOK
<1>5. \A j \in 1 .. Len(commands') : j \in 1 .. l \/ (j = l + 1 /\ commands'[j] = c)
  BY <1>3, <1>4
<1>6. UNCHANGED <<Holding, Waiting>>
  BY DEF Holding, Waiting
<1>7. Batches(once)'
  <2>1. size \in Nat /\ (size <= l => size <= l + 1)
    BY <1>3 DEF IInv, TypeOK
  <2> QED BY <1>1, <1>4, <1>6, <2>1 DEF IInv, Batches
<1>8. dequeued \in Nat /\ (Holding => \A i \in 1 .. dequeued : reqs[i] \in Calls /\ reqs[i] < c)
  <2>1. dequeued \in Nat /\ (Holding => \A i \in 1 .. dequeued : reqs[i] \in Calls)
    BY DEF IInv, Batches
  <2>2. Holding => \A i \in 1 .. dequeued : reqs[i] <= calls
    BY DEF IInv, Increasing
  <2> QED BY <1>2, <1>3, <2>1, <2>2 DEF Calls
<1>9. Increasing'
  <2>1. \A i, j \in 1 .. l : i < j => commands[i] < commands[j]
    BY <1>1 DEF IInv, Increasing
  <2>2. \A j \in 1 .. l : commands[j] <= calls
    BY <1>1 DEF IInv, Increasing
  <2>3. \A j \in 1 .. l : commands[j] < c
    BY <1>2, <1>3, <1>4, <2>2 DEF Calls
  <2>4. \A i, j \in 1 .. Len(commands') : i < j => commands'[i] < commands'[j]
    BY <1>3, <1>4, <1>5, <2>1, <2>3
  <2>5. \A j \in 1 .. Len(commands') : commands'[j] <= calls'
    BY <1>2, <1>3, <1>4, <1>5, <2>3 DEF Calls
  <2>6. Holding => /\ \A i, j \in 1 .. dequeued : i < j => reqs[i] < reqs[j]
                   /\ \A i \in 1 .. dequeued, j \in 1 .. l : reqs[i] < commands[j]
    BY <1>1 DEF IInv, Increasing
  <2>7. Holding => /\ \A i \in 1 .. dequeued : reqs[i] <= c
                   /\ \A i \in 1 .. dequeued, j \in 1 .. Len(commands') : reqs[i] < commands'[j]
    BY <1>3, <1>4, <1>5, <1>8, <2>6 DEF Calls
  <2> QED BY <1>3, <1>6, <2>4, <2>5, <2>6, <2>7 DEF Increasing
<1>10. ExecutedFirst'
  <2>1. \A e \in 1 .. Len(executed) : executed[e] \in Calls
    BY DEF IInv, TypeOK
  <2>2. \A e \in 1 .. Len(executed) : executed[e] <= calls
    BY DEF IInv, ExecutedFirst
  <2>3. \A e \in 1 .. Len(executed) : executed[e] < c
    BY <1>2, <1>3, <2>1, <2>2 DEF Calls
  <2>4. \A e \in 1 .. Len(executed), j \in 1 .. l : executed[e] < commands[j]
    BY <1>1 DEF IInv, ExecutedFirst
  <2>5. \A e \in 1 .. Len(executed'), j \in 1 .. Len(commands') : executed'[e] < commands'[j]
    BY <1>4, <1>5, <2>3, <2>4
  <2>6. \A e \in 1 .. Len(executed') : executed'[e] <= calls'
    BY <1>3, <2>1, <2>3 DEF Calls
  <2> QED BY <1>6, <2>5, <2>6 DEF IInv, ExecutedFirst
<1>11. Owed'
  BY <1>6 DEF IInv, Owed
<1>12. Connections'
  BY DEF IInv, Connections
<1>13. Answers'
  <2>1. \A d \in Calls : d > calls' => answer'[d] = Pending
    BY <1>2, <1>3 DEF IInv, Answers, Calls
  <2>2. answer[c] = Pending
    BY <1>2, <1>3 DEF IInv, Answers
  <2>3. \A j \in 1 .. Len(commands') : answer'[commands'[j]] = Pending
    BY <1>1, <1>4, <1>5, <2>2 DEF IInv, Answers
  <2> QED BY <2>1, <2>3 DEF IInv, Answers
<1> QED BY <1>7, <1>9, <1>10, <1>11, <1>12, <1>13 DEF IInv

(* Connect and Disconnect: no connection, or a new one.                    *)
ResetStep ==
    /\ wire' = <<>> /\ replies' = <<>>
    /\ commands' \in {commands, <<>>}
    /\ \/ worker' = "top" /\ ctx' = "ok" /\ link' = TRUE
       \/ worker' = "none" /\ ctx' = "null" /\ link' = FALSE
    /\ UNCHANGED <<executed, severed, reqs, size, dequeued, next, calls, answer>>

LEMMA ResetKeeps ==
    ASSUME NEW once, IInv(once), TypeOK', ResetStep
    PROVE  IInv(once)'
<1> USE DEF ResetStep
<1>1. /\ ~Holding' /\ ~Waiting'
      /\ worker' \notin {"take", "more", "flush", "append", "reply"}
  BY DEF Holding, Waiting
<1>2. Len(commands') = Len(commands) \/ Len(commands') = 0
  OBVIOUS
<1>3. \A j \in 1 .. Len(commands') : j \in 1 .. Len(commands) /\ commands'[j] = commands[j]
  BY <1>2
<1>4. Batches(once)'
  BY <1>1 DEF IInv, Batches
<1>5. Increasing'
  BY <1>1, <1>3 DEF IInv, Increasing
<1>6. wire' = <<>> /\ replies' = <<>> /\ Len(wire') = 0 /\ Len(replies') = 0
  OBVIOUS
<1>7. ExecutedFirst'
  <2>1. \A e \in 1 .. Len(executed), j \in 1 .. Len(commands') : executed[e] < commands'[j]
    BY <1>3 DEF IInv, ExecutedFirst
  <2> QED BY <1>1, <1>6, <2>1 DEF IInv, ExecutedFirst
<1>8. Owed'
  BY <1>1, <1>6 DEF Owed
<1>9. Connections'
  BY DEF IInv, Connections
<1>10. Answers'
  BY <1>1, <1>3 DEF IInv, Answers
<1> QED BY <1>4, <1>5, <1>7, <1>8, <1>9, <1>10 DEF IInv

LEMMA SendKeeps ==
    ASSUME NEW once, IInv(once), TypeOK', SendStep(once)
    PROVE  IInv(once)'
<1> USE DEF SendStep, queueVars, linkVars, callVars
<1>1. ~Holding' /\ ~Waiting' /\ ~Waiting /\ worker' = "take"
  BY DEF Holding, Waiting
<1>2. size' = Len(commands) => size' <= Len(commands)
  OBVIOUS
<1>3. Batches(once)'
  BY <1>1, <1>2 DEF IInv, Batches
<1>4. Increasing'
  BY <1>1 DEF IInv, Increasing
<1>5. ExecutedFirst'
  BY <1>1 DEF IInv, ExecutedFirst
<1>6. Owed'
  BY <1>1 DEF IInv, Owed
<1>7. Connections'
  BY DEF IInv, Connections
<1>8. Answers'
  BY <1>1 DEF IInv, Answers
<1> QED BY <1>3, <1>4, <1>5, <1>6, <1>7, <1>8 DEF IInv

(* More always leaves the loop: reqs is full, or the loop has one round.   *)
LEMMA FlushKeeps ==
    ASSUME NEW once, IInv(once), TypeOK', More \/ (ClearFlush /\ dequeued # 0)
    PROVE  IInv(once)'
<1> USE DEF queueVars, linkVars, callVars
<1>1. /\ \/ worker = "more" /\ worker' = "flush"
         \/ worker = "flush" /\ worker' = "append" /\ dequeued > 0
      /\ UNCHANGED <<commands, linkVars, reqs, size, dequeued, next, callVars, ctx, answer>>
  <2>1. dequeued \in Nat /\ size \in Nat /\ (worker = "more" => dequeued = size)
    BY DEF IInv, TypeOK, Batches
  <2> QED BY <2>1 DEF More, ClearFlush
<1>2. Holding /\ Holding' /\ ~Waiting' /\ ~Waiting
  BY <1>1 DEF Holding, Waiting
<1>3. Batches(once)'
  BY <1>1, <1>2 DEF IInv, Batches
<1>4. Increasing'
  BY <1>1, <1>2 DEF IInv, Increasing
<1>5. ExecutedFirst'
  BY <1>1, <1>2 DEF IInv, ExecutedFirst
<1>6. Owed'
  BY <1>1, <1>2 DEF IInv, Owed
<1>7. Connections'
  BY <1>1 DEF IInv, Connections
<1>8. Answers'
  BY <1>1, <1>2 DEF IInv, Answers
<1> QED BY <1>3, <1>4, <1>5, <1>6, <1>7, <1>8 DEF IInv

(* What one round takes: the first n commands, as many as fit into reqs.   *)
LEMMA TakenBatch ==
    ASSUME NEW once, IInv(once), TakeStep(once)
    PROVE  \E n \in Nat :
             /\ n <= Len(commands) /\ n <= size /\ dequeued = 0 /\ dequeued' = n
             /\ worker' = "more" => n = size
             /\ Len(reqs') = size
             /\ \A i \in 1 .. n : reqs'[i] = commands[i]
             /\ Len(commands') = Len(commands) - n
             /\ \A j \in 1 .. Len(commands') : commands'[j] = commands[j + n]
<1>1. PICK n : n = IF Len(commands) < size - dequeued THEN Len(commands)
                                                      ELSE size - dequeued
  OBVIOUS
<1>2. /\ size \in Nat /\ dequeued = 0 /\ Len(commands) \in Nat
      /\ commands \in Seq(Calls) /\ reqs \in Seq(Calls \cup {0})
      /\ once \/ size <= Len(commands)
  BY DEF IInv, TypeOK, Batches, TakeStep
<1>3. /\ reqs' = [i \in 1 .. size |-> IF i <= n THEN commands[i] ELSE reqs[i]]
      /\ commands' = SubSeq(commands, n + 1, Len(commands))
      /\ dequeued' = dequeued + n
      /\ worker' = "more" => ~once
  BY <1>1 DEF TakeStep
<1>4. n \in Nat /\ n <= Len(commands) /\ n <= size /\ (worker' = "more" => n = size)
  BY <1>1, <1>2, <1>3
<1>5. Len(reqs') = size /\ \A i \in 1 .. n : reqs'[i] = commands[i]
  BY <1>2, <1>3, <1>4
<1>6. Len(commands') = Len(commands) - n
  BY <1>2, <1>3, <1>4
<1>7. \A j \in 1 .. Len(commands') : commands'[j] = commands[j + n]
  BY <1>2, <1>3, <1>4, <1>6
<1>8. dequeued = 0 /\ dequeued' = n
  BY <1>2, <1>3, <1>4
<1> QED BY <1>4, <1>5, <1>6, <1>7, <1>8

LEMMA TakeKeeps ==
    ASSUME NEW once, IInv(once), TypeOK', TakeStep(once)
    PROVE  IInv(once)'
<1>1. PICK n \in Nat :
             /\ n <= Len(commands) /\ n <= size /\ dequeued = 0 /\ dequeued' = n
             /\ worker' = "more" => n = size
             /\ Len(reqs') = size
             /\ \A i \in 1 .. n : reqs'[i] = commands[i]
             /\ Len(commands') = Len(commands) - n
             /\ \A j \in 1 .. Len(commands') : commands'[j] = commands[j + n]
  BY TakenBatch
<1>2. /\ worker = "take" /\ worker' \in {"flush", "more"}
      /\ UNCHANGED <<linkVars, size, next, calls, ctx, answer>>
  BY DEF TakeStep, callVars
<1>3. ~Waiting /\ ~Waiting' /\ Holding'
  BY <1>2 DEF Waiting, Holding
<1>4. PICK l \in Nat : l = Len(commands)
  BY DEF IInv, TypeOK
<1>5. \A j \in 1 .. l : commands[j] \in Calls
  BY <1>4 DEF IInv, TypeOK
<1>6. /\ \A i \in 1 .. n : i \in 1 .. l
      /\ \A j \in 1 .. Len(commands') : j + n \in 1 .. l
      /\ \A i \in 1 .. n, j \in 1 .. Len(commands') : i < j + n
      /\ \A i, j \in 1 .. Len(commands') : i < j => i + n < j + n
  BY <1>1, <1>4
<1>7. Batches(once)'
  BY <1>1, <1>2, <1>5, <1>6 DEF IInv, Batches
<1>8. Increasing'
  <2>1. \A i, j \in 1 .. l : i < j => commands[i] < commands[j]
    BY <1>4 DEF IInv, Increasing
  <2>2. \A j \in 1 .. l : commands[j] <= calls
    BY <1>4 DEF IInv, Increasing
  <2>3. \A i, j \in 1 .. Len(commands') : i < j => commands'[i] < commands'[j]
    BY <1>1, <1>6, <2>1
  <2>4. \A j \in 1 .. Len(commands') : commands'[j] <= calls
    BY <1>1, <1>6, <2>2
  <2>5. \A i, j \in 1 .. n : i < j => reqs'[i] < reqs'[j]
    BY <1>1, <1>6, <2>1
  <2>6. \A i \in 1 .. n : reqs'[i] <= calls
    BY <1>1, <1>6, <2>2
  <2>7. \A i \in 1 .. n, j \in 1 .. Len(commands') : reqs'[i] < commands'[j]
    BY <1>1, <1>6, <2>1
  <2> QED BY <1>1, <1>2, <2>3, <2>4, <2>5, <2>6, <2>7 DEF Increasing
<1>9. ExecutedFirst'
  <2>1. \A e \in 1 .. Len(executed), j \in 1 .. l : executed[e] < commands[j]
    BY <1>4 DEF IInv, ExecutedFirst
  <2>2. \A e \in 1 .. Len(executed), j \in 1 .. Len(commands') : executed[e] < commands'[j]
    BY <1>1, <1>6, <2>1
  <2>3. \A e \in 1 .. Len(executed), i \in 1 .. n : executed[e] < reqs'[i]
    BY <1>1, <1>6, <2>1
  <2> QED BY <1>1, <1>2, <2>2, <2>3 DEF IInv, ExecutedFirst, linkVars
<1>10. Owed'
  BY <1>2, <1>3 DEF IInv, Owed, linkVars
<1>11. Connections'
  BY <1>2 DEF IInv, Connections, linkVars
<1>12. Answers'
  <2>1. \A j \in 1 .. l : answer[commands[j]] = Pending
    BY <1>4 DEF IInv, Answers
  <2>2. \A j \in 1 .. Len(commands') : answer[commands'[j]] = Pending
    <3> SUFFICES ASSUME NEW j \in 1 .. Len(commands')
                 PROVE  answer[commands'[j]] = Pending
      OBVIOUS
    <3>1. j + n \in 1 .. l /\ commands'[j] = commands[j + n]
      BY <1>1, <1>6
    <3> QED BY <2>1, <3>1
  <2>3. \A i \in 1 .. n : answer[reqs'[i]] = Pending
    BY <1>1, <1>6, <2>1
  <2> QED BY <1>1, <1>2, <2>2, <2>3 DEF IInv, Answers, linkVars
<1> QED BY <1>7, <1>8, <1>9, <1>10, <1>11, <1>12 DEF IInv

LEMMA AppendKeeps ==
    ASSUME NEW once, IInv(once), TypeOK', AppendStep
    PROVE  IInv(once)'
<1>1. PICK batch : batch = SubSeq(reqs, 1, dequeued)
  OBVIOUS
<1>2. /\ worker = "append" /\ worker' = "reply" /\ next' = 1
      /\ wire' = IF link THEN wire \o batch ELSE wire
      /\ UNCHANGED <<commands, link, replies, executed, severed, reqs, size, dequeued,
                     calls, ctx, answer>>
  BY <1>1 DEF AppendStep, queueVars, callVars
<1>3. Holding /\ Holding' /\ ~Waiting /\ ctx = "ok" /\ Waiting'
  BY <1>2 DEF Holding, Waiting, IInv, Connections
<1>4. /\ reqs \in Seq(Calls \cup {0}) /\ dequeued \in 0 .. Len(reqs)
      /\ dequeued > 0
  BY <1>2, <1>3 DEF IInv, TypeOK, Batches
<1>5. Len(batch) = dequeued /\ \A i \in 1 .. dequeued : batch[i] = reqs[i]
  BY <1>1, <1>4
<1>6. wire = <<>> /\ replies = <<>>
  BY <1>3 DEF IInv, Owed
<1>7. wire' = IF link THEN batch ELSE <<>>
  BY <1>1, <1>2, <1>4, <1>6
<1>8. Batches(once)'
  BY <1>2, <1>3, <1>4 DEF IInv, Batches
<1>9. Increasing'
  BY <1>2, <1>3 DEF IInv, Increasing
<1>10. ExecutedFirst'
  <2>1. \A e \in 1 .. Len(executed), i \in 1 .. dequeued : executed[e] < reqs[i]
    BY <1>2 DEF IInv, ExecutedFirst
  <2>2. \A e \in 1 .. Len(executed), i \in 1 .. Len(wire') : executed[e] < wire'[i]
    BY <1>5, <1>7, <2>1
  <2> QED BY <1>2, <2>2 DEF IInv, ExecutedFirst
<1>11. Owed'
  <2>1. /\ Len(replies') = 0 /\ Len(wire') \in Nat
        /\ Len(wire') <= dequeued /\ (link => Len(wire') = dequeued)
    BY <1>2, <1>4, <1>5, <1>6, <1>7
  <2>2. Len(replies') + Len(wire') = Len(wire') /\ (dequeued' - next') + 1 = dequeued
    BY <1>2, <1>4, <2>1
  <2>3. \A i \in 1 .. Len(wire') : (next' + Len(replies') + i) - 1 = i
    BY <1>2, <2>1
  <2>4. \A i \in 1 .. Len(wire') : wire'[i] = reqs[i]
    BY <1>5, <1>7
  <2> QED BY <1>2, <1>3, <1>6, <1>7, <2>1, <2>2, <2>3, <2>4 DEF Owed
<1>12. Connections'
  BY <1>2 DEF IInv, Connections
<1>13. Answers'
  BY <1>2 DEF IInv, Answers
<1> QED BY <1>8, <1>9, <1>10, <1>11, <1>12, <1>13 DEF IInv

(* A callback is called with r for the next command of the batch.          *)
ReplyStep(r) ==
    /\ worker = "reply"
    /\ answer' = [answer EXCEPT ![reqs[next]] = r]
    /\ next' = next + 1
    /\ worker' = IF next = dequeued THEN "top" ELSE "reply"
    /\ UNCHANGED <<commands, wire, executed, link, severed, reqs, size, dequeued, calls>>

LEMMA ReplySteps ==
    ASSUME NEW once, IInv(once), GetReply \/ ReplyError
    PROVE  /\ next \in 1 .. dequeued /\ dequeued \in 1 .. Len(reqs)
           /\ reqs[next] \in Calls
           /\ GetReply => ReplyStep(Head(replies))
           /\ ReplyError => ReplyStep(NullReply)
<1>1. worker = "reply"
  BY DEF GetReply, ReplyError
<1>2. /\ next \in 1 .. dequeued /\ dequeued \in 1 .. Len(reqs)
      /\ reqs[next] \in Calls
  BY <1>1 DEF IInv, TypeOK, Batches, Holding
<1>3. reqs[next] # 0
  BY <1>2 DEF Calls
<1>4. GetReply => ReplyStep(Head(replies))
  BY <1>1, <1>3 DEF GetReply, Callback, ReplyStep, queueVars, callVars
<1>5. ReplyError => ReplyStep(NullReply)
  BY <1>1, <1>3 DEF ReplyError, Callback, ReplyStep, queueVars, callVars, linkVars
<1> QED BY <1>2, <1>4, <1>5

(* What both do: the rest of the batch stays unanswered.                   *)
LEMMA ReplyKeeps ==
    ASSUME NEW once, IInv(once), NEW r, ReplyStep(r),
           next \in 1 .. dequeued, dequeued \in 1 .. Len(reqs), reqs[next] \in Calls,
           r # NullReply \/ severed
    PROVE  /\ Batches(once)' /\ Increasing' /\ Answers'
           /\ \A e \in 1 .. Len(executed) : executed[e] <= calls
           /\ \A e \in 1 .. Len(executed), j \in 1 .. Len(commands) :
                 executed[e] < commands[j]
<1>1. worker' \in {"top", "reply"} /\ (worker' = "reply" => next + 1 \in 1 .. dequeued)
  BY DEF ReplyStep
<1>2. Holding /\ (Holding' => worker' = "reply")
  BY <1>1 DEF Holding, ReplyStep
<1>3. PICK c \in Calls : c = reqs[next]
  OBVIOUS
<1>4. Batches(once)'
  BY <1>1, <1>2 DEF IInv, Batches, ReplyStep
<1>5. Increasing'
  BY <1>2 DEF IInv, Increasing, ReplyStep
<1>6. \A d \in Calls : answer'[d] = IF d = c THEN r ELSE answer[d]
  BY <1>3 DEF ReplyStep, IInv, TypeOK
<1>7. Answers'
  <2>1. \A j \in 1 .. Len(commands) : commands[j] \in Calls /\ commands[j] # c
    <3>1. \A j \in 1 .. Len(commands) : commands[j] \in Calls /\ c < commands[j]
      BY <1>2, <1>3 DEF IInv, TypeOK, Increasing
    <3> QED BY <1>3, <3>1 DEF Calls
  <2>2. \A i \in next + 1 .. dequeued : i \in next .. dequeued /\ reqs[i] \in Calls /\ reqs[i] # c
    <3>1. \A i \in next + 1 .. dequeued : i \in 1 .. dequeued /\ next < i /\ i \in next .. dequeued
      OBVIOUS
    <3>2. \A i \in next + 1 .. dequeued : reqs[i] \in Calls /\ c < reqs[i]
      BY <1>2, <1>3, <3>1 DEF IInv, Batches, Increasing
    <3> QED BY <1>3, <3>1, <3>2 DEF Calls
  <2>3. c <= calls /\ calls \in Nat
    BY <1>2, <1>3 DEF IInv, Increasing, TypeOK
  <2>4. /\ \A d \in Calls : d > calls => answer[d] = Pending
        /\ \A j \in 1 .. Len(commands) : answer[commands[j]] = Pending
        /\ \A i \in next .. dequeued : answer[reqs[i]] = Pending
        /\ \A d \in Calls : answer[d] = NullReply => severed
    BY DEF IInv, Answers, ReplyStep
  <2>5. /\ \A d \in Calls : d > calls => answer'[d] = Pending
        /\ \A d \in Calls : answer'[d] = NullReply => severed
    BY <1>3, <1>6, <2>3, <2>4 DEF Calls
  <2>6. /\ \A j \in 1 .. Len(commands) : answer'[commands[j]] = Pending
        /\ \A i \in next + 1 .. dequeued : answer'[reqs[i]] = Pending
    BY <1>6, <2>1, <2>2, <2>4
  <2>7. UNCHANGED <<commands, reqs, dequeued, calls, severed>> /\ next' = next + 1
    BY DEF ReplyStep
  <2> QED BY <1>1, <2>5, <2>6, <2>7 DEF Answers
<1>8. /\ \A e \in 1 .. Len(executed) : executed[e] <= calls
      /\ \A e \in 1 .. Len(executed), j \in 1 .. Len(commands) :
            executed[e] < commands[j]
  BY DEF IInv, ExecutedFirst
<1> QED BY <1>4, <1>5, <1>7, <1>8

LEMMA GetReplyKeeps ==
    ASSUME ClientAssumption, NEW once, IInv(once), TypeOK', GetReply
    PROVE  IInv(once)'
<1>1. PICK r : r = Head(replies)
  OBVIOUS
<1>2. /\ ReplyStep(r) /\ ctx = "ok" /\ ctx' = "ok" /\ replies # <<>>
      /\ replies' = Tail(replies) /\ worker = "reply"
      /\ next \in 1 .. dequeued /\ dequeued \in 1 .. Len(reqs) /\ reqs[next] \in Calls
  BY <1>1, ReplySteps DEF GetReply
<1>3. /\ Len(replies) \in Nat /\ Len(replies) > 0 /\ Len(replies') = Len(replies) - 1
      /\ \A i \in 1 .. Len(replies') : replies'[i] = replies[i + 1]
      /\ r \in Calls
  BY <1>1, <1>2 DEF IInv, TypeOK
<1>4. r # NullReply
  BY <1>3 DEF ClientAssumption, Calls
<1>5. /\ Batches(once)' /\ Increasing' /\ Answers'
      /\ \A e \in 1 .. Len(executed) : executed[e] <= calls
      /\ \A e \in 1 .. Len(executed), j \in 1 .. Len(commands) : executed[e] < commands[j]
  BY <1>2, <1>4, ReplyKeeps
<1>6. /\ UNCHANGED <<commands, wire, executed, link, severed, reqs, dequeued, calls>>
      /\ next' = next + 1
      /\ worker' = IF next = dequeued THEN "top" ELSE "reply"
  BY <1>2 DEF ReplyStep
<1>7. ExecutedFirst'
  BY <1>5, <1>6 DEF IInv, ExecutedFirst
<1>8. Waiting /\ (Waiting' <=> next # dequeued)
  BY <1>2, <1>6 DEF Waiting
<1>9. Owed'
  <2>1. PICK a \in Nat, b \in Nat : a = Len(replies) /\ b = Len(wire)
    BY DEF IInv, TypeOK
  <2>2. /\ a + b <= (dequeued - next) + 1
        /\ link => a + b = (dequeued - next) + 1
        /\ \A i \in 1 .. a : replies[i] = reqs[(next + i) - 1]
        /\ \A i \in 1 .. b : wire[i] = reqs[(next + a + i) - 1]
    BY <1>8, <2>1 DEF IInv, Owed
  <2>3. /\ Len(replies') + Len(wire') <= (dequeued' - next') + 1
        /\ link' => Len(replies') + Len(wire') = (dequeued' - next') + 1
    BY <1>2, <1>3, <1>6, <2>1, <2>2
  <2>4. \A i \in 1 .. Len(replies') : i + 1 \in 1 .. a /\ (next + (i + 1)) - 1 = (next' + i) - 1
    BY <1>2, <1>3, <1>6, <2>1
  <2>5. \A i \in 1 .. Len(replies') : replies'[i] = reqs'[(next' + i) - 1]
    BY <1>3, <1>6, <2>2, <2>4
  <2>6. \A i \in 1 .. Len(wire') : (next + a + i) - 1 = (next' + Len(replies') + i) - 1
    BY <1>2, <1>3, <1>6, <2>1
  <2>7. \A i \in 1 .. Len(wire') : wire'[i] = reqs'[(next' + Len(replies') + i) - 1]
    BY <1>6, <2>1, <2>2, <2>6
  <2>8. next = dequeued => replies' = <<>> /\ wire' = <<>>
    <3>1. next = dequeued => a = 1 /\ b = 0
      BY <1>2, <1>3, <2>1, <2>2
    <3>2. replies' \in Seq(Calls) /\ wire' \in Seq(Calls)
      BY DEF TypeOK
    <3>3. Len(replies') = a - 1 /\ Len(wire') = b
      BY <1>3, <1>6, <2>1
    <3>4. next = dequeued => Len(replies') = 0 /\ Len(wire') = 0
      BY <2>1, <3>1, <3>3
    <3> QED BY <3>2, <3>4
  <2>9. \A i \in 1 .. Len(replies') : \E e \in 1 .. Len(executed') : executed'[e] = replies'[i]
    <3>1. \A i \in 1 .. a : \E e \in 1 .. Len(executed) : executed[e] = replies[i]
      BY <2>1 DEF IInv, Owed
    <3> SUFFICES ASSUME NEW i \in 1 .. Len(replies')
                 PROVE  \E e \in 1 .. Len(executed') : executed'[e] = replies'[i]
      OBVIOUS
    <3>2. i + 1 \in 1 .. a /\ replies'[i] = replies[i + 1] /\ executed' = executed
      BY <1>3, <1>6, <2>4
    <3> QED BY <3>1, <3>2
  <2>10. ~link' => wire' = <<>>
    BY <1>6 DEF IInv, Owed
  <2> QED BY <1>8, <2>3, <2>5, <2>7, <2>8, <2>9, <2>10 DEF Owed
<1>10. Connections'
  BY <1>2, <1>6 DEF IInv, Connections
<1> QED BY <1>5, <1>7, <1>9, <1>10 DEF IInv

LEMMA ReplyErrorKeeps ==
    ASSUME ClientAssumption, NEW once, IInv(once), TypeOK', ReplyError
    PROVE  IInv(once)'
<1>1. /\ ReplyStep(NullReply) /\ ctx' = "err" /\ worker = "reply"
      /\ replies' = replies /\ (ctx = "err" \/ (~link /\ replies = <<>>))
      /\ next \in 1 .. dequeued /\ dequeued \in 1 .. Len(reqs) /\ reqs[next] \in Calls
  BY ReplySteps DEF ReplyError, linkVars
<1>2. severed /\ ~link /\ wire = <<>> /\ replies = <<>>
  <2>1. ctx \in {"ok", "err"}
    BY <1>1 DEF IInv, TypeOK, Connections
  <2>2. severed /\ ~link
    BY <1>1, <2>1 DEF IInv, Connections
  <2>3. ctx = "err" => ~Waiting
    BY DEF Waiting
  <2> QED BY <1>1, <2>1, <2>2, <2>3 DEF IInv, Owed
<1>3. /\ Batches(once)' /\ Increasing' /\ Answers'
      /\ \A e \in 1 .. Len(executed) : executed[e] <= calls
      /\ \A e \in 1 .. Len(executed), j \in 1 .. Len(commands) : executed[e] < commands[j]
  BY <1>1, <1>2, ReplyKeeps
<1>4. /\ UNCHANGED <<commands, wire, executed, link, severed, dequeued, calls>>
      /\ worker' \in {"top", "reply"}
  BY <1>1 DEF ReplyStep
<1>5. wire' = <<>> /\ replies' = <<>> /\ Len(wire') = 0 /\ Len(replies') = 0
  BY <1>1, <1>2, <1>4
<1>6. ExecutedFirst'
  BY <1>3, <1>4, <1>5 DEF ExecutedFirst
<1>7. Owed'
  BY <1>1, <1>5 DEF Owed, Waiting
<1>8. Connections'
  BY <1>1, <1>2, <1>4 DEF Connections
<1> QED BY <1>3, <1>6, <1>7, <1>8 DEF IInv

(* The server executes commands of the batch that is being answered.       *)
LEMMA ServerKeeps ==
    ASSUME NEW once, IInv(once), TypeOK', ServerExecute
    PROVE  IInv(once)'
<1>1. PICK h, a, b, m :
          h = Head(wire) /\ a = Len(replies) /\ b = Len(wire) /\ m = Len(executed)
  OBVIOUS
<1>2. /\ link /\ wire # <<>>
      /\ executed' = Append(executed, h) /\ replies' = Append(replies, h)
      /\ wire' = Tail(wire)
      /\ UNCHANGED <<commands, worker, reqs, size, dequeued, next, calls, ctx, answer, link, severed>>
  BY <1>1 DEF ServerExecute, queueVars, workVars, callVars
<1>3. /\ a \in Nat /\ b \in Nat /\ m \in Nat /\ b > 0 /\ h \in Calls
      /\ Len(replies') = a + 1 /\ Len(wire') = b - 1 /\ Len(executed') = m + 1
      /\ h = wire[1] /\ replies'[a + 1] = h /\ executed'[m + 1] = h
  BY <1>1, <1>2 DEF IInv, TypeOK
<1>4. /\ \A i \in 1 .. a : replies'[i] = replies[i]
      /\ \A e \in 1 .. m : executed'[e] = executed[e] /\ executed[e] \in Calls
      /\ \A i \in 1 .. b - 1 : wire'[i] = wire[i + 1]
  BY <1>1, <1>2, <1>3 DEF IInv, TypeOK
<1>5. UNCHANGED <<Holding, Waiting>> /\ Waiting /\ Holding
  BY <1>2 DEF IInv, Holding, Waiting, Owed
<1>6. /\ dequeued \in Nat /\ next \in 1 .. dequeued
      /\ \A i \in 1 .. dequeued : reqs[i] \in Calls
  BY <1>5 DEF IInv, TypeOK, Batches, Waiting
<1>7. /\ a + b = (dequeued - next) + 1
      /\ \A i \in 1 .. a : replies[i] = reqs[(next + i) - 1]
      /\ \A i \in 1 .. b : wire[i] = reqs[(next + a + i) - 1]
  BY <1>1, <1>2, <1>5 DEF IInv, Owed
<1>8. PICK k \in 1 .. dequeued : k = next + a
  BY <1>3, <1>6, <1>7
<1>9. h = reqs[k]
  <2>1. 1 \in 1 .. b /\ (next + a + 1) - 1 = k
    BY <1>3, <1>6, <1>8
  <2> QED BY <1>3, <1>7, <2>1
<1>10. /\ h <= calls
       /\ \A j \in 1 .. Len(commands) : h < commands[j]
       /\ \A i \in 1 .. dequeued : k < i => h < reqs[i]
  BY <1>5, <1>8, <1>9 DEF IInv, Increasing
<1>11. Batches(once)'
  BY <1>2, <1>5 DEF IInv, Batches
<1>12. Increasing'
  BY <1>2, <1>5 DEF IInv, Increasing
<1>13. \A e \in 1 .. Len(executed') : e \in 1 .. m \/ (e = m + 1 /\ executed'[e] = h)
  BY <1>3
<1>14. ExecutedFirst'
  <2>1. /\ \A e \in 1 .. m : executed[e] <= calls
        /\ \A e \in 1 .. m, j \in 1 .. Len(commands) : executed[e] < commands[j]
        /\ \A e \in 1 .. m, i \in 1 .. b : executed[e] < wire[i]
    BY <1>1 DEF IInv, ExecutedFirst
  <2>2. \A e \in 1 .. Len(executed') : executed'[e] <= calls'
    BY <1>2, <1>4, <1>10, <1>13, <2>1
  <2>3. \A e \in 1 .. Len(executed'), j \in 1 .. Len(commands') : executed'[e] < commands'[j]
    BY <1>2, <1>4, <1>10, <1>13, <2>1
  <2>4. \A i \in 1 .. b - 1 : i + 1 \in 1 .. b /\ h < wire[i + 1]
    <3> SUFFICES ASSUME NEW i \in 1 .. b - 1
                 PROVE  i + 1 \in 1 .. b /\ h < wire[i + 1]
      OBVIOUS
    <3>1. i + 1 \in 1 .. b /\ (next + a + (i + 1)) - 1 = k + i
      BY <1>3, <1>6, <1>8
    <3>2. k + i \in 1 .. dequeued /\ k < k + i
      BY <1>3, <1>6, <1>7, <1>8
    <3>3. wire[i + 1] = reqs[k + i]
      BY <1>7, <3>1
    <3> QED BY <1>10, <3>1, <3>2, <3>3
  <2>5. \A e \in 1 .. Len(executed'), i \in 1 .. Len(wire') : executed'[e] < wire'[i]
    BY <1>3, <1>4, <1>13, <2>1, <2>4
  <2>6. worker' = "reply"
    BY <1>2, <1>5 DEF Waiting
  <2> QED BY <2>2, <2>3, <2>5, <2>6 DEF ExecutedFirst
<1>15. Owed'
  <2>1. Len(replies') + Len(wire') = (dequeued' - next') + 1
    <3>1. Len(replies') + Len(wire') = a + b
      BY <1>3
    <3> QED BY <1>2, <1>7, <3>1
  <2>2. \A i \in 1 .. Len(replies') : i \in 1 .. a \/ i = a + 1
    BY <1>3
  <2>3. (next + (a + 1)) - 1 = k
    BY <1>3, <1>6, <1>8
  <2>4. \A i \in 1 .. Len(replies') : replies'[i] = reqs'[(next' + i) - 1]
    BY <1>2, <1>3, <1>4, <1>7, <1>9, <2>2, <2>3
  <2>5. \A i \in 1 .. Len(wire') : wire'[i] = reqs'[(next' + Len(replies') + i) - 1]
    <3> SUFFICES ASSUME NEW i \in 1 .. b - 1
                 PROVE  wire'[i] = reqs[(next + (a + 1) + i) - 1]
      BY <1>2, <1>3
    <3>1. i + 1 \in 1 .. b /\ (next + a + (i + 1)) - 1 = (next + (a + 1) + i) - 1
      BY <1>3, <1>6
    <3> QED BY <1>4, <1>7, <3>1
  <2>6. \A i \in 1 .. Len(replies') : \E e \in 1 .. Len(executed') : executed'[e] = replies'[i]
    <3>1. \A i \in 1 .. a : \E e \in 1 .. m : executed[e] = replies[i]
      BY <1>1 DEF IInv, Owed
    <3>2. m + 1 \in 1 .. Len(executed') /\ \A e \in 1 .. m : e \in 1 .. Len(executed')
      BY <1>3
    <3> QED BY <1>3, <1>4, <2>2, <3>1, <3>2
  <2>7. Len(replies') + Len(wire') <= (dequeued' - next') + 1
    BY <1>2, <1>3, <1>6, <2>1
  <2> QED BY <1>2, <1>5, <2>1, <2>4, <2>5, <2>6, <2>7 DEF Owed
<1>16. Connections'
  BY <1>2 DEF IInv, Connections
<1>17. Answers'
  BY <1>2 DEF IInv, Answers
<1> QED BY <1>11, <1>12, <1>14, <1>15, <1>16, <1>17 DEF IInv

LEMMA SeverKeeps ==
    ASSUME NEW once, IInv(once), TypeOK', Sever
    PROVE  IInv(once)'
<1>1. PICK k \in 0 .. Len(replies) : replies' = SubSeq(replies, 1, k)
  BY DEF Sever
<1>2. /\ link /\ link' = FALSE /\ severed' = TRUE /\ wire' = <<>>
      /\ UNCHANGED <<commands, worker, reqs, size, dequeued, next, calls, ctx, answer, executed>>
  BY DEF Sever, queueVars, workVars, callVars
<1>3. /\ Len(replies) \in Nat /\ Len(replies') = k /\ k <= Len(replies)
      /\ \A i \in 1 .. k : i \in 1 .. Len(replies) /\ replies'[i] = replies[i]
      /\ Len(wire') = 0 /\ Len(wire) \in Nat
  BY <1>1, <1>2 DEF IInv, TypeOK
<1>4. UNCHANGED <<Holding, Waiting>>
  BY <1>2 DEF Holding, Waiting
<1>5. Batches(once)'
  BY <1>2, <1>4 DEF IInv, Batches
<1>6. Increasing'
  BY <1>2, <1>4 DEF IInv, Increasing
<1>7. ExecutedFirst'
  BY <1>2, <1>3 DEF IInv, ExecutedFirst
<1>8. Owed'
  <2>1. ~Waiting => replies' = <<>>
    <3>1. ~Waiting => k = 0
      BY <1>3 DEF IInv, Owed
    <3>2. replies' \in Seq(Calls)
      BY DEF TypeOK
    <3> QED BY <1>3, <3>1, <3>2
  <2>2. Waiting => Len(replies') + Len(wire') <= (dequeued' - next') + 1
    <3>1. Waiting => Len(replies) + Len(wire) <= (dequeued - next) + 1
      BY DEF IInv, Owed
    <3>2. dequeued \in Nat /\ next \in Nat
      BY DEF IInv, Batches
    <3> QED BY <1>2, <1>3, <3>1, <3>2
  <2>3. Waiting => \A i \in 1 .. Len(replies') : replies'[i] = reqs'[(next' + i) - 1]
    BY <1>2, <1>3 DEF IInv, Owed
  <2>4. \A i \in 1 .. Len(replies') : \E e \in 1 .. Len(executed') : executed'[e] = replies'[i]
    BY <1>2, <1>3 DEF IInv, Owed
  <2>5. \A i \in 1 .. Len(wire') : FALSE
    BY <1>3
  <2> QED BY <1>2, <1>4, <2>1, <2>2, <2>3, <2>4, <2>5 DEF Owed
<1>9. Connections'
  BY <1>2 DEF IInv, Connections
<1>10. Answers'
  BY <1>2 DEF IInv, Answers
<1> QED BY <1>5, <1>6, <1>7, <1>8, <1>9, <1>10 DEF IInv

LEMMA ClientKeeps ==
    ASSUME ClientAssumption, NEW once, IInv(once), ClientStep(once)
    PROVE  IInv(once)'
<1> USE DEF queueVars, linkVars, workVars, callVars
<1>0. TypeOK'
  BY ClientTypes DEF IInv
<1>1. ASSUME AppendOnly \/ Command PROVE IInv(once)'
  BY <1>0, <1>1, EnqueueKeeps DEF AppendOnly, Command
<1>2. ASSUME CommitFlag \/ SignalStep \/ GetReturns \/ DisconnectStop PROVE IInv(once)'
  <2>1. QuietStep
    BY <1>2 DEF CommitFlag, SignalStep, GetReturns, DisconnectStop, QuietStep
  <2> QED BY <1>0, <2>1, QuietKeeps
<1>3. ASSUME Connect \/ DisconnectJoin PROVE IInv(once)'
  <2>1. ResetStep
    BY <1>3 DEF Connect, DisconnectJoin, ResetStep
  <2> QED BY <1>0, <2>1, ResetKeeps
<1>4. ASSUME \/ TopStep \/ WaitPermit \/ NothingToSend
             \/ ClearFlush /\ dequeued = 0
      PROVE IInv(once)'
  <2>1. worker # "none" /\ (worker \in {"wait", "send"} => ctx = "ok")
    BY <1>4 DEF IInv, Connections, TopStep, WaitPermit, NothingToSend, ClearFlush
  <2>2. QuietStep
    BY <1>4, <2>1 DEF TopStep, WaitPermit, NothingToSend, ClearFlush, QuietStep
  <2> QED BY <1>0, <2>2, QuietKeeps
<1> QED BY <1>0, <1>1, <1>2, <1>3, <1>4, SendKeeps, TakeKeeps, FlushKeeps, AppendKeeps,
           GetReplyKeeps, ReplyErrorKeeps, ServerKeeps, SeverKeeps
        DEF ClientStep, CallerStep, WorkerStep

LEMMA InitIInv ==
    ASSUME ClientAssumption, NEW once, Init
    PROVE  IInv(once)
<1>1. <<>> \in Seq(Calls) /\ <<>> \in Seq(Calls \cup {0}) /\ Len(<<>>) = 0
  OBVIOUS
<1>2. TypeOK
  <2>1. 0 \in 0 .. MaxCalls /\ 0 \in 0 .. MaxConnects
    BY DEF ClientAssumption
  <2>2. Idle \in [pc : {"idle", "flush", "signal", "get", "join"}, want : Calls \cup {0}]
    BY DEF Idle
  <2>3. answer \in [Calls -> Calls \cup {Pending, NullReply}]
    BY DEF Init
  <2> QED BY <1>1, <2>1, <2>2, <2>3 DEF Init, TypeOK
<1>3. worker = "none" /\ ~Holding /\ ~Waiting
  BY DEF Init, Holding, Waiting
<1>4. Batches(once)
  BY <1>3 DEF Init, Batches
<1>5. Increasing /\ ExecutedFirst /\ Owed
  BY <1>1, <1>3 DEF Init, Increasing, ExecutedFirst, Owed
<1>6. Connections
  BY DEF Init, Connections
<1>7. Answers
  BY <1>1, <1>3 DEF Init, Answers, ClientAssumption
<1> QED BY <1>2, <1>4, <1>5, <1>6, <1>7 DEF IInv

-----------------------------------------------------------------------------
(* No command disappears.                                                  *)
LEMMA Elements ==
    ASSUME NEW S, NEW s \in Seq(S), NEW c
    PROVE  c \in ToSet(s) <=> \E i \in 1 .. Len(s) : s[i] = c
BY DEF ToSet

(* A command whose callback has not been called is queued or in hand.      *)
Queued(c) == \E j \in 1 .. Len(commands) : commands[j] = c
Held(c) ==
    \/ /\ worker \in {"take", "more", "flush", "append"}
       /\ \E i \in 1 .. dequeued : reqs[i] = c
    \/ worker = "reply" /\ \E i \in next .. dequeued : reqs[i] = c
Kept == \A c \in 1 .. calls : answer[c] # Pending \/ Queued(c) \/ Held(c)

LEMMA KeptDropsNothing ==
    ASSUME TypeOK PROVE Kept <=> NothingDropped
<1>1. \A c : c \in ToSet(commands) <=> Queued(c)
  BY Elements DEF TypeOK, Queued
<1>2. \A c : c \in InHand <=> Held(c)
  BY DEF InHand, Held
<1> QED BY <1>1, <1>2 DEF Kept, NothingDropped

LEMMA StepKeepsAll ==
    ASSUME ClientAssumption, NEW once, IInv(once), Kept, ClientStep(once)
    PROVE  Kept'
<1> USE DEF queueVars, linkVars, workVars, callVars
<1>1. ASSUME UNCHANGED <<commands, calls, answer>>, \A c : Held(c) => Held(c)'
      PROVE  Kept'
  BY <1>1 DEF Kept, Queued
<1>2. ASSUME AppendOnly \/ Command PROVE Kept'
  <2>1. PICK l \in Nat : l = Len(commands)
    BY DEF IInv, TypeOK
  <2>2. PICK n \in Nat : n = calls
    BY DEF IInv, TypeOK
  <2>3. /\ calls' = n + 1 /\ commands' = Append(commands, n + 1)
        /\ UNCHANGED <<workVars, answer>>
    BY <1>2, <2>2 DEF AppendOnly, Command, Enqueue
  <2>4. /\ Len(commands') = l + 1 /\ commands'[l + 1] = n + 1
        /\ \A j \in 1 .. l : commands'[j] = commands[j]
    BY <2>1, <2>2, <2>3 DEF IInv, TypeOK
  <2>5. \A c : Queued(c) => Queued(c)'
    <3>1. \A j \in 1 .. l : j \in 1 .. Len(commands')
      BY <2>1, <2>4
    <3> QED BY <2>1, <2>4, <3>1 DEF Queued
  <2>6. Queued(n + 1)'
    <3>1. l + 1 \in 1 .. Len(commands')
      BY <2>1, <2>4
    <3> QED BY <2>4, <3>1 DEF Queued
  <2>7. \A c \in 1 .. calls' : c \in 1 .. calls \/ c = n + 1
    BY <2>2, <2>3
  <2>8. \A c : Held(c) <=> Held(c)'
    BY <2>3 DEF Held
  <2> QED BY <2>3, <2>5, <2>6, <2>7, <2>8 DEF Kept
<1>3. ASSUME CommitFlag \/ SignalStep \/ GetReturns \/ DisconnectStop PROVE Kept'
  BY <1>1, <1>3 DEF CommitFlag, SignalStep, GetReturns, DisconnectStop, Held
<1>4. ASSUME Connect \/ DisconnectJoin PROVE Kept'
  BY <1>1, <1>4 DEF Connect, DisconnectJoin, Held
<1>5. ASSUME TopStep \/ WaitPermit \/ NothingToSend \/ SendStep(once) PROVE Kept'
  BY <1>1, <1>5 DEF TopStep, WaitPermit, NothingToSend, SendStep, Held
<1>6. ASSUME TakeStep(once) PROVE Kept'
  <2>1. PICK n \in Nat :
             /\ n <= Len(commands) /\ n <= size /\ dequeued = 0 /\ dequeued' = n
             /\ worker' = "more" => n = size
             /\ Len(reqs') = size
             /\ \A i \in 1 .. n : reqs'[i] = commands[i]
             /\ Len(commands') = Len(commands) - n
             /\ \A j \in 1 .. Len(commands') : commands'[j] = commands[j + n]
    BY <1>6, TakenBatch
  <2>2. worker = "take" /\ worker' \in {"flush", "more"} /\ UNCHANGED <<calls, answer>>
    BY <1>6 DEF TakeStep
  <2>3. PICK l \in Nat : l = Len(commands)
    BY DEF IInv, TypeOK
  <2>4. \A c : ~Held(c)
    BY <2>1, <2>2 DEF Held
  <2>5. ASSUME NEW c, Queued(c) PROVE Queued(c)' \/ Held(c)'
    <3>1. PICK j \in 1 .. l : commands[j] = c
      BY <2>3, <2>5 DEF Queued
    <3>2. CASE j <= n
      <4>1. j \in 1 .. n /\ reqs'[j] = c
        BY <2>1, <3>1, <3>2
      <4> QED BY <2>1, <2>2, <4>1 DEF Held
    <3>3. CASE j > n
      <4>1. j - n \in 1 .. Len(commands') /\ (j - n) + n = j
        BY <2>1, <2>3, <3>3
      <4>2. commands'[j - n] = c
        BY <2>1, <3>1, <4>1
      <4> QED BY <4>1, <4>2 DEF Queued
    <3> QED BY <2>1, <3>2, <3>3
  <2> QED BY <2>2, <2>4, <2>5 DEF Kept
<1>7. ASSUME More \/ ClearFlush PROVE Kept'
  <2>1. UNCHANGED <<commands, calls, answer, reqs, dequeued>>
    BY <1>7 DEF More, ClearFlush
  <2>2. \/ worker \in {"more", "flush"} /\ worker' \in {"take", "flush", "append"}
        \/ worker = "flush" /\ dequeued = 0
    BY <1>7 DEF More, ClearFlush
  <2>3. \A c : Held(c) => Held(c)'
    BY <2>1, <2>2 DEF Held
  <2> QED BY <1>1, <2>1, <2>3
<1>8. ASSUME AppendStep PROVE Kept'
  BY <1>1, <1>8 DEF AppendStep, Held
<1>9. ASSUME NEW r, ReplyStep(r), r # Pending, next \in 1 .. dequeued,
             dequeued \in 1 .. Len(reqs), reqs[next] \in Calls
      PROVE  Kept'
  <2>1. /\ worker = "reply" /\ next' = next + 1
        /\ worker' = IF next = dequeued THEN "top" ELSE "reply"
        /\ UNCHANGED <<commands, reqs, dequeued, calls>>
    BY <1>9 DEF ReplyStep
  <2>2. \A c \in Calls : answer'[c] = IF c = reqs[next] THEN r ELSE answer[c]
    BY <1>9 DEF ReplyStep, IInv, TypeOK
  <2>3. \A c \in 1 .. calls : c \in Calls
    BY DEF IInv, TypeOK, Calls, ClientAssumption
  <2>4. ASSUME NEW c, Held(c), c # reqs[next] PROVE Held(c)'
    <3>1. PICK i \in next .. dequeued : reqs[i] = c
      BY <2>1, <2>4 DEF Held
    <3>2. i \in next + 1 .. dequeued /\ next # dequeued
      BY <1>9, <2>4, <3>1
    <3> QED BY <2>1, <3>1, <3>2 DEF Held
  <2>5. \A c : Queued(c) => Queued(c)'
    BY <2>1 DEF Queued
  <2> QED BY <1>9, <2>1, <2>2, <2>3, <2>4, <2>5 DEF Kept
<1>10. ASSUME GetReply \/ ReplyError PROVE Kept'
  <2>1. GetReply => Head(replies) \in Calls
    BY DEF GetReply, IInv, TypeOK
  <2>2. NullReply # Pending /\ (GetReply => Head(replies) # Pending)
    BY <2>1 DEF ClientAssumption, Calls
  <2> QED BY <1>9, <1>10, <2>2, ReplySteps
<1>11. ASSUME ServerExecute \/ Sever PROVE Kept'
  BY <1>1, <1>11 DEF ServerExecute, Sever, Held
<1> QED BY <1>2, <1>3, <1>4, <1>5, <1>6, <1>7, <1>8, <1>10, <1>11
        DEF ClientStep, CallerStep, WorkerStep

(* A query thread's own steps on its client: it makes and deletes it,      *)
(* appends to it and commits; the rest leaves it alone.                    *)
LEMMA ThreadSteps ==
    ASSUME Thread
    PROVE  NewClient \/ DeleteClient \/ Joined \/ CommitFirst \/ AppendNext
              \/ UNCHANGED vars
<1>1. ASSUME NEW ks, NEW wait, NEW to, Issue(ks, wait, to) PROVE UNCHANGED vars
  BY <1>1 DEF Issue
<1>2. ASSUME NEW to, Goto(to) PROVE UNCHANGED vars
  BY <1>2 DEF Goto
<1>3. ASSUME NEW listed, PutResult(listed) PROVE UNCHANGED vars
  BY <1>3 DEF PutResult
<1>4. ASSUME Auth \/ Authorized \/ Select \/ LoadScript \/ Loaded \/ Connected
      PROVE  UNCHANGED vars
  BY <1>1, <1>2, <1>4 DEF Auth, Authorized, Select, LoadScript, Loaded, Connected
<1>5. ASSUME InsertData \/ Done \/ InsertCookie \/ Known \/ SelectId \/ IdKnown
      PROVE  UNCHANGED vars
  BY <1>1, <1>2, <1>3, <1>5 DEF InsertData, Done, InsertCookie, Known, SelectId, IdKnown
<1>6. ASSUME SelectData \/ Rows \/ Keys \/ KeyId \/ KeyValues
      PROVE  UNCHANGED vars
  BY <1>1, <1>2, <1>3, <1>6 DEF SelectData, Rows, Keys, KeyId, KeyValues, NextKey
<1>7. GetQuery => UNCHANGED vars
  BY DEF GetQuery
<1> QED BY <1>4, <1>5, <1>6, <1>7 DEF Thread, ConnectDb, RunThreadPart

LEMMA ThreadTypes ==
    ASSUME ClientAssumption, TypeOK,
           NewClient \/ DeleteClient \/ Joined \/ CommitFirst \/ AppendNext
    PROVE  TypeOK'
<1> USE DEF queueVars, linkVars, workVars, callVars
<1>0. MaxCalls \in Nat /\ MaxConnects \in Nat /\ <<>> \in Seq(Calls)
  BY DEF ClientAssumption
<1>1. ASSUME NewClient PROVE TypeOK'
  <2>1. connects' \in 0 .. MaxConnects
    BY <1>0, <1>1 DEF TypeOK, NewClient
  <2> QED BY <1>0, <1>1, <2>1 DEF TypeOK, NewClient
<1>2. ASSUME DeleteClient PROVE TypeOK'
  BY <1>2 DEF TypeOK, DeleteClient
<1>3. ASSUME Joined PROVE TypeOK'
  BY <1>0, <1>3 DEF TypeOK, Joined
<1>4. ASSUME CommitFirst PROVE TypeOK'
  BY <1>4 DEF TypeOK, CommitFirst, Idle
<1>5. ASSUME AppendNext PROVE TypeOK'
  <2>1. PICK c : c = calls + 1
    OBVIOUS
  <2>2. c \in Calls /\ calls' = c /\ commands' = Append(commands, c)
    BY <1>0, <1>5, <2>1 DEF TypeOK, AppendNext, Enqueue, Calls
  <2>3. commands' \in Seq(Calls) /\ calls' \in 0 .. MaxCalls
    BY <1>0, <2>2 DEF TypeOK, Calls
  <2>4. caller' \in [pc : {"idle", "flush", "signal", "get", "join"}, want : Calls \cup {0}]
    BY <1>5, <2>1, <2>2 DEF AppendNext, Idle
  <2> QED BY <1>5, <2>3, <2>4 DEF TypeOK, AppendNext
<1> QED BY <1>1, <1>2, <1>3, <1>4, <1>5

LEMMA ThreadKeeps ==
    ASSUME ClientAssumption, OneRound, IInv(PipeTimeout), ThreadNext
    PROVE  IInv(PipeTimeout)'
<1> USE DEF queueVars, linkVars, workVars, callVars
<1>1. ASSUME UNCHANGED vars PROVE IInv(PipeTimeout)'
  <2>1. QuietStep /\ TypeOK'
    BY <1>1 DEF vars, QuietStep, IInv, TypeOK
  <2> QED BY <2>1, QuietKeeps
<1>2. ASSUME NewClient \/ Joined PROVE IInv(PipeTimeout)'
  <2>1. ResetStep
    BY <1>2 DEF NewClient, Joined, ResetStep
  <2>2. TypeOK'
    BY <1>2, ThreadTypes DEF IInv
  <2> QED BY <2>1, <2>2, ResetKeeps
<1>3. ASSUME DeleteClient \/ CommitFirst PROVE IInv(PipeTimeout)'
  <2>1. QuietStep
    BY <1>3 DEF DeleteClient, CommitFirst, QuietStep
  <2>2. TypeOK'
    BY <1>3, ThreadTypes DEF IInv
  <2> QED BY <2>1, <2>2, QuietKeeps
<1>4. ASSUME AppendNext PROVE IInv(PipeTimeout)'
  <2>1. TypeOK'
    BY <1>4, ThreadTypes DEF IInv
  <2>2. Enqueue /\ UNCHANGED <<linkVars, workVars, answer, ctx>>
    BY <1>4 DEF AppendNext
  <2> QED BY <2>1, <2>2, EnqueueKeeps
<1>5. ASSUME Inner \/ Serve \/ Lost PROVE IInv(PipeTimeout)'
  <2>1. Next
    BY <1>5 DEF Inner, Serve, Lost, Commit, Next, Caller
  <2>2. ClientStep(PipeTimeout)
    BY <2>1, NextIsStep DEF IInv
  <2> QED BY <2>2, ClientKeeps
<1> QED BY <1>1, <1>2, <1>3, <1>4, <1>5, ThreadSteps DEF ThreadNext

(* What TLC runs: any caller's client, with the constants' cache or with   *)
(* one, or a query thread's, which is deleted and made again.              *)
RunInv ==
    /\ IInv(Once)
    /\ user # "thread" => Kept

LEMMA RunSteps ==
    ASSUME ClientAssumption, RunInv, OneRound,
           \/ user = "caller" /\ Next /\ UNCHANGED clientVars
           \/ user = "cached" /\ Cached!Next /\ UNCHANGED clientVars
    PROVE  ClientStep(Once) /\ user' = user /\ Once' = Once
<1>1. user' = user /\ Once' = Once
  BY DEF clientVars, Once
<1>2. ASSUME user = "caller", Next PROVE ClientStep(Once)
  <2>1. Once = PipeTimeout
    BY <1>2 DEF Once, ClientAssumption
  <2> QED BY <1>2, <2>1, NextIsStep DEF RunInv, IInv
<1>3. ASSUME user = "cached", Cached!Next PROVE ClientStep(Once)
  <2>1. Once = TRUE
    BY <1>3 DEF Once, ClientAssumption
  <2> QED BY <1>3, <2>1, CachedIsStep DEF RunInv, IInv
<1> QED BY <1>1, <1>2, <1>3

LEMMA RunKeeps ==
    ASSUME ClientAssumption, OneRound, RunInv, [MCNext]_<<allVars, user>>
    PROVE  RunInv'
<1>1. ASSUME user = "thread", ThreadNext, UNCHANGED user PROVE RunInv'
  <2>1. Once = PipeTimeout /\ Once' = PipeTimeout
    BY <1>1 DEF Once, ClientAssumption
  <2>2. IInv(PipeTimeout)
    BY <2>1 DEF RunInv
  <2>3. IInv(PipeTimeout)'
    BY <1>1, <2>2, ThreadKeeps
  <2> QED BY <1>1, <2>1, <2>3 DEF RunInv
<1>2. ASSUME \/ user = "caller" /\ Next /\ UNCHANGED clientVars
             \/ user = "cached" /\ Cached!Next /\ UNCHANGED clientVars
      PROVE  RunInv'
  <2>1. PICK once : once = Once
    OBVIOUS
  <2>2. ClientStep(once) /\ user' = user /\ Once' = once
    BY <1>2, <2>1, RunSteps
  <2>3. IInv(once) /\ Kept
    BY <1>2, <2>1 DEF RunInv
  <2>4. IInv(once)' /\ Kept'
    BY <2>2, <2>3, ClientKeeps, StepKeepsAll
  <2> QED BY <2>2, <2>4 DEF RunInv
<1>3. ASSUME UNCHANGED <<allVars, user>> PROVE RunInv'
  <2>1. QuietStep /\ TypeOK'
    BY <1>3 DEF RunInv, IInv, TypeOK, allVars, vars, queueVars, linkVars, workVars, callVars,
            QuietStep
  <2>2. PICK once : once = Once
    OBVIOUS
  <2>3. Once' = once /\ user' = user
    BY <1>3, <2>2 DEF Once
  <2>4. IInv(once)'
    BY <2>1, <2>2, QuietKeeps DEF RunInv
  <2>5. Kept => Kept'
    BY <1>3 DEF Kept, Queued, Held, allVars, vars, queueVars, linkVars, workVars, callVars
  <2> QED BY <2>3, <2>4, <2>5 DEF RunInv
<1> QED BY <1>1, <1>2, <1>3 DEF MCNext

LEMMA RunInit ==
    ASSUME ClientAssumption, MCInit
    PROVE  RunInv
<1>1. Init /\ IInv(Once)
  BY InitIInv DEF MCInit, ThreadInit
<1>2. Kept
  BY <1>1 DEF Kept, Init
<1> QED BY <1>1, <1>2 DEF RunInv

LEMMA RunInvariant == ASSUME OneRound PROVE MCSpec => []RunInv
<1>1. MCInit => RunInv
  BY RunInit, ClientAssumption
<1>2. RunInv /\ [MCNext]_<<allVars, user>> => RunInv'
  BY RunKeeps, ClientAssumption
<1> QED BY <1>1, <1>2, PTL DEF MCSpec

(* Under any caller no command disappears: it is queued, in the io         *)
(* thread's hands or answered, whatever connections are lost, for any      *)
(* numbers of commands and connections (client.cpp:77-121).                *)
THEOREM KeepsCommands == ASSUME OneRound PROVE MCSpec => []NoCommandDropped
<1>1. RunInv => NoCommandDropped
  BY KeptDropsNothing DEF RunInv, IInv, NoCommandDropped
<1> QED BY <1>1, RunInvariant, PTL

-----------------------------------------------------------------------------
(* The client is an ordered pipe.                                          *)
Submitted == ToSet(wire) \cup Taken \cup ToSet(commands)

Sent(c) == \E i \in 1 .. Len(wire) : wire[i] = c
InBatch(c) ==
    worker \in {"more", "flush", "append"} /\ \E i \in 1 .. dequeued : reqs[i] = c

LEMMA NoZeros ==
    ASSUME NEW s \in Seq(Calls \cup {0}), NEW n \in 0 .. Len(s),
           \A i \in 1 .. n : s[i] \in Calls
    PROVE  LET batch == SubSeq(s, 1, n)
           IN  /\ 0 \notin ToSet(batch)
               /\ \A c : c \in ToSet(batch) <=> \E i \in 1 .. n : s[i] = c
<1>1. PICK batch : batch = SubSeq(s, 1, n)
  OBVIOUS
<1>2. Len(batch) = n /\ \A i \in 1 .. n : batch[i] = s[i]
  BY <1>1
<1>3. batch \in Seq(Calls \cup {0})
  BY <1>1
<1>4. \A c : c \in ToSet(batch) <=> \E i \in 1 .. n : s[i] = c
  BY <1>2, <1>3, Elements
<1>5. 0 \notin ToSet(batch)
  BY <1>4 DEF Calls
<1> QED BY <1>1, <1>4, <1>5

LEMMA TakenIs ==
    ASSUME NEW once PROVE IInv(once) => \A c : c \in Taken <=> InBatch(c)
<1> SUFFICES ASSUME IInv(once), NEW c PROVE c \in Taken <=> InBatch(c)
  OBVIOUS
<1>1. ASSUME worker \in {"take", "more", "flush", "append"}
      PROVE  /\ reqs \in Seq(Calls \cup {0}) /\ dequeued \in 0 .. Len(reqs)
             /\ \A i \in 1 .. dequeued : reqs[i] \in Calls
             /\ worker = "take" => dequeued = 0
  BY <1>1 DEF IInv, TypeOK, Batches, Holding
<1>2. ASSUME worker \in {"take", "more", "flush", "append"}
      PROVE  c \in Taken <=> \E i \in 1 .. dequeued : reqs[i] = c
  <2>1. PICK batch : batch = SubSeq(reqs, 1, dequeued)
    OBVIOUS
  <2>2. 0 \notin ToSet(batch) /\ (c \in ToSet(batch) <=> \E i \in 1 .. dequeued : reqs[i] = c)
    BY <1>1, <1>2, <2>1, NoZeros
  <2>3. Batch = batch
    BY <2>1, <2>2 DEF Batch
  <2> QED BY <1>2, <2>2, <2>3 DEF Taken
<1> QED BY <1>1, <1>2 DEF Taken, InBatch

LEMMA SubmittedIs ==
    ASSUME NEW once
    PROVE  IInv(once) => \A c : c \in Submitted <=> Sent(c) \/ InBatch(c) \/ Queued(c)
<1> SUFFICES ASSUME IInv(once), NEW c
             PROVE  c \in Submitted <=> Sent(c) \/ InBatch(c) \/ Queued(c)
  OBVIOUS
<1>1. c \in Taken <=> InBatch(c)
  BY TakenIs
<1>2. c \in ToSet(wire) <=> Sent(c)
  BY Elements DEF IInv, TypeOK, Sent
<1>3. c \in ToSet(commands) <=> Queued(c)
  BY Elements DEF IInv, TypeOK, Queued
<1> QED BY <1>1, <1>2, <1>3 DEF Submitted

(* The same of the next state.                                             *)
LEMMA SubmittedNext ==
    ASSUME NEW once
    PROVE  IInv(once)' => \A c : c \in Submitted' <=> Sent(c)' \/ InBatch(c)' \/ Queued(c)'
<1>1. IInv(once) => \A c : c \in Submitted <=> Sent(c) \/ InBatch(c) \/ Queued(c)
  BY SubmittedIs
<1>2. (IInv(once) => \A c : c \in Submitted <=> Sent(c) \/ InBatch(c) \/ Queued(c))'
  BY <1>1, PTL
<1> QED BY <1>2

(* What is on the wire is of the batch being answered, and in its order.   *)
LEMMA WireOrder ==
    ASSUME NEW once, IInv(once)
    PROVE  /\ \A d : Sent(d) => worker = "reply" /\ \E i \in 1 .. dequeued : reqs[i] = d
           /\ \A i, j \in 1 .. Len(wire) : i < j => wire[i] < wire[j]
<1>1. PICK a \in Nat, b \in Nat : a = Len(replies) /\ b = Len(wire)
  BY DEF IInv, TypeOK
<1>2. CASE ~Waiting
  <2>1. b = 0
    BY <1>1, <1>2 DEF IInv, Owed
  <2> QED BY <1>1, <2>1 DEF Sent
<1>3. CASE Waiting
  <2>1. worker = "reply" /\ dequeued \in Nat /\ next \in 1 .. dequeued
    BY <1>3 DEF IInv, TypeOK, Batches, Waiting
  <2>2. /\ a + b <= (dequeued - next) + 1
        /\ \A i \in 1 .. b : wire[i] = reqs[(next + a + i) - 1]
    BY <1>1, <1>3 DEF IInv, Owed
  <2>3. \A i \in 1 .. b : (next + a + i) - 1 \in 1 .. dequeued
    BY <1>1, <2>1, <2>2
  <2>4. \A i, j \in 1 .. b : i < j => (next + a + i) - 1 < (next + a + j) - 1
    BY <1>1, <2>1
  <2>5. \A i, j \in 1 .. dequeued : i < j => reqs[i] < reqs[j]
    BY <2>1 DEF IInv, Increasing, Holding
  <2>6. \A i, j \in 1 .. b : i < j => wire[i] < wire[j]
    BY <2>2, <2>3, <2>4, <2>5
  <2>7. \A i \in 1 .. b : \E k \in 1 .. dequeued : reqs[k] = wire[i]
    BY <2>2, <2>3
  <2> QED BY <1>1, <2>1, <2>6, <2>7 DEF Sent
<1> QED BY <1>2, <1>3

(* Commands in front of the queue were appended before those in it.        *)
LEMMA SubmittedOrder ==
    ASSUME NEW once, IInv(once)
    PROVE  /\ \A d : Sent(d) \/ InBatch(d) \/ Queued(d) => d \in Calls /\ d <= calls
           /\ \A d, q : (Sent(d) \/ InBatch(d)) /\ Queued(q) => d < q
           /\ \A d, q : Sent(d) => ~InBatch(q)
<1>1. \A d : Sent(d) => worker = "reply" /\ \E i \in 1 .. dequeued : reqs[i] = d
  BY WireOrder
<1>2. \A d : Sent(d) \/ InBatch(d) => Holding /\ \E i \in 1 .. dequeued : reqs[i] = d
  BY <1>1 DEF InBatch, Holding
<1>3. \A d : Sent(d) \/ InBatch(d) => d \in Calls /\ d <= calls
  BY <1>2 DEF IInv, Batches, Increasing
<1>4. \A d : Queued(d) => d \in Calls /\ d <= calls
  BY DEF IInv, TypeOK, Increasing, Queued
<1>5. \A d, q : (Sent(d) \/ InBatch(d)) /\ Queued(q) => d < q
  BY <1>2 DEF IInv, Increasing, Queued
<1>6. \A d, q : Sent(d) => ~InBatch(q)
  BY <1>1 DEF InBatch
<1> QED BY <1>3, <1>4, <1>5, <1>6

(* The actions of CommandPipe, of the commands submitted.                  *)
LEMMA PipeActions ==
    ASSUME NEW c \in Calls, TypeOK
    PROVE  /\ /\ \A d \in Submitted : d < c
              /\ \A e \in 1 .. Len(executed) : executed[e] < c
              /\ Submitted' = Submitted \cup {c}
              /\ UNCHANGED <<executed, answer, severed>>
              => Pipe!Next
           /\ /\ c \in Submitted /\ \A d \in Submitted : c <= d
              /\ executed' = Append(executed, c)
              /\ Submitted' = Submitted \ {c}
              /\ UNCHANGED <<answer, severed>>
              => Pipe!Next
           /\ /\ answer[c] = Pending
              /\ \E e \in 1 .. Len(executed) : executed[e] = c
              /\ \A e \in 1 .. Len(executed) :
                    executed[e] < c => answer[executed[e]] # Pending
              /\ answer' = [answer EXCEPT ![c] = c]
              /\ Submitted' = Submitted
              /\ UNCHANGED <<executed, severed>>
              => Pipe!Next
           /\ /\ severed /\ answer[c] = Pending
              /\ answer' = [answer EXCEPT ![c] = NullReply]
              /\ Submitted' = Submitted \ {c}
              /\ UNCHANGED <<executed, severed>>
              => Pipe!Next
<1>1. \A d : d \in Pipe!ToSet(executed) <=> \E e \in 1 .. Len(executed) : executed[e] = d
  BY DEF TypeOK, Pipe!ToSet
<1>2. c \in Pipe!Calls
  BY DEF Calls, Pipe!Calls
<1>3. \/ Pipe!Submit(c) \/ Pipe!Execute(c) \/ Pipe!Answer(c) \/ Pipe!Fail(c) => Pipe!Next
  BY <1>2 DEF Pipe!Next
<1>4. ASSUME \A d \in Submitted : d < c,
             \A e \in 1 .. Len(executed) : executed[e] < c,
             Submitted' = Submitted \cup {c},
             UNCHANGED <<executed, answer, severed>>
      PROVE  Pipe!Submit(c)
  BY <1>1, <1>4 DEF Pipe!Submit, Submitted
<1>5. ASSUME c \in Submitted, \A d \in Submitted : c <= d,
             executed' = Append(executed, c), Submitted' = Submitted \ {c},
             UNCHANGED <<answer, severed>>
      PROVE  Pipe!Execute(c)
  BY <1>5 DEF Pipe!Execute, Submitted
<1>6. ASSUME answer[c] = Pending, \E e \in 1 .. Len(executed) : executed[e] = c,
             \A e \in 1 .. Len(executed) :
                executed[e] < c => answer[executed[e]] # Pending,
             answer' = [answer EXCEPT ![c] = c], Submitted' = Submitted,
             UNCHANGED <<executed, severed>>
      PROVE  Pipe!Answer(c)
  BY <1>1, <1>6 DEF Pipe!Answer, Submitted
<1>7. ASSUME severed, answer[c] = Pending, answer' = [answer EXCEPT ![c] = NullReply],
             Submitted' = Submitted \ {c}, UNCHANGED <<executed, severed>>
      PROVE  Pipe!Fail(c)
  BY <1>7 DEF Pipe!Fail, Submitted
<1> QED BY <1>3, <1>4, <1>5, <1>6, <1>7

LEMMA PipeLoss ==
    ASSUME NEW S \in SUBSET Calls, severed', Submitted' = Submitted \ S,
           severed' \in BOOLEAN, UNCHANGED <<executed, answer>>
    PROVE  Pipe!Next
<1>1. Pipe!Lose(S)
  BY DEF Pipe!Lose, Submitted
<1>2. S \in SUBSET Pipe!Calls
  BY DEF Calls, Pipe!Calls
<1> QED BY <1>1, <1>2 DEF Pipe!Next

LEMMA PipeStutter ==
    ASSUME Submitted' = Submitted, UNCHANGED <<executed, answer, severed>>
    PROVE  UNCHANGED Pipe!vars
BY DEF Pipe!vars, Submitted

LEMMA SameCommands ==
    ASSUME NEW once, IInv(once), IInv(once)',
           \A c : Sent(c)' \/ InBatch(c)' \/ Queued(c)' <=> Sent(c) \/ InBatch(c) \/ Queued(c)
    PROVE  Submitted' = Submitted
<1>1. \A c : c \in Submitted <=> Sent(c) \/ InBatch(c) \/ Queued(c)
  BY SubmittedIs
<1>2. \A c : c \in Submitted' <=> Sent(c)' \/ InBatch(c)' \/ Queued(c)'
  BY SubmittedNext
<1>3. \A c : c \in Submitted' <=> c \in Submitted
  BY <1>1, <1>2
<1> QED BY <1>3

(* Steps that move no command into, in or out of the pipe                  *)
LEMMA PipeWaits ==
    ASSUME NEW once, IInv(once), IInv(once)',
           \/ CommitFlag \/ SignalStep \/ GetReturns \/ DisconnectStop
           \/ Connect \/ DisconnectJoin
           \/ TopStep \/ WaitPermit \/ NothingToSend \/ SendStep(once)
           \/ More \/ ClearFlush
    PROVE  UNCHANGED Pipe!vars /\ Submitted' = Submitted
<1> USE DEF queueVars, linkVars, workVars, callVars
<1>1. UNCHANGED <<commands, executed, answer, severed>>
  BY DEF CommitFlag, SignalStep, GetReturns, DisconnectStop, Connect, DisconnectJoin,
         TopStep, WaitPermit, NothingToSend, SendStep, More, ClearFlush
<1>2. \A c : Queued(c)' <=> Queued(c)
  BY <1>1 DEF Queued
<1>3. \A c : Sent(c)' <=> Sent(c)
  <2>1. CASE Connect \/ DisconnectJoin
    <3>1. wire = <<>> /\ wire' = <<>>
      BY <2>1 DEF IInv, Owed, Waiting, Connect, DisconnectJoin
    <3> QED BY <3>1 DEF Sent
  <2>2. CASE ~(Connect \/ DisconnectJoin)
    <3>1. wire' = wire
      BY <2>2 DEF CommitFlag, SignalStep, GetReturns, DisconnectStop,
             TopStep, WaitPermit, NothingToSend, SendStep, More, ClearFlush
    <3> QED BY <3>1 DEF Sent
  <2> QED BY <2>1, <2>2
<1>4. \A c : InBatch(c)' <=> InBatch(c)
  <2>1. CASE More \/ ClearFlush
    <3>1. dequeued \in Nat /\ size \in Nat /\ (worker = "more" => dequeued = size)
      BY DEF IInv, TypeOK, Batches
    <3>2. /\ \/ worker = "more" /\ worker' = "flush"
             \/ worker = "flush" /\ worker' = "append"
             \/ worker = "flush" /\ worker' = "top" /\ dequeued = 0
          /\ UNCHANGED <<reqs, dequeued>>
      BY <2>1, <3>1 DEF More, ClearFlush
    <3> QED BY <3>2 DEF InBatch
  <2>2. CASE TopStep \/ WaitPermit \/ NothingToSend \/ SendStep(once)
                \/ Connect \/ DisconnectJoin
    BY <2>2 DEF TopStep, WaitPermit, NothingToSend, SendStep, Connect, DisconnectJoin, InBatch
  <2>3. CASE CommitFlag \/ SignalStep \/ GetReturns \/ DisconnectStop
    BY <2>3 DEF CommitFlag, SignalStep, GetReturns, DisconnectStop, InBatch
  <2> QED BY <2>1, <2>2, <2>3
<1> QED BY <1>1, <1>2, <1>3, <1>4, SameCommands, PipeStutter

LEMMA EnqueueSubmits ==
    ASSUME ClientAssumption, NEW once, IInv(once), IInv(once)', Enqueue,
           UNCHANGED <<wire, worker, reqs, dequeued>>
    PROVE  \E n \in Nat :
              /\ n = calls /\ n + 1 \in Calls
              /\ Submitted' = Submitted \cup {n + 1}
              /\ \A d \in Submitted : d < n + 1
              /\ \E j \in 1 .. Len(commands') : commands'[j] = n + 1
<1>1. PICK l \in Nat, n \in Nat : l = Len(commands) /\ n = calls
  BY DEF IInv, TypeOK
<1>2. n + 1 \in Calls /\ commands' = Append(commands, n + 1)
  BY <1>1 DEF Enqueue, ClientAssumption, Calls
<1>3. /\ Len(commands') = l + 1 /\ commands'[l + 1] = n + 1
      /\ \A j \in 1 .. l : commands'[j] = commands[j]
  BY <1>1, <1>2 DEF IInv, TypeOK
<1>4. \A c : Queued(c)' <=> Queued(c) \/ c = n + 1
  <2>1. \A j \in 1 .. l + 1 : j \in 1 .. l \/ j = l + 1
    BY <1>1
  <2>2. l + 1 \in 1 .. l + 1 /\ \A j \in 1 .. l : j \in 1 .. l + 1
    BY <1>1
  <2> QED BY <1>1, <1>3, <2>1, <2>2 DEF Queued
<1>5. \A c : (Sent(c)' <=> Sent(c)) /\ (InBatch(c)' <=> InBatch(c))
  BY DEF Sent, InBatch
<1>6. \A c : c \in Submitted <=> Sent(c) \/ InBatch(c) \/ Queued(c)
  BY SubmittedIs
<1>7. \A c : c \in Submitted' <=> Sent(c)' \/ InBatch(c)' \/ Queued(c)'
  BY SubmittedNext
<1>8. Submitted' = Submitted \cup {n + 1}
  BY <1>4, <1>5, <1>6, <1>7
<1>9. \A d \in Submitted : d < n + 1
  <2>1. \A d \in Submitted : d \in Calls /\ d <= n
    BY <1>1, <1>6, SubmittedOrder
  <2> QED BY <1>1, <2>1 DEF Calls
<1>10. \E j \in 1 .. Len(commands') : commands'[j] = n + 1
  <2>1. l + 1 \in 1 .. Len(commands')
    BY <1>1, <1>3
  <2> QED BY <1>3, <2>1
<1> QED BY <1>1, <1>2, <1>8, <1>9, <1>10

LEMMA PipeSubmits ==
    ASSUME ClientAssumption, NEW once, IInv(once), IInv(once)', AppendOnly \/ Command
    PROVE  Pipe!Next
<1>2. Enqueue /\ UNCHANGED <<wire, worker, reqs, dequeued, executed, answer, severed>>
  BY DEF AppendOnly, Command, linkVars, workVars
<1>1. PICK n \in Nat : /\ n = calls /\ n + 1 \in Calls
                       /\ Submitted' = Submitted \cup {n + 1}
                       /\ \A d \in Submitted : d < n + 1
  BY <1>2, EnqueueSubmits
<1>4. \A e \in 1 .. Len(executed) : executed[e] < n + 1
  <2>1. \A e \in 1 .. Len(executed) : executed[e] \in Calls /\ executed[e] <= n
    BY <1>1 DEF IInv, TypeOK, ExecutedFirst
  <2> QED BY <1>1, <2>1 DEF Calls
<1>5. TypeOK
  BY DEF IInv
<1> QED BY <1>1, <1>2, <1>4, <1>5, PipeActions

LEMMA PipeTakes ==
    ASSUME NEW once, IInv(once), IInv(once)', TakeStep(once)
    PROVE  UNCHANGED Pipe!vars /\ Submitted' = Submitted
<1>1. PICK n \in Nat :
             /\ n <= Len(commands) /\ n <= size /\ dequeued = 0 /\ dequeued' = n
             /\ worker' = "more" => n = size
             /\ Len(reqs') = size
             /\ \A i \in 1 .. n : reqs'[i] = commands[i]
             /\ Len(commands') = Len(commands) - n
             /\ \A j \in 1 .. Len(commands') : commands'[j] = commands[j + n]
  BY TakenBatch
<1>2. /\ worker = "take" /\ worker' \in {"flush", "more"}
      /\ UNCHANGED <<wire, executed, answer, severed>>
  BY DEF TakeStep, linkVars
<1>3. PICK l \in Nat : l = Len(commands)
  BY DEF IInv, TypeOK
<1>4. \A c : ~InBatch(c) /\ (Sent(c)' <=> Sent(c))
  BY <1>2 DEF InBatch, Sent
<1>5. \A c : InBatch(c)' <=> \E i \in 1 .. n : commands[i] = c
  BY <1>1, <1>2 DEF InBatch
<1>6. \A c : Queued(c)' <=> \E j \in 1 .. Len(commands') : commands[j + n] = c
  BY <1>1 DEF Queued
<1>7. /\ \A i \in 1 .. n : i \in 1 .. l
      /\ \A j \in 1 .. Len(commands') : j + n \in 1 .. l
      /\ \A i \in 1 .. l : i \in 1 .. n
                           \/ (i - n \in 1 .. Len(commands') /\ (i - n) + n = i)
  BY <1>1, <1>3
<1>8. \A c : InBatch(c)' \/ Queued(c)' <=> Queued(c)
  <2>1. \A c : InBatch(c)' \/ Queued(c)' => Queued(c)
    BY <1>3, <1>5, <1>6, <1>7 DEF Queued
  <2>2. ASSUME NEW c, Queued(c) PROVE InBatch(c)' \/ Queued(c)'
    <3>1. PICK i \in 1 .. l : commands[i] = c
      BY <1>3, <2>2 DEF Queued
    <3>2. CASE i \in 1 .. n
      BY <1>5, <3>1, <3>2
    <3>3. CASE i - n \in 1 .. Len(commands') /\ (i - n) + n = i
      BY <1>6, <3>1, <3>3
    <3> QED BY <1>7, <3>2, <3>3
  <2> QED BY <2>1, <2>2
<1>9. \A c : Sent(c)' \/ InBatch(c)' \/ Queued(c)' <=> Sent(c) \/ InBatch(c) \/ Queued(c)
  BY <1>4, <1>8
<1> QED BY <1>2, <1>9, SameCommands, PipeStutter

(* A batch appended to a connection that is gone is lost with it.          *)
LEMMA PipeAppends ==
    ASSUME NEW once, IInv(once), IInv(once)', AppendStep
    PROVE  /\ Pipe!Next \/ UNCHANGED Pipe!vars
           /\ Submitted' \subseteq Submitted /\ (link => Submitted' = Submitted)
<1>1. PICK batch : batch = SubSeq(reqs, 1, dequeued)
  OBVIOUS
<1>2. /\ worker = "append" /\ worker' = "reply"
      /\ wire' = IF link THEN wire \o batch ELSE wire
      /\ UNCHANGED <<commands, executed, answer, severed>>
  BY <1>1 DEF AppendStep, queueVars
<1>3. ctx = "ok" /\ wire = <<>>
  BY <1>2 DEF IInv, Connections, Owed, Waiting
<1>4. reqs \in Seq(Calls \cup {0}) /\ dequeued \in 0 .. Len(reqs)
  BY <1>2 DEF IInv, TypeOK, Batches
<1>5. Len(batch) = dequeued /\ \A i \in 1 .. dequeued : batch[i] = reqs[i]
  BY <1>1, <1>4
<1>6. wire' = IF link THEN batch ELSE <<>>
  BY <1>1, <1>2, <1>3, <1>4
<1>7. \A c : ~Sent(c) /\ ~InBatch(c)' /\ (Queued(c)' <=> Queued(c))
  BY <1>2, <1>3 DEF Sent, InBatch, Queued
<1>8. CASE link
  <2>1. \A c : Sent(c)' <=> InBatch(c)
    BY <1>2, <1>5, <1>6, <1>8 DEF Sent, InBatch
  <2> QED BY <1>2, <1>7, <1>8, <2>1, SameCommands, PipeStutter
<1>9. CASE ~link
  <2>1. PICK S : S = {d \in Calls : InBatch(d)}
    OBVIOUS
  <2>2. \A c : ~Sent(c)'
    BY <1>6, <1>9 DEF Sent
  <2>3. \A c : c \in Submitted <=> Sent(c) \/ InBatch(c) \/ Queued(c)
    BY SubmittedIs
  <2>4. \A c : c \in Submitted' <=> Sent(c)' \/ InBatch(c)' \/ Queued(c)'
    BY SubmittedNext
  <2>5. \A c : InBatch(c) => c \in Calls /\ ~Queued(c)
    <3>1. \A c : InBatch(c) => c \in Calls
      BY SubmittedOrder
    <3>2. \A c : InBatch(c) /\ Queued(c) => c < c
      BY SubmittedOrder
    <3> QED BY <3>1, <3>2 DEF Calls
  <2>6. Submitted' = Submitted \ S
    BY <1>7, <2>1, <2>2, <2>3, <2>4, <2>5
  <2>7. severed' /\ severed' \in BOOLEAN
    BY <1>2, <1>3, <1>9 DEF IInv, Connections, TypeOK
  <2> QED BY <1>2, <1>9, <2>1, <2>6, <2>7, PipeLoss
<1> QED BY <1>8, <1>9

LEMMA RepliesSubmitNothing ==
    ASSUME NEW once, IInv(once), IInv(once)', GetReply \/ ReplyError
    PROVE  Submitted' = Submitted
<1>1. PICK r : ReplyStep(r)
  BY ReplySteps
<1>2. \A d : (Sent(d)' <=> Sent(d)) /\ (Queued(d)' <=> Queued(d)) /\ ~InBatch(d) /\ ~InBatch(d)'
  BY <1>1 DEF ReplyStep, Sent, Queued, InBatch
<1> QED BY <1>2, SameCommands

(* A callback: the batch is answered in order, so that whatever was        *)
(* executed before has been answered.                                      *)
LEMMA PipeReplies ==
    ASSUME ClientAssumption, NEW once, IInv(once), IInv(once)', Kept,
           GetReply \/ ReplyError
    PROVE  Pipe!Next
<1>1. PICK r : r = IF GetReply THEN Head(replies) ELSE NullReply
  OBVIOUS
<1>2. /\ ReplyStep(r) /\ next \in 1 .. dequeued /\ dequeued \in 1 .. Len(reqs)
      /\ reqs[next] \in Calls
  BY <1>1, ReplySteps
<1>3. PICK c \in Calls : c = reqs[next]
  BY <1>2
<1>4. /\ worker = "reply" /\ worker' \in {"top", "reply"}
      /\ answer' = [answer EXCEPT ![c] = r]
      /\ UNCHANGED <<commands, wire, executed, severed>>
  BY <1>2, <1>3 DEF ReplyStep
<1>5. answer[c] = Pending
  BY <1>2, <1>3, <1>4 DEF IInv, Answers
<1>6. \A d : (Sent(d)' <=> Sent(d)) /\ (Queued(d)' <=> Queued(d)) /\ ~InBatch(d) /\ ~InBatch(d)'
  BY <1>4 DEF Sent, Queued, InBatch
<1>7. Submitted' = Submitted
  BY RepliesSubmitNothing
<1>8. /\ \A i, j \in 1 .. dequeued : i < j => reqs[i] < reqs[j]
      /\ \A q : Queued(q) => c < q
  BY <1>2, <1>3, <1>4 DEF IInv, Increasing, Holding, Queued
<1>9. TypeOK
  BY DEF IInv
<1>10. CASE GetReply
  <2>1. ctx = "ok" /\ replies # <<>>
    BY <1>10 DEF GetReply
  <2>2. PICK a \in Nat : a = Len(replies) /\ a > 0 /\ r = replies[1]
    BY <1>1, <1>10, <2>1, <1>9 DEF TypeOK
  <2>3. /\ replies[1] = reqs[(next + 1) - 1]
        /\ \E e \in 1 .. Len(executed) : executed[e] = replies[1]
    <3>1. 1 \in 1 .. Len(replies)
      BY <2>2
    <3> QED BY <1>4, <2>1, <3>1 DEF IInv, Owed, Waiting
  <2>4. r = c
    BY <1>2, <1>3, <2>2, <2>3
  <2>5. ASSUME NEW e \in 1 .. Len(executed), executed[e] < c
        PROVE  answer[executed[e]] # Pending
    <3>1. PICK d \in Calls : d = executed[e]
      BY <1>9 DEF TypeOK
    <3>2. d <= calls /\ \A q : Queued(q) => d < q
      BY <3>1 DEF IInv, ExecutedFirst, Queued
    <3>3. ~Queued(d)
      BY <3>2 DEF Calls
    <3>4. ~Held(d)
      <4> SUFFICES ASSUME NEW i \in next .. dequeued, reqs[i] = d PROVE FALSE
        BY <1>4 DEF Held
      <4>1. d < c
        BY <2>5, <3>1
      <4>2. i # next
        BY <1>3, <4>1 DEF Calls
      <4>3. i \in 1 .. dequeued /\ next < i
        BY <1>2, <4>2
      <4>4. c < d
        BY <1>2, <1>3, <1>8, <4>3
      <4> QED BY <4>1, <4>4 DEF Calls
    <3>5. d \in 1 .. calls
      BY <3>2, <1>9 DEF Calls, TypeOK, ClientAssumption
    <3> QED BY <3>1, <3>3, <3>4, <3>5 DEF Kept
  <2>6. \E e \in 1 .. Len(executed) : executed[e] = c
    BY <2>2, <2>3, <2>4
  <2> QED BY <1>4, <1>5, <1>7, <1>9, <2>4, <2>5, <2>6, PipeActions
<1>11. CASE ~GetReply
  <2>1. r = NullReply /\ ReplyError
    BY <1>1, <1>11
  <2>2. ctx \in {"ok", "err"}
    BY <1>4, <1>9 DEF IInv, Connections, TypeOK
  <2>3. severed /\ ~link
    BY <2>1, <2>2 DEF IInv, Connections, ReplyError
  <2>4. wire = <<>>
    BY <2>3 DEF IInv, Owed
  <2>5. ~Sent(c) /\ ~InBatch(c) /\ ~Queued(c)
    BY <1>6, <1>8, <2>4 DEF Sent, Calls
  <2>6. c \notin Submitted
    BY <2>5, SubmittedIs
  <2>7. Submitted' = Submitted \ {c}
    BY <1>7, <2>6
  <2> QED BY <1>4, <1>5, <1>9, <2>1, <2>3, <2>7, PipeActions
<1> QED BY <1>10, <1>11

LEMMA PipeExecutes ==
    ASSUME NEW once, IInv(once), IInv(once)', ServerExecute
    PROVE  /\ Pipe!Next
           /\ Head(wire) \in Submitted /\ Submitted' = Submitted \ {Head(wire)}
           /\ \A d \in Submitted : Head(wire) <= d
<1>1. PICK h, b : h = Head(wire) /\ b = Len(wire)
  OBVIOUS
<1>2. /\ wire # <<>> /\ wire' = Tail(wire) /\ executed' = Append(executed, h)
      /\ UNCHANGED <<commands, worker, reqs, dequeued, answer, severed>>
  BY <1>1 DEF ServerExecute, queueVars, workVars
<1>3. /\ b \in Nat /\ b > 0 /\ h \in Calls /\ h = wire[1] /\ Len(wire') = b - 1
      /\ \A i \in 1 .. b - 1 : wire'[i] = wire[i + 1]
      /\ \A i \in 1 .. b : wire[i] \in Calls
  BY <1>1, <1>2 DEF IInv, TypeOK
<1>4. \A i \in 1 .. b : i # 1 => h < wire[i]
  <2>1. \A i, j \in 1 .. b : i < j => wire[i] < wire[j]
    BY <1>1, WireOrder
  <2>2. 1 \in 1 .. b /\ \A i \in 1 .. b : i # 1 => 1 < i
    BY <1>3
  <2> QED BY <1>3, <2>1, <2>2
<1>5. Sent(h) /\ \A c : Sent(c) => c = h \/ h < c
  <2>1. 1 \in 1 .. b
    BY <1>3
  <2> QED BY <1>1, <1>3, <1>4, <2>1 DEF Sent
<1>6. \A c : Sent(c)' <=> Sent(c) /\ c # h
  <2>1. ASSUME NEW c, Sent(c)' PROVE Sent(c) /\ c # h
    <3>1. PICK i \in 1 .. b - 1 : wire[i + 1] = c
      BY <1>3, <2>1 DEF Sent
    <3>2. i + 1 \in 1 .. b /\ i + 1 # 1
      BY <1>3
    <3>3. h < c
      BY <1>4, <3>1, <3>2
    <3> QED BY <1>1, <1>3, <3>1, <3>2, <3>3 DEF Sent, Calls
  <2>2. ASSUME NEW c, Sent(c), c # h PROVE Sent(c)'
    <3>1. PICK i \in 1 .. b : wire[i] = c
      BY <1>1, <2>2 DEF Sent
    <3>2. i # 1
      BY <1>3, <2>2, <3>1
    <3>3. i - 1 \in 1 .. b - 1 /\ (i - 1) + 1 = i
      BY <1>3, <3>2
    <3>4. wire'[i - 1] = c
      BY <1>3, <3>1, <3>3
    <3> QED BY <1>3, <3>3, <3>4 DEF Sent
  <2> QED BY <2>1, <2>2
<1>7. \A c : (InBatch(c)' <=> InBatch(c)) /\ (Queued(c)' <=> Queued(c)) /\ ~InBatch(c)
  <2>1. \A c : ~InBatch(c)
    BY <1>5, SubmittedOrder
  <2> QED BY <1>2, <2>1 DEF InBatch, Queued
<1>8. \A q : Queued(q) => h < q
  BY <1>5, SubmittedOrder
<1>9. \A c : c \in Submitted <=> Sent(c) \/ InBatch(c) \/ Queued(c)
  BY SubmittedIs
<1>10. \A c : c \in Submitted' <=> Sent(c)' \/ InBatch(c)' \/ Queued(c)'
  BY SubmittedNext
<1>11. \A c : Queued(c) => c # h
  BY <1>3, <1>8 DEF Calls
<1>12. Submitted' = Submitted \ {h}
  BY <1>6, <1>7, <1>9, <1>10, <1>11
<1>13. h \in Submitted /\ \A d \in Submitted : h <= d
  <2>1. \A d \in Submitted : d = h \/ h < d
    BY <1>5, <1>7, <1>8, <1>9
  <2>2. \A d \in Submitted : d \in Calls
    BY <1>9, SubmittedOrder
  <2>3. \A d \in Submitted : h <= d
    BY <1>3, <2>1, <2>2 DEF Calls
  <2> QED BY <1>5, <1>9, <2>3
<1>14. TypeOK
  BY DEF IInv
<1> QED BY <1>1, <1>2, <1>3, <1>12, <1>13, <1>14, PipeActions

LEMMA PipeBreaks ==
    ASSUME NEW once, IInv(once), IInv(once)', Sever
    PROVE  Pipe!Next /\ Submitted' \subseteq Submitted
<1>1. /\ wire' = <<>> /\ severed' = TRUE
      /\ UNCHANGED <<commands, worker, reqs, dequeued, executed, answer>>
  BY DEF Sever, queueVars, workVars
<1>2. \A c : ~Sent(c)' /\ (InBatch(c)' <=> InBatch(c)) /\ (Queued(c)' <=> Queued(c))
  BY <1>1 DEF Sent, InBatch, Queued
<1>3. PICK S : S = {d \in Calls : Sent(d)}
  OBVIOUS
<1>4. \A c : Sent(c) => c \in Calls /\ ~InBatch(c) /\ ~Queued(c)
  <2>1. \A c : Sent(c) => c \in Calls /\ ~InBatch(c)
    BY SubmittedOrder
  <2>2. \A c : Sent(c) /\ Queued(c) => c < c
    BY SubmittedOrder
  <2> QED BY <2>1, <2>2 DEF Calls
<1>5. \A c : c \in Submitted <=> Sent(c) \/ InBatch(c) \/ Queued(c)
  BY SubmittedIs
<1>6. \A c : c \in Submitted' <=> Sent(c)' \/ InBatch(c)' \/ Queued(c)'
  BY SubmittedNext
<1>7. Submitted' = Submitted \ S
  BY <1>2, <1>3, <1>4, <1>5, <1>6
<1> QED BY <1>1, <1>3, <1>7, PipeLoss

LEMMA StepIsPipe ==
    ASSUME ClientAssumption, NEW once, IInv(once), Kept, ClientStep(once)
    PROVE  [Pipe!Next]_(Pipe!vars)
<1>1. IInv(once)'
  BY ClientKeeps
<1>2. ASSUME CallerStep PROVE Pipe!Next \/ UNCHANGED Pipe!vars
  BY <1>1, <1>2, PipeWaits, PipeSubmits DEF CallerStep
<1>3. ASSUME WorkerStep(once) PROVE Pipe!Next \/ UNCHANGED Pipe!vars
  BY <1>1, <1>3, PipeWaits, PipeTakes, PipeAppends, PipeReplies DEF WorkerStep
<1>4. ASSUME ServerExecute \/ Sever PROVE Pipe!Next
  BY <1>1, <1>4, PipeExecutes, PipeBreaks
<1> QED BY <1>2, <1>3, <1>4 DEF ClientStep

LEMMA InitIsPipe ==
    ASSUME ClientAssumption, Init PROVE Pipe!Init
<1>1. IInv(TRUE)
  BY InitIInv
<1>2. \A c : ~Sent(c) /\ ~InBatch(c) /\ ~Queued(c)
  BY DEF Init, Sent, InBatch, Queued
<1>3. Submitted = {}
  BY <1>1, <1>2, SubmittedIs
<1> QED BY <1>3 DEF Init, Pipe!Init, Submitted, Calls, Pipe!Calls

(* The client is an ordered pipe: commands are executed in the order of    *)
(* Append, at most once, a callback gets the reply to its own command, and *)
(* nothing fails before a connection is lost, for any numbers of commands  *)
(* and connections (client.cpp:57-169).                                    *)
THEOREM IsOrderedPipe == ASSUME OneRound PROVE MCSpec => ClientIsPipe
<1>1. MCInit => Pipe!Init
  BY InitIsPipe, ClientAssumption DEF MCInit, ThreadInit
<1>2. RunInv /\ [MCNext]_<<allVars, user>>
        => [user # "thread" => [Pipe!Next]_(Pipe!vars)]_<<allVars, user>>
  <2> SUFFICES ASSUME RunInv, MCNext, user # "thread" PROVE [Pipe!Next]_(Pipe!vars)
    OBVIOUS
  <2>1. ClientStep(Once)
    BY RunSteps, ClientAssumption DEF MCNext
  <2>2. PICK once : once = Once
    OBVIOUS
  <2> QED BY <2>1, <2>2, StepIsPipe, ClientAssumption DEF RunInv
<1> QED BY <1>1, <1>2, RunInvariant, PTL DEF MCSpec, ClientIsPipe

-----------------------------------------------------------------------------
(* The query thread: whenever it looks at a reply, the last command it     *)
(* appended has been answered, and the null ones come from lost            *)
(* connections only.                                                       *)
Kinds == {"AUTH", "SELECT", "SCRIPT", "SET", "SADD", "GETID", "EVALSHA", "KEYS", "GET",
          "GETDESC"}
Verdict == {"none", "status", "error", "string", "arrays", "nil"}
Looking == {"authorized", "loaded", "known", "id", "rows", "keys", "keyid", "values"}

LastAnswered ==
    thread \in Looking =>
        /\ await = TRUE
        /\ todo = <<>> =>
              /\ calls > 0
              /\ IF caller = Idle THEN answer[calls] # Pending ELSE caller.want = calls

ThreadInv ==
    /\ op \in OpTypes \cup {"none"} /\ todo \in Seq(Kinds) /\ await \in BOOLEAN
    /\ result \in [Calls -> Verdict]
    /\ LastAnswered
    /\ thread = "values" => calls + Len(todo) >= 3
    /\ CrashesOnlyAfterLoss

(* What the answers do to it: a callback that was called stays called.     *)
LEMMA AnswersStay ==
    ASSUME ClientAssumption, NEW once, IInv(once), ClientStep(once)
    PROVE  /\ \A c \in Calls : answer[c] # Pending => answer'[c] # Pending
           /\ severed => severed'
<1>1. CASE GetReply \/ ReplyError
  <2>1. PICK r : r = IF GetReply THEN Head(replies) ELSE NullReply
    OBVIOUS
  <2>2. ReplyStep(r) /\ reqs[next] \in Calls
    BY <1>1, <2>1, ReplySteps
  <2>3. GetReply => Head(replies) \in Calls
    BY DEF GetReply, IInv, TypeOK
  <2>4. r # Pending
    BY <2>1, <2>3 DEF ClientAssumption, Calls
  <2> QED BY <2>2, <2>4 DEF ReplyStep, IInv, TypeOK
<1>2. CASE ServerExecute \/ Sever
  BY <1>2 DEF ServerExecute, Sever
<1>3. CASE CallerStep
  BY <1>3 DEF CallerStep, AppendOnly, Command, CommitFlag, SignalStep, GetReturns, Connect,
         DisconnectStop, DisconnectJoin, linkVars
<1>4. CASE WorkerStep(once) /\ ~(GetReply \/ ReplyError)
  BY <1>4 DEF WorkerStep, TopStep, WaitPermit, NothingToSend, SendStep, TakeStep, More,
         ClearFlush, AppendStep, linkVars
<1> QED BY <1>1, <1>2, <1>3, <1>4 DEF ClientStep

(* The thread does not go on before get() has returned.                    *)
LEMMA WaitsForReply ==
    ASSUME ClientAssumption, OneRound, IInv(PipeTimeout), ThreadInv, Inner \/ Serve \/ Lost
    PROVE  LastAnswered'
<1> USE DEF queueVars, linkVars, workVars, callVars
<1>1. Next /\ UNCHANGED <<threadVars>>
  BY DEF Inner, Serve, Lost, Commit, Next, Caller
<1>2. ClientStep(PipeTimeout)
  BY <1>1, NextIsStep DEF IInv
<1>3. \A c \in Calls : answer[c] # Pending => answer'[c] # Pending
  BY <1>2, AnswersStay
<1>4. UNCHANGED <<thread, todo, await>>
  BY <1>1 DEF threadVars
<1>5. calls' = calls /\ calls \in 0 .. MaxCalls
  BY DEF Inner, Serve, Lost, Commit, CommitFlag, CommitSignal, GetReturns, Worker, Top, WaitPermit,
         Send, Take, More, ClearFlush, AppendBatch, GetReply, ReplyError, Callback,
         ServerExecute, Sever, IInv, TypeOK
<1>6. calls > 0 => calls \in Calls
  BY <1>5 DEF Calls, ClientAssumption
<1>7. caller \in [pc : {"idle", "flush", "signal", "get", "join"}, want : Calls \cup {0}]
  BY DEF IInv, TypeOK
<1>8. CASE CommitFlag /\ caller.pc = "flush"
  <2>1. caller # Idle /\ caller' # Idle /\ caller'.want = caller.want
    BY <1>7, <1>8 DEF CommitFlag, Idle
  <2> QED BY <1>4, <1>5, <2>1 DEF ThreadInv, LastAnswered
<1>9. CASE CommitSignal
  <2>1. caller # Idle
    BY <1>9 DEF CommitSignal, Idle
  <2>2. caller.want # 0 => caller' # Idle /\ caller'.want = caller.want
    BY <1>7, <1>9 DEF CommitSignal, Idle
  <2> QED BY <1>4, <1>5, <2>1, <2>2 DEF ThreadInv, LastAnswered
<1>10. CASE GetReturns
  <2>1. caller # Idle /\ answer[caller.want] # Pending /\ caller' = Idle /\ answer' = answer
    BY <1>10 DEF GetReturns, Idle
  <2> QED BY <1>4, <1>5, <2>1 DEF ThreadInv, LastAnswered
<1>11. CASE Worker \/ ServerExecute \/ Sever
  <2>1. caller' = caller
    BY <1>11 DEF Worker, Top, WaitPermit, Send, Take, More, ClearFlush, AppendBatch, GetReply,
           ReplyError, Callback, ServerExecute, Sever
  <2> QED BY <1>3, <1>4, <1>5, <1>6, <2>1 DEF ThreadInv, LastAnswered
<1> QED BY <1>8, <1>9, <1>10, <1>11 DEF Inner, Serve, Lost, Commit

LEMMA NullAfterLoss ==
    ASSUME ClientAssumption, NEW once, IInv(once), ThreadInv, NEW at \in Looking, Replied(at)
    PROVE  Reply = "null" => severed
<1>1. thread \in Looking /\ caller = Idle /\ todo = <<>>
  BY DEF Replied
<1>2. calls \in Calls /\ answer[calls] # Pending
  BY <1>1 DEF ThreadInv, LastAnswered, IInv, TypeOK, Calls, ClientAssumption
<1>3. answer[calls] = NullReply => severed
  BY <1>2 DEF IInv, Answers
<1>4. answer[calls] # NullReply => result[answer[calls]] \in Verdict
  BY <1>2 DEF ThreadInv, IInv, TypeOK
<1> QED BY <1>3, <1>4 DEF Reply, Verdict

LEMMA KindSequences ==
    /\ \A k \in Kinds : <<k>> \in Seq(Kinds) /\ <<k>> # <<>>
    /\ \A k, l \in Kinds : /\ <<k, l, k>> \in Seq(Kinds) /\ <<k, l, k>> # <<>>
                           /\ Len(<<k, l, k>>) = 3
    /\ \A k, l \in Kinds : <<k, l, l, l>> \in Seq(Kinds) /\ <<k, l, l, l>> # <<>>
    /\ {"AUTH", "SELECT", "SCRIPT", "SET", "SADD", "GETID", "EVALSHA", "KEYS", "GET", "GETDESC"}
          \subseteq Kinds
<1>1. \A k \in Kinds : <<k>> \in Seq(Kinds) /\ <<k>> # <<>>
  OBVIOUS
<1>2. \A k, l \in Kinds : /\ <<k, l, k>> \in Seq(Kinds) /\ <<k, l, k>> # <<>>
                          /\ Len(<<k, l, k>>) = 3
  OBVIOUS
<1>3. \A k, l \in Kinds : <<k, l, l, l>> \in Seq(Kinds) /\ <<k, l, l, l>> # <<>>
  OBVIOUS
<1> QED BY <1>1, <1>2, <1>3 DEF Kinds

LEMMA IssueKeeps ==
    ASSUME ClientAssumption, ThreadInv, TypeOK, NEW ks \in Seq(Kinds), NEW wait \in BOOLEAN, NEW to,
           Issue(ks, wait, to), ks # <<>>, to # "crashed",
           to \in Looking => wait = TRUE, to = "values" => Len(ks) = 3
    PROVE  ThreadInv'
<1>1. /\ todo' = ks /\ await' = wait /\ thread' = to
      /\ UNCHANGED <<op, result, calls, answer, caller, severed>>
  BY DEF Issue, vars, dataVars, linkVars, callVars
<1>2. calls \in Nat
  BY DEF TypeOK, ClientAssumption
<1>3. to = "values" => calls + Len(ks) >= 3
  BY <1>2
<1> QED BY <1>1, <1>3 DEF ThreadInv, LastAnswered, CrashesOnlyAfterLoss

LEMMA GotoKeeps ==
    ASSUME ThreadInv, NEW to, to \notin Looking, to = "crashed" => severed,
           thread' = to, op' \in OpTypes \cup {"none"},
           UNCHANGED <<severed, todo, await, result>>
    PROVE  ThreadInv'
<1>1. to # "values"
  BY DEF Looking
<1> QED BY <1>1 DEF ThreadInv, LastAnswered, CrashesOnlyAfterLoss

LEMMA PutResultKeeps ==
    ASSUME ThreadInv, NEW listed, PutResult(listed)
    PROVE  ThreadInv'
BY GotoKeeps DEF PutResult, vars, dataVars, linkVars, Looking

(* connectDb and the loop.                                                 *)
LEMMA LoopKeeps ==
    ASSUME ClientAssumption, NEW once, IInv(once), ThreadInv,
           ConnectDb \/ GetQuery \/ DeleteClient \/ Joined \/ CommitFirst
    PROVE  ThreadInv'
<1> USE DEF Looking
<1>0. TypeOK
  BY DEF IInv
<1>1. ASSUME NEW to, Goto(to), to \notin Looking, to = "crashed" => severed
      PROVE  ThreadInv'
  BY <1>1, GotoKeeps DEF Goto, ThreadInv, vars, dataVars, linkVars
<1>2. ASSUME NewClient \/ DeleteClient \/ Joined PROVE ThreadInv'
  <2>1. thread' \in {"auth", "joined", "connect"}
    BY <1>2 DEF NewClient, DeleteClient, Joined
  <2>2. UNCHANGED <<op, severed, todo, await, result>>
    BY <1>2 DEF NewClient, DeleteClient, Joined, linkVars, dataVars
  <2> QED BY <2>1, <2>2, GotoKeeps DEF ThreadInv
<1>3. ASSUME CommitFirst PROVE ThreadInv'
  <2>1. op \notin Looking /\ op # "crashed"
    BY DEF ThreadInv, OpTypes
  <2> QED BY <1>3, <2>1, GotoKeeps DEF CommitFirst, linkVars, dataVars, ThreadInv
<1>4. ASSUME GetQuery PROVE ThreadInv'
  BY <1>4, GotoKeeps DEF GetQuery, vars, linkVars, dataVars
<1>5. ASSUME Auth PROVE ThreadInv'
  BY <1>0, <1>5, IssueKeeps, KindSequences DEF Auth
<1>6. ASSUME Select \/ LoadScript PROVE ThreadInv'
  BY <1>0, <1>6, IssueKeeps, KindSequences DEF Select, LoadScript
<1>7. ASSUME Authorized PROVE ThreadInv'
  BY <1>1, <1>7, NullAfterLoss DEF Authorized
<1>8. ASSUME Loaded \/ Connected PROVE ThreadInv'
  BY <1>1, <1>8 DEF Loaded, Connected
<1> QED BY <1>2, <1>3, <1>4, <1>5, <1>6, <1>7, <1>8 DEF ConnectDb

LEMMA OperationsKeep ==
    ASSUME ClientAssumption, NEW once, IInv(once), ThreadInv, RunThreadPart
    PROVE  ThreadInv'
<1> USE DEF Looking
<1>0. TypeOK
  BY DEF IInv
<1>1. ASSUME NEW to, Goto(to), to \notin Looking, to = "crashed" => severed
      PROVE  ThreadInv'
  BY <1>1, GotoKeeps DEF Goto, ThreadInv, vars, dataVars, linkVars
<1>2. ASSUME InsertData \/ InsertCookie \/ SelectId \/ SelectData PROVE ThreadInv'
  <2>1. CASE InsertData
    BY <1>0, <2>1, IssueKeeps, KindSequences DEF InsertData
  <2>2. CASE InsertCookie
    BY <1>0, <2>2, IssueKeeps, KindSequences DEF InsertCookie
  <2>3. CASE SelectId
    BY <1>0, <2>3, IssueKeeps, KindSequences DEF SelectId
  <2>4. CASE SelectData
    BY <1>0, <2>4, IssueKeeps, KindSequences DEF SelectData
  <2> QED BY <1>2, <2>1, <2>2, <2>3, <2>4
<1>3. ASSUME Done PROVE ThreadInv'
  BY <1>3, PutResultKeeps DEF Done
<1>4. ASSUME Known PROVE ThreadInv'
  <2>1. CASE Goto("crashed") /\ Reply = "null"
    BY <1>1, <1>4, <2>1, NullAfterLoss DEF Known
  <2>2. CASE Issue(<<"SADD">>, FALSE, "done")
    BY <1>0, <2>2, IssueKeeps, KindSequences
  <2>3. CASE Issue(<<"SADD", "SET", "SET", "SET">>, FALSE, "done")
    BY <1>0, <2>3, IssueKeeps, KindSequences
  <2> QED BY <1>4, <2>1, <2>2, <2>3 DEF Known
<1>5. ASSUME IdKnown PROVE ThreadInv'
  BY <1>1, <1>5, NullAfterLoss, PutResultKeeps DEF IdKnown
<1>6. ASSUME Rows PROVE ThreadInv'
  BY <1>0, <1>6, IssueKeeps, KindSequences, PutResultKeeps DEF Rows
<1>a. ASSUME NextKey PROVE ThreadInv'
  BY <1>0, <1>a, IssueKeeps, KindSequences, PutResultKeeps DEF NextKey
<1>7. ASSUME Keys PROVE ThreadInv'
  BY <1>7, <1>a, PutResultKeeps DEF Keys
<1>8. ASSUME KeyId PROVE ThreadInv'
  <2>2. CASE Goto("crashed") /\ Reply = "null"
    BY <1>1, <1>8, <2>2, NullAfterLoss DEF KeyId
  <2>3. CASE Issue(<<"GET", "GETDESC", "GET">>, TRUE, "values")
    BY <1>0, <2>3, IssueKeeps, KindSequences
  <2> QED BY <1>8, <1>a, <2>2, <2>3 DEF KeyId
<1>9. ASSUME KeyValues PROVE ThreadInv'
  <2>1. calls \in Nat /\ calls >= 3 /\ calls <= MaxCalls /\ MaxCalls \in Nat
    BY <1>9 DEF KeyValues, Replied, ThreadInv, IInv, TypeOK, ClientAssumption
  <2>2. \A i \in 0 .. 2 : calls - i \in Calls
    BY <2>1 DEF Calls
  <2>3. (\E i \in 0 .. 2 : answer[calls - i] = NullReply) => severed
    BY <2>2 DEF IInv, Answers
  <2> QED BY <1>1, <1>9, <1>a, <2>3 DEF KeyValues
<1> QED BY <1>2, <1>3, <1>4, <1>5, <1>6, <1>7, <1>8, <1>9 DEF RunThreadPart

LEMMA AppendNextKeeps ==
    ASSUME ClientAssumption, NEW once, IInv(once), ThreadInv, AppendNext
    PROVE  ThreadInv'
<1>1. PICK n \in Nat, l \in Nat : n = calls /\ l = Len(todo)
  <2>1. calls \in Nat
    BY DEF IInv, TypeOK, ClientAssumption
  <2>2. Len(todo) \in Nat
    BY DEF ThreadInv
  <2> QED BY <2>1, <2>2
<1>2. /\ todo # <<>> /\ calls' = n + 1 /\ todo' = Tail(todo)
      /\ caller' = IF l > 1 THEN Idle
                   ELSE [pc |-> "flush", want |-> IF await THEN n + 1 ELSE 0]
      /\ UNCHANGED <<op, thread, await, result, severed>>
  BY <1>1 DEF AppendNext, Enqueue, linkVars
<1>3. l > 0 /\ todo' \in Seq(Kinds) /\ Len(todo') = l - 1
  BY <1>1, <1>2 DEF ThreadInv
<1>4. todo' = <<>> => ~(l > 1)
  <2>1. todo' = <<>> => Len(todo') = 0
    OBVIOUS
  <2> QED BY <1>3, <2>1
<1>5. LastAnswered'
  <2>1. await /\ ~(l > 1) => caller' # Idle /\ caller'.want = n + 1
    BY <1>2 DEF Idle
  <2>2. n + 1 > 0
    BY <1>1
  <2> QED BY <1>2, <1>4, <2>1, <2>2 DEF ThreadInv, LastAnswered
<1>6. thread = "values" => calls' + Len(todo') >= 3
  <2>1. thread = "values" => n + l >= 3
    BY <1>1 DEF ThreadInv
  <2> QED BY <1>1, <1>2, <1>3, <2>1
<1> QED BY <1>2, <1>3, <1>5, <1>6 DEF ThreadInv, CrashesOnlyAfterLoss

LEMMA InnerKeeps ==
    ASSUME ClientAssumption, ThreadAssumption, OneRound, IInv(PipeTimeout), ThreadInv,
           Inner \/ Serve \/ Lost
    PROVE  ThreadInv'
<1>1. LastAnswered'
  BY WaitsForReply
<1>2. UNCHANGED threadVars
  BY DEF Inner, Serve, Lost
<1>3. severed => severed'
  <2>1. Next
    BY DEF Inner, Serve, Lost, Commit, Next, Caller
  <2>2. ClientStep(PipeTimeout)
    BY <2>1, NextIsStep DEF IInv
  <2> QED BY <2>2, AnswersStay
<1>4. calls' = calls
  BY DEF Inner, Serve, Lost, Commit, CommitFlag, CommitSignal, GetReturns, Worker, Top, WaitPermit,
         Send, Take, More, ClearFlush, AppendBatch, GetReply, ReplyError, Callback,
         ServerExecute, Sever, callVars
<1>5. result' \in [Calls -> Verdict]
  <2>1. CASE Serve
    <3>1. PICK v \in Verdicts(kind[Head(wire)]) : result' = [result EXCEPT ![Head(wire)] = v]
      BY <2>1 DEF Serve
    <3>2. v \in Verdict
      BY <3>1 DEF Verdicts, Verdict
    <3> QED BY <3>1, <3>2 DEF ThreadInv
  <2>2. CASE Inner \/ Lost
    BY <2>2 DEF Inner, Lost, dataVars, ThreadInv
  <2> QED BY <2>1, <2>2
<1> QED BY <1>1, <1>2, <1>3, <1>4, <1>5 DEF ThreadInv, threadVars, CrashesOnlyAfterLoss

LEMMA ThreadInvNext ==
    ASSUME ClientAssumption, ThreadAssumption, OneRound, IInv(PipeTimeout), ThreadInv, ThreadNext
    PROVE  ThreadInv'
BY LoopKeeps, OperationsKeep, AppendNextKeeps, InnerKeeps DEF ThreadNext, Thread

LEMMA ThreadInvInit ==
    ASSUME ClientAssumption, ThreadInit PROVE ThreadInv
<1>1. <<>> \in Seq(Kinds)
  OBVIOUS
<1>2. result \in [Calls -> Verdict]
  BY DEF ThreadInit, Verdict
<1> QED BY <1>1, <1>2 DEF ThreadInit, ThreadInv, LastAnswered, Looking, CrashesOnlyAfterLoss

ThreadInvStutter ==
    UNCHANGED <<op, todo, await, result, thread, calls, caller, answer, severed>>

LEMMA ThreadInvSame ==
    ASSUME ThreadInv, ThreadInvStutter PROVE ThreadInv'
BY DEF ThreadInv, ThreadInvStutter, LastAnswered, CrashesOnlyAfterLoss

RunThreadInv ==
    IF user = "thread" THEN ThreadInv ELSE thread = "connect"

LEMMA RunThreadInvariant == ASSUME OneRound PROVE MCSpec => []RunThreadInv
<1>1. MCInit => RunThreadInv
  BY ThreadInvInit, ClientAssumption DEF MCInit, RunThreadInv, ThreadInit
<1>2. ASSUME RunInv, RunThreadInv, [MCNext]_<<allVars, user>> PROVE RunThreadInv'
  <2>1. CASE user = "thread" /\ ThreadNext /\ UNCHANGED user
    <3>1. IInv(PipeTimeout)
      BY <1>2, <2>1, ClientAssumption DEF RunInv, Once, ClientAssumption
    <3> QED BY <1>2, <2>1, <3>1, ThreadInvNext, ClientAssumption, ThreadAssumption
            DEF RunThreadInv
  <2>2. CASE user # "thread" /\ UNCHANGED clientVars
    BY <1>2, <2>2 DEF RunThreadInv, clientVars, threadVars
  <2>3. CASE UNCHANGED <<allVars, user>>
    <3>1. ThreadInvStutter /\ user' = user
      BY <2>3 DEF allVars, vars, linkVars, callVars, threadVars, dataVars, ThreadInvStutter
    <3> QED BY <1>2, <3>1, ThreadInvSame DEF RunThreadInv, ThreadInvStutter
  <2> QED BY <1>2, <2>1, <2>2, <2>3 DEF MCNext
<1> QED BY <1>1, <1>2, RunInvariant, PTL DEF MCSpec

(* As long as no connection was lost, no null reply is dereferenced, in    *)
(* connectDb or in an operation, whatever the server refuses and for any   *)
(* numbers of operations (extension.cpp:132-134, query.cpp:148, 219, 241,  *)
(* 280).  Nothing is said of the exceptions of std::stoi and GetString.    *)
THEOREM NoCrashUnlessLost == ASSUME OneRound PROVE MCSpec => []CrashesOnlyAfterLoss
<1>1. RunThreadInv => CrashesOnlyAfterLoss
  BY DEF RunThreadInv, ThreadInv, CrashesOnlyAfterLoss
<1> QED BY <1>1, RunThreadInvariant, PTL

-----------------------------------------------------------------------------
(* What the thread sent on its connection before it uses the keys, and     *)
(* what it makes of a load whose connection fails.                         *)
SettingUp == {"connect", "auth", "select", "delete", "joined", "crashed"}

(* The commands to append next, where that matters.                        *)
TodoInv ==
    /\ thread \in SettingUp => todo = <<>>
    /\ thread = "authorized" => todo \in {<<>>, <<"AUTH">>}
    /\ thread = "load" => todo \in {<<>>, <<"SELECT">>}
    /\ thread = "loaded" => todo \in {<<>>, <<"SCRIPT">>}
    /\ thread \notin {"authorized", "load", "loaded"} =>
          \A i \in 1 .. Len(todo) : todo[i] \notin SetUp
    /\ thread = "authorized" /\ todo = <<>> => kind[calls] = "AUTH"
    /\ thread = "rows" => todo \in {<<>>, <<"EVALSHA">>}
    /\ thread = "rows" /\ todo = <<>> => kind[calls] = "EVALSHA"
    /\ thread = "keys" => todo \in {<<>>, <<"KEYS">>}
    /\ thread = "keys" /\ todo = <<>> => kind[calls] = "KEYS"

(* A command has no result before it is executed, and its own answer.      *)
ResultsInv ==
    /\ kind \in [Calls -> Kinds \cup {"none"}]
    /\ \A c \in Calls : c > calls => result[c] = "none"
    /\ \A c \in Submitted : result[c] = "none"
    /\ \A i \in 1 .. Len(replies) : result[replies[i]] # "none"
    /\ \A c \in Calls : answer[c] \in {c, Pending, NullReply}
    /\ \A c \in Calls : answer[c] = c => result[c] # "none"
    /\ \A c \in Calls : kind[c] = "AUTH" => result[c] \in {"none", "status", "error"}
    /\ \A c \in Calls : kind[c] = "KEYS" => result[c] \in {"none", "arrays", "error"}

(* The connection of command c refused its password or its database,       *)
(* before c.                                                               *)
RefusedAt(d) == kind[d] \in {"AUTH", "SELECT"} /\ result[d] = "error"
RefusedBefore(c) ==
    \E d \in 1 .. c - 1 : RefusedAt(d) /\ \A e \in d + 1 .. c - 1 : kind[e] # "AUTH"

(* The database was selected on this connection, refused, or will be       *)
(* selected or refused before command c.                                   *)
Asked ==
    /\ thread \notin SettingUp \cup {"authorized"}
    /\ thread = "load" => todo = <<>>
SelectSent(c) ==
    \E s \in Submitted : /\ s < c /\ kind[s] = "SELECT"
                         /\ \A e \in s + 1 .. c - 1 : kind[e] # "AUTH"
Ready(c) == selected \/ RefusedBefore(c) \/ SelectSent(c)
ReadyInv ==
    link =>
        /\ \A c \in Submitted : kind[c] \notin SetUp => Ready(c)
        /\ Asked => Ready(calls + 1)

(* KEYS follows a script that the server refused, or a null reply to it.   *)
(* A connection that gave a null reply is dead, and KEYS stays in its      *)
(* queue.                                                                  *)
ScriptRefused(c) == c > 0 /\ kind[c] = "EVALSHA" /\ result[c] = "error"
LoadInv ==
    /\ thread = "rows" /\ todo = <<>> /\ answer[calls] = NullReply => ctx = "err"
    /\ thread = "keys" /\ todo # <<>> => ScriptRefused(calls) \/ ctx = "err"
    /\ thread = "keys" /\ todo = <<>> =>
          ScriptRefused(calls - 1) \/ (ctx = "err" /\ Queued(calls))
    /\ \A r \in results : r.op = "SelectData" /\ ~r.listed => r.last \in 2 .. calls
    /\ LoadsAreReal

DataInv ==
    /\ TodoInv
    /\ ResultsInv
    /\ ReadyInv
    /\ LoadInv

(* What the io thread, the network and get() leave of all that: nothing is *)
(* submitted, and only a connection that is gone loses commands.           *)
ClientLeaves ==
    /\ calls' = calls
    /\ Submitted' \subseteq Submitted
    /\ link' => link /\ Submitted' = Submitted
    /\ \A i \in 1 .. Len(replies') : \E j \in 1 .. Len(replies) : replies'[i] = replies[j]
    /\ \A c \in Calls :
          \/ answer'[c] = answer[c]
          \/ answer'[c] = c /\ \E j \in 1 .. Len(replies) : replies[j] = c
          \/ answer'[c] = NullReply /\ ctx' = "err"
    /\ ctx = "err" => ctx' = "err" /\ commands' = commands

LEMMA BatchLeaves ==
    ASSUME ClientAssumption, NEW once, IInv(once), IInv(once)',
           GetReply \/ ReplyError
    PROVE  ClientLeaves
<1>1. Submitted' = Submitted
  BY RepliesSubmitNothing
<1>2. PICK r : r = IF GetReply THEN Head(replies) ELSE NullReply
  OBVIOUS
<1>3. ReplyStep(r) /\ next \in 1 .. dequeued /\ reqs[next] \in Calls
  BY <1>2, ReplySteps
<1>4. PICK n \in Calls : n = reqs[next]
  BY <1>3
<1>5. /\ answer' = [answer EXCEPT ![n] = r] /\ worker = "reply"
      /\ UNCHANGED <<calls, commands, link>>
  BY <1>3, <1>4 DEF ReplyStep
<1>6. \A c \in Calls : answer'[c] = IF c = n THEN r ELSE answer[c]
  BY <1>5 DEF IInv, TypeOK
<1>7. CASE GetReply
  <2>1. ctx = "ok" /\ ctx' = "ok" /\ replies # <<>> /\ replies' = Tail(replies)
    BY <1>7 DEF GetReply
  <2>2. /\ Len(replies) > 0 /\ r = replies[1] /\ Len(replies') = Len(replies) - 1
        /\ \A i \in 1 .. Len(replies') : replies'[i] = replies[i + 1]
        /\ Len(replies) \in Nat
    BY <1>2, <1>7, <2>1 DEF IInv, TypeOK
  <2>3. /\ 1 \in 1 .. Len(replies)
        /\ \A i \in 1 .. Len(replies') : i + 1 \in 1 .. Len(replies)
    BY <2>2
  <2>4. r = n
    <3>1. replies[1] = reqs[(next + 1) - 1]
      BY <1>5, <2>1, <2>3 DEF IInv, Owed, Waiting
    <3> QED BY <1>3, <1>4, <2>2, <3>1
  <2>5. \A i \in 1 .. Len(replies') : \E j \in 1 .. Len(replies) : replies'[i] = replies[j]
    BY <2>2, <2>3
  <2>6. \E j \in 1 .. Len(replies) : replies[j] = n
    BY <2>2, <2>3, <2>4
  <2> QED BY <1>1, <1>5, <1>6, <2>1, <2>4, <2>5, <2>6 DEF ClientLeaves
<1>8. CASE ~GetReply
  <2>1. ReplyError /\ r = NullReply
    BY <1>2, <1>8
  <2>2. ctx' = "err" /\ replies' = replies
    BY <2>1 DEF ReplyError, linkVars
  <2> QED BY <1>1, <1>5, <1>6, <2>1, <2>2 DEF ClientLeaves
<1> QED BY <1>7, <1>8

LEMMA InnerLeaves ==
    ASSUME ClientAssumption, OneRound, IInv(PipeTimeout), Commit \/ GetReturns \/ Worker
    PROVE  ClientLeaves
<1> USE DEF queueVars, linkVars, workVars, callVars
<1>1. Worker => WorkerStep(PipeTimeout)
  BY TopSteps, SendSteps, TakeSteps, AppendSteps DEF Worker, WorkerStep, IInv
<1>2. Commit => CommitFlag \/ SignalStep
  BY SignalSteps DEF Commit
<1>3. IInv(PipeTimeout)'
  <2>1. ClientStep(PipeTimeout)
    BY <1>1, <1>2 DEF ClientStep, CallerStep
  <2> QED BY <2>1, ClientKeeps
<1>4. ASSUME CommitFlag \/ SignalStep \/ GetReturns \/ TopStep \/ WaitPermit \/ NothingToSend
             \/ SendStep(PipeTimeout) \/ More \/ ClearFlush
      PROVE  ClientLeaves
  <2>1. Submitted' = Submitted
    BY <1>3, <1>4, PipeWaits
  <2>2. UNCHANGED <<calls, link, replies, answer, ctx, commands>>
    BY <1>4 DEF CommitFlag, SignalStep, GetReturns, TopStep, WaitPermit, NothingToSend,
           SendStep, More, ClearFlush
  <2> QED BY <2>1, <2>2 DEF ClientLeaves
<1>5. ASSUME TakeStep(PipeTimeout) PROVE ClientLeaves
  <2>1. Submitted' = Submitted
    BY <1>3, <1>5, PipeTakes
  <2>2. ctx = "ok" /\ UNCHANGED <<calls, link, replies, answer, ctx>>
    BY <1>5 DEF TakeStep, IInv, Connections
  <2> QED BY <2>1, <2>2 DEF ClientLeaves
<1>6. ASSUME AppendStep PROVE ClientLeaves
  <2>1. Submitted' \subseteq Submitted /\ (link => Submitted' = Submitted)
    BY <1>3, <1>6, PipeAppends
  <2>2. UNCHANGED <<calls, link, replies, answer, ctx, commands>>
    BY <1>6 DEF AppendStep
  <2> QED BY <2>1, <2>2 DEF ClientLeaves
<1>7. ASSUME GetReply \/ ReplyError PROVE ClientLeaves
  BY <1>3, <1>7, BatchLeaves
<1> QED BY <1>1, <1>2, <1>4, <1>5, <1>6, <1>7 DEF WorkerStep

LEMMA LossLeaves ==
    ASSUME ClientAssumption, NEW once, IInv(once), Sever
    PROVE  ClientLeaves /\ ~link'
<1>1. IInv(once)'
  BY ClientKeeps DEF ClientStep
<1>2. Submitted' \subseteq Submitted
  BY <1>1, PipeBreaks
<1>3. ~link' /\ UNCHANGED <<calls, answer, ctx, commands>>
  BY DEF Sever, callVars, queueVars
<1>4. PICK k \in 0 .. Len(replies) : replies' = SubSeq(replies, 1, k)
  BY DEF Sever
<1>5. \A i \in 1 .. Len(replies') : i \in 1 .. Len(replies) /\ replies'[i] = replies[i]
  BY <1>4 DEF IInv, TypeOK
<1> QED BY <1>2, <1>3, <1>5 DEF ClientLeaves

LEMMA LeavesKeep ==
    ASSUME ClientAssumption, TypeOK, ThreadInv, DataInv, ClientLeaves,
           UNCHANGED <<thread, todo, kind, result, selected, results>>, severed => severed'
    PROVE  DataInv'
<1>1. calls' = calls
  BY DEF ClientLeaves
<1>2. TodoInv'
  BY <1>1 DEF DataInv, TodoInv
<1>3. ResultsInv'
  <2>1. replies \in Seq(Calls)
    BY DEF TypeOK
  <2>2. \A i \in 1 .. Len(replies') : result[replies'[i]] # "none"
    BY DEF DataInv, ResultsInv, ClientLeaves
  <2>3. \A c \in Calls : answer'[c] \in {c, Pending, NullReply}
    BY DEF DataInv, ResultsInv, ClientLeaves
  <2>4. ASSUME NEW c \in Calls, answer'[c] = c PROVE result[c] # "none"
    <3>1. c # NullReply
      BY DEF ClientAssumption, Calls
    <3> QED BY <2>4, <3>1 DEF DataInv, ResultsInv, ClientLeaves
  <2>5. \A c \in Submitted' : result[c] = "none"
    BY DEF DataInv, ResultsInv, ClientLeaves
  <2> QED BY <1>1, <2>2, <2>3, <2>4, <2>5 DEF DataInv, ResultsInv
<1>4. ReadyInv'
  <2>1. SUFFICES ASSUME link' PROVE ReadyInv'
    BY DEF ReadyInv
  <2>2. link /\ Submitted' = Submitted
    BY <2>1 DEF ClientLeaves
  <2>3. \A c : RefusedBefore(c)' <=> RefusedBefore(c)
    BY DEF RefusedBefore, RefusedAt
  <2>4. \A c : Ready(c)' <=> Ready(c)
    BY <2>2, <2>3 DEF Ready, SelectSent
  <2>5. Asked' <=> Asked
    BY DEF Asked
  <2> QED BY <1>1, <2>2, <2>4, <2>5 DEF DataInv, ReadyInv
<1>5. LoadInv'
  <2>1. \A c : ScriptRefused(c)' <=> ScriptRefused(c)
    BY DEF ScriptRefused
  <2>2. LoadsAreReal'
    BY DEF DataInv, LoadInv, LoadsAreReal
  <2>3. ASSUME thread = "rows", todo = <<>>, answer'[calls] = NullReply PROVE ctx' = "err"
    <3>1. calls \in Calls
      BY <2>3 DEF ThreadInv, LastAnswered, Looking, TypeOK, Calls, ClientAssumption
    <3>2. calls # NullReply
      BY <3>1 DEF ClientAssumption, Calls
    <3> QED BY <2>3, <3>1, <3>2 DEF ClientLeaves, DataInv, LoadInv
  <2>4. ctx = "err" => ctx' = "err" /\ (Queued(calls) => Queued(calls)')
    BY <1>1 DEF ClientLeaves, Queued
  <2> QED BY <1>1, <2>1, <2>2, <2>3, <2>4 DEF DataInv, LoadInv
<1> QED BY <1>2, <1>3, <1>4, <1>5 DEF DataInv

(* The server has changed its mind about nothing it said before.           *)
LEMMA ServeKeeps ==
    ASSUME ClientAssumption, ThreadAssumption, NEW once, IInv(once), ThreadInv, DataInv, Serve
    PROVE  DataInv'
<1>1. ServerExecute /\ IInv(once)'
  BY ClientKeeps DEF Serve, ClientStep
<1>2. PICK h : h = Head(wire)
  OBVIOUS
<1>3. /\ h \in Submitted /\ Submitted' = Submitted \ {h} /\ \A d \in Submitted : h <= d
  BY <1>1, <1>2, PipeExecutes
<1>4. TypeOK /\ h \in Calls
  <2>1. TypeOK
    BY DEF IInv
  <2> QED BY <1>1, <1>2, <2>1 DEF TypeOK, ServerExecute
<1>5. /\ replies' = Append(replies, h) /\ link' = link
      /\ UNCHANGED <<calls, answer, ctx, commands, severed>>
  BY <1>1, <1>2 DEF ServerExecute, queueVars, callVars
<1>6. UNCHANGED <<thread, todo, kind, results>>
  BY DEF Serve, threadVars
<1>7. PICK v \in Verdicts(kind[h]) :
             /\ result' = [result EXCEPT ![h] = v]
             /\ selected' = (selected \/ (kind[h] = "SELECT" /\ v # "error"))
  BY <1>2 DEF Serve
<1>9. \A c \in Calls : result'[c] = IF c = h THEN v ELSE result[c]
  BY <1>7 DEF ThreadInv
<1>10. /\ v # "none" /\ result[h] = "none"
       /\ kind[h] = "AUTH" => v \in {"status", "error"}
       /\ kind[h] = "KEYS" => v \in {"arrays", "error"}
  BY <1>3 DEF Verdicts, DataInv, ResultsInv
<1>11. \A d \in Calls : RefusedAt(d) => RefusedAt(d)'
  BY <1>6, <1>9, <1>10 DEF RefusedAt
<1>12. ResultsInv'
  <2>1. \A c \in Calls : c > calls => c # h
    <3>1. h <= calls
      BY <1>3, SubmittedIs, SubmittedOrder
    <3> QED BY <1>4, <3>1 DEF TypeOK, Calls, ClientAssumption
  <2>2. \A i \in 1 .. Len(replies') : result'[replies'[i]] # "none"
    <3>1. /\ Len(replies') = Len(replies) + 1 /\ replies'[Len(replies) + 1] = h
          /\ \A i \in 1 .. Len(replies) : replies'[i] = replies[i] /\ replies[i] \in Calls
          /\ Len(replies) \in Nat
      BY <1>4, <1>5 DEF TypeOK
    <3>2. \A i \in 1 .. Len(replies') : i \in 1 .. Len(replies) \/ i = Len(replies) + 1
      BY <3>1
    <3> QED BY <1>4, <1>9, <1>10, <3>1, <3>2 DEF DataInv, ResultsInv
  <2>3. \A c \in Submitted' : c \in Calls
    BY <1>3, SubmittedIs, SubmittedOrder
  <2> QED BY <1>3, <1>5, <1>6, <1>9, <1>10, <2>1, <2>2, <2>3 DEF DataInv, ResultsInv
<1>13. calls \in Nat
  BY <1>4 DEF TypeOK, ClientAssumption
<1>14. \A c \in 1 .. calls + 1 : RefusedBefore(c) => RefusedBefore(c)'
  <2>1. \A c \in 1 .. calls + 1 : \A d \in 1 .. c - 1 : d \in Calls
    BY <1>4, <1>13 DEF TypeOK, Calls, ClientAssumption
  <2> QED BY <1>6, <1>11, <2>1 DEF RefusedBefore
<1>15. ASSUME NEW c \in 1 .. calls + 1, Ready(c) PROVE Ready(c)'
  <2>1. CASE selected
    BY <1>7, <2>1 DEF Ready
  <2>2. CASE RefusedBefore(c)
    BY <1>14, <2>2 DEF Ready
  <2>3. CASE SelectSent(c)
    <3>1. PICK s \in Submitted : /\ s < c /\ kind[s] = "SELECT"
                                 /\ \A e \in s + 1 .. c - 1 : kind[e] # "AUTH"
      BY <2>3 DEF SelectSent
    <3>2. CASE s = h /\ v # "error"
      BY <1>7, <3>1, <3>2 DEF Ready
    <3>3. CASE s = h /\ v = "error"
      <4>1. RefusedAt(h)'
        BY <1>4, <1>6, <1>9, <3>1, <3>3 DEF RefusedAt
      <4>2. h \in 1 .. c - 1
        BY <1>4, <1>13, <3>1, <3>3 DEF Calls
      <4> QED BY <1>6, <3>1, <3>3, <4>1, <4>2 DEF RefusedBefore, Ready
    <3>4. CASE s # h
      BY <1>3, <1>6, <3>1, <3>4 DEF Ready, SelectSent
    <3> QED BY <3>2, <3>3, <3>4
  <2> QED BY <1>15, <2>1, <2>2, <2>3 DEF Ready
<1>16. ReadyInv'
  <2>1. \A c \in Submitted' : c \in Submitted /\ c \in 1 .. calls + 1
    <3>1. \A c \in Submitted : c \in Calls /\ c <= calls
      BY SubmittedIs, SubmittedOrder
    <3> QED BY <1>3, <1>13, <3>1 DEF Calls
  <2>2. calls + 1 \in 1 .. calls + 1
    BY <1>13
  <2>3. Asked' <=> Asked
    BY <1>6 DEF Asked
  <2> QED BY <1>5, <1>6, <1>15, <2>1, <2>2, <2>3 DEF DataInv, ReadyInv
<1>17. \A c \in 0 .. calls : c > 0 => c \in Calls
  BY <1>4 DEF TypeOK, Calls, ClientAssumption
<1>18. \A c \in 0 .. calls : ScriptRefused(c) => ScriptRefused(c)'
  BY <1>6, <1>9, <1>10, <1>17 DEF ScriptRefused
<1>19. LoadInv'
  <2>1. LoadsAreReal'
    <3>1. \A c \in 1 .. calls : result[c] = "error" => result'[c] = "error"
      BY <1>9, <1>10, <1>17
    <3>2. \A c \in 2 .. calls : c \in 1 .. calls /\ c - 1 \in 1 .. calls
      BY <1>13
    <3> QED BY <1>5, <1>6, <3>1, <3>2 DEF DataInv, LoadInv, LoadsAreReal
  <2>2. ScriptRefused(calls) => ScriptRefused(calls)'
    BY <1>5, <1>6, <1>13, <1>18 DEF ScriptRefused
  <2>3. ScriptRefused(calls - 1) => ScriptRefused(calls - 1)'
    <3>1. ScriptRefused(calls - 1) => calls - 1 \in 0 .. calls
      BY <1>13 DEF ScriptRefused
    <3> QED BY <1>5, <1>6, <1>18, <3>1 DEF ScriptRefused
  <2>4. Queued(calls)' <=> Queued(calls)
    BY <1>5 DEF Queued
  <2> QED BY <1>5, <1>6, <2>1, <2>2, <2>3, <2>4 DEF DataInv, LoadInv
<1>20. TodoInv'
  BY <1>5, <1>6 DEF DataInv, TodoInv
<1> QED BY <1>12, <1>16, <1>19, <1>20 DEF DataInv

(* Steps of the thread that leave the client's commands alone: it goes on  *)
(* or issues the next commands.                                            *)
Moved ==
    UNCHANGED <<link, wire, replies, commands, worker, reqs, dequeued, calls, answer,
                ctx, severed, dataVars>>

LEMMA MovedKeeps ==
    ASSUME DataInv, Moved, TodoInv', LoadInv', Asked' => Asked \/ RefusedBefore(calls + 1)
    PROVE  DataInv'
<1> USE DEF Moved, dataVars
<1>1. Submitted' = Submitted
  BY DEF Submitted, Taken, Batch
<1>2. ResultsInv'
  BY <1>1 DEF DataInv, ResultsInv
<1>3. ReadyInv'
  <2>1. \A c : RefusedBefore(c)' <=> RefusedBefore(c)
    BY DEF RefusedBefore, RefusedAt
  <2>2. \A c : Ready(c)' <=> Ready(c)
    BY <1>1, <2>1 DEF Ready, SelectSent
  <2>3. RefusedBefore(calls + 1) => Ready(calls + 1)
    BY DEF Ready
  <2> QED BY <1>1, <2>2, <2>3 DEF DataInv, ReadyInv
<1> QED BY <1>2, <1>3 DEF DataInv

(* A load that ends without the server's list                              *)
LoadFails(r) == r.op = "SelectData" /\ ~r.listed

LEMMA MovedLoads ==
    ASSUME DataInv, Moved, \A r \in results' : r \in results \/ ~LoadFails(r),
           thread' = "rows" => todo' # <<>>,
           thread' = "keys" => (ScriptRefused(calls) \/ ctx = "err") /\ todo' # <<>>
    PROVE  LoadInv'
<1>1. \A r \in results' : LoadFails(r) => r \in results
  OBVIOUS
<1>2. LoadsAreReal'
  BY <1>1 DEF DataInv, LoadInv, LoadsAreReal, LoadFails, Moved, dataVars
<1>3. \A r \in results' : LoadFails(r) => r.last \in 2 .. calls
  BY <1>1 DEF DataInv, LoadInv, LoadFails
<1>4. ScriptRefused(calls)' <=> ScriptRefused(calls)
  BY DEF ScriptRefused, Moved, dataVars
<1> QED BY <1>2, <1>3, <1>4 DEF LoadInv, LoadFails, Moved, dataVars

LEMMA IssueData ==
    ASSUME DataInv, NEW ks \in Seq(Kinds), NEW wait, NEW to, Issue(ks, wait, to),
           ks # <<>>, to \notin SettingUp,
           to = "authorized" => ks = <<"AUTH">>,
           to = "load" => ks = <<"SELECT">>,
           to = "loaded" => ks = <<"SCRIPT">> /\ thread = "load",
           to = "rows" => ks = <<"EVALSHA">>,
           to \notin {"authorized", "load", "loaded"} =>
              /\ thread \notin SettingUp \cup {"authorized", "load"}
              /\ \A i \in 1 .. Len(ks) : ks[i] \notin SetUp,
           to = "keys" => ks = <<"KEYS">> /\ (ScriptRefused(calls) \/ ctx = "err")
    PROVE  DataInv'
<1>1. /\ todo = <<>> /\ todo' = ks /\ thread' = to /\ results' = results /\ Moved
  BY DEF Issue, Moved, vars, queueVars, linkVars, workVars, callVars, dataVars
<1>2. TodoInv'
  BY <1>1 DEF TodoInv
<1>3. LoadInv'
  BY <1>1, MovedLoads
<1>4. Asked' => Asked
  BY <1>1 DEF Asked, SettingUp
<1> QED BY <1>1, <1>2, <1>3, <1>4, MovedKeeps

(* The thread goes on with what it has sent answered or not waited for.    *)
LEMMA GoesOnData ==
    ASSUME DataInv, Moved, \A r \in results' : r \in results \/ ~LoadFails(r), todo' = todo,
           thread' \notin Looking \cup {"load"},
           thread' \in SettingUp => todo = <<>>,
           thread \in {"authorized", "load", "loaded"} => todo = <<>>,
           \/ thread' \in SettingUp
           \/ thread \notin SettingUp \cup {"authorized", "load"}
           \/ RefusedBefore(calls + 1)
    PROVE  DataInv'
<1>1. TodoInv'
  <2>1. todo = <<>> => \A i \in 1 .. Len(todo) : todo[i] \notin SetUp
    OBVIOUS
  <2> QED BY <2>1 DEF DataInv, TodoInv, Looking
<1>2. LoadInv'
  BY MovedLoads DEF Looking
<1>3. Asked' => Asked \/ RefusedBefore(calls + 1)
  BY DEF Asked
<1> QED BY <1>1, <1>2, <1>3, MovedKeeps

LEMMA GotoData ==
    ASSUME DataInv, NEW to, Goto(to), todo = <<>>, to \notin Looking \cup {"load"},
           \/ to \in SettingUp
           \/ thread \notin SettingUp \cup {"authorized", "load"}
           \/ RefusedBefore(calls + 1)
    PROVE  DataInv'
<1>1. Moved /\ thread' = to /\ todo' = todo /\ results' = results
  BY DEF Goto, Moved, vars, queueVars, linkVars, workVars, callVars, dataVars
<1> QED BY <1>1, GoesOnData

LEMMA PutResultData ==
    ASSUME DataInv, PutResult(TRUE), todo = <<>>,
           thread \notin SettingUp \cup {"authorized", "load"}
    PROVE  DataInv'
<1>1. /\ Moved /\ thread' = "getquery" /\ todo' = todo
      /\ results' = results \cup {[op |-> op, listed |-> TRUE, last |-> calls]}
  BY DEF PutResult, Moved, vars, queueVars, linkVars, workVars, callVars, dataVars
<1>2. \A r \in results' : r \in results \/ ~LoadFails(r)
  BY <1>1 DEF LoadFails
<1> QED BY <1>1, <1>2, GoesOnData DEF Looking, SettingUp

(* The server refused KEYS, or the connection was lost before it answered. *)
LEMMA UnlistedData ==
    ASSUME DataInv, PutResult(FALSE), todo = <<>>, thread = "keys", calls \in Nat,
           ScriptRefused(calls - 1), kind[calls] = "KEYS", result[calls] = "error" \/ severed
    PROVE  DataInv'
<1>1. /\ Moved /\ thread' = "getquery" /\ todo' = todo
      /\ results' = results \cup {[op |-> op, listed |-> FALSE, last |-> calls]}
  BY DEF PutResult, Moved, vars, queueVars, linkVars, workVars, callVars, dataVars
<1>2. LoadsAreReal'
  <2>1. ASSUME NEW r \in results', LoadFails(r)
        PROVE  /\ kind[r.last - 1] = "EVALSHA" /\ result[r.last - 1] = "error"
               /\ kind[r.last] = "KEYS" /\ (result[r.last] = "error" \/ severed)
    <3>1. CASE r \in results
      BY <2>1, <3>1 DEF DataInv, LoadInv, LoadsAreReal, LoadFails
    <3>2. CASE r.last = calls
      BY <3>2 DEF ScriptRefused
    <3> QED BY <1>1, <3>1, <3>2
  <2> QED BY <1>1, <2>1 DEF LoadsAreReal, LoadFails, Moved, dataVars
<1>3. \A r \in results' : LoadFails(r) => r.last \in 2 .. calls
  <2>1. calls \in 2 .. calls
    BY DEF ScriptRefused
  <2> QED BY <1>1, <2>1 DEF DataInv, LoadInv, LoadFails
<1>4. LoadInv'
  BY <1>1, <1>2, <1>3 DEF LoadInv, LoadFails, Moved
<1>5. TodoInv'
  BY <1>1 DEF TodoInv, SettingUp
<1>6. Asked' => Asked
  BY <1>1 DEF Asked, SettingUp
<1> QED BY <1>1, <1>4, <1>5, <1>6, MovedKeeps

(* What the thread knows of a reply it looks at: it is its own command's.  *)
LEMMA ReplyIs ==
    ASSUME ClientAssumption, NEW once, IInv(once), ThreadInv, DataInv,
           NEW at \in Looking, Replied(at)
    PROVE  /\ calls \in Calls /\ answer[calls] \in {calls, NullReply}
           /\ Reply = "null" <=> answer[calls] = NullReply
           /\ Reply # "null" => Reply = result[calls] /\ result[calls] # "none"
<1>1. thread \in Looking /\ caller = Idle /\ todo = <<>>
  BY DEF Replied
<1>2. calls \in Calls /\ answer[calls] # Pending
  BY <1>1 DEF ThreadInv, LastAnswered, IInv, TypeOK, Calls, ClientAssumption
<1>3. answer[calls] \in {calls, NullReply} /\ calls # NullReply
  BY <1>2 DEF DataInv, ResultsInv, ClientAssumption, Calls
<1>4. result[calls] \in Verdict
  BY <1>2 DEF ThreadInv
<1> QED BY <1>2, <1>3, <1>4 DEF Reply, Verdict, DataInv, ResultsInv

LEMMA AppendData ==
    ASSUME ClientAssumption, IInv(PipeTimeout), IInv(PipeTimeout)', ThreadInv, DataInv,
           AppendNext
    PROVE  DataInv'
<1>1. /\ Enqueue /\ UNCHANGED <<link, wire, replies, worker, reqs, dequeued, severed>>
      /\ UNCHANGED <<answer, ctx, thread, result, selected, script, results>>
      /\ todo # <<>> /\ todo' = Tail(todo)
  BY DEF AppendNext, linkVars, workVars
<1>2. PICK n \in Nat : /\ n = calls /\ n + 1 \in Calls
                       /\ Submitted' = Submitted \cup {n + 1}
                       /\ \A d \in Submitted : d < n + 1
                       /\ \E j \in 1 .. Len(commands') : commands'[j] = n + 1
  BY <1>1, EnqueueSubmits
<1>3. PICK c \in Calls, h \in Kinds, l \in Nat :
             /\ c = n + 1 /\ h = todo[1] /\ l = Len(todo) /\ l > 0
             /\ Len(todo') = l - 1 /\ \A i \in 1 .. l - 1 : todo'[i] = todo[i + 1]
             /\ h = Head(todo)
  BY <1>1, <1>2 DEF ThreadInv
<1>4. /\ kind' = [kind EXCEPT ![c] = h] /\ calls' = c
      /\ \A d \in Calls : kind'[d] = IF d = c THEN h ELSE kind[d]
  BY <1>1, <1>2, <1>3 DEF AppendNext, Enqueue, DataInv, ResultsInv
<1>5. c \in Nat /\ c > n /\ result[c] = "none" /\ answer[c] = Pending /\ Pending # NullReply
  BY <1>2, <1>3 DEF DataInv, ResultsInv, IInv, Answers, ClientAssumption
<1>6. /\ thread \notin SettingUp
      /\ thread = "authorized" => h = "AUTH" /\ l = 1
      /\ thread = "load" => h = "SELECT" /\ l = 1
      /\ thread = "loaded" => h = "SCRIPT" /\ l = 1
      /\ thread = "rows" => h = "EVALSHA" /\ l = 1
      /\ thread = "keys" => h = "KEYS" /\ l = 1
      /\ thread \notin {"authorized", "load", "loaded"} =>
            \A i \in 1 .. l : todo[i] \notin SetUp
  BY <1>1, <1>3 DEF DataInv, TodoInv
<1>7. thread \notin {"authorized", "load", "loaded"} => h \notin SetUp
  BY <1>3, <1>6
<1>8. l = 1 => todo' = <<>>
  BY <1>1, <1>3 DEF ThreadInv
<1>9. TodoInv'
  <2>1. \A i \in 1 .. l - 1 : i + 1 \in 1 .. l
    BY <1>3
  <2>2. thread \notin {"authorized", "load", "loaded"} =>
           \A i \in 1 .. Len(todo') : todo'[i] \notin SetUp
    BY <1>3, <1>6, <2>1
  <2> QED BY <1>1, <1>4, <1>6, <1>8, <2>2 DEF TodoInv
<1>10. ResultsInv'
  BY <1>1, <1>2, <1>3, <1>4, <1>5 DEF DataInv, ResultsInv
<1>11. \A d \in Calls : RefusedAt(d) => d # c /\ RefusedAt(d)'
  BY <1>1, <1>4, <1>5 DEF RefusedAt
<1>12. ASSUME NEW x \in 1 .. c, RefusedBefore(x) PROVE RefusedBefore(x)'
  <2>1. PICK d \in 1 .. x - 1 : RefusedAt(d) /\ \A e \in d + 1 .. x - 1 : kind[e] # "AUTH"
    BY <1>12 DEF RefusedBefore
  <2>2. \A e \in 1 .. x - 1 : e \in Calls /\ e # c
    BY <1>5 DEF Calls, ClientAssumption
  <2>3. \A e \in d + 1 .. x - 1 : kind'[e] # "AUTH"
    BY <1>4, <2>1, <2>2
  <2> QED BY <1>11, <2>1, <2>2, <2>3 DEF RefusedBefore
<1>13. ASSUME h # "AUTH", RefusedBefore(c) PROVE RefusedBefore(c + 1)'
  <2>1. PICK d \in 1 .. c - 1 : RefusedAt(d) /\ \A e \in d + 1 .. c - 1 : kind[e] # "AUTH"
    BY <1>13 DEF RefusedBefore
  <2>2. d \in Calls /\ d \in 1 .. (c + 1) - 1
    BY <1>5 DEF Calls, ClientAssumption
  <2>3. ASSUME NEW e \in d + 1 .. (c + 1) - 1 PROVE kind'[e] # "AUTH"
    <3>1. e \in Calls /\ (e = c \/ e \in d + 1 .. c - 1)
      BY <1>5 DEF Calls, ClientAssumption
    <3> QED BY <1>4, <1>13, <2>1, <3>1
  <2> QED BY <1>11, <2>1, <2>2, <2>3 DEF RefusedBefore
<1>14. ASSUME NEW x \in 1 .. c, Ready(x) PROVE Ready(x)'
  <2>1. \A s \in Submitted : s \in Submitted' /\ s \in Calls /\ s # c
    BY <1>2, <1>3, SubmittedIs, SubmittedOrder
  <2>2. ASSUME SelectSent(x) PROVE SelectSent(x)'
    <3>1. PICK s \in Submitted : /\ s < x /\ kind[s] = "SELECT"
                                 /\ \A e \in s + 1 .. x - 1 : kind[e] # "AUTH"
      BY <2>2 DEF SelectSent
    <3>2. \A e \in s + 1 .. x - 1 : e \in Calls /\ e # c
      BY <1>5, <2>1 DEF Calls, ClientAssumption
    <3> QED BY <1>4, <2>1, <3>1, <3>2 DEF SelectSent
  <2> QED BY <1>1, <1>12, <1>14, <2>2 DEF Ready
<1>15. ASSUME h # "AUTH", Ready(c) PROVE Ready(c + 1)'
  <2>1. \A s \in Submitted : s \in Submitted' /\ s \in Calls /\ s # c
    BY <1>2, <1>3, SubmittedIs, SubmittedOrder
  <2>2. ASSUME SelectSent(c) PROVE SelectSent(c + 1)'
    <3>1. PICK s \in Submitted : /\ s < c /\ kind[s] = "SELECT"
                                 /\ \A e \in s + 1 .. c - 1 : kind[e] # "AUTH"
      BY <2>2 DEF SelectSent
    <3>2. ASSUME NEW e \in s + 1 .. (c + 1) - 1 PROVE kind'[e] # "AUTH"
      <4>1. e \in Calls /\ (e = c \/ e \in s + 1 .. c - 1)
        BY <1>5, <2>1 DEF Calls, ClientAssumption
      <4> QED BY <1>4, <1>15, <3>1, <4>1
    <3>3. s < c + 1 /\ kind'[s] = "SELECT"
      BY <1>4, <1>5, <2>1, <3>1 DEF Calls
    <3> QED BY <2>1, <3>2, <3>3 DEF SelectSent
  <2> QED BY <1>1, <1>13, <1>15, <2>2 DEF Ready
<1>16. ASSUME link PROVE ReadyInv'
  <2>1. Asked => Ready(c)
    BY <1>2, <1>3, <1>16 DEF DataInv, ReadyInv
  <2>2. h \notin SetUp => Asked
    BY <1>1, <1>6, <1>7 DEF Asked, SetUp
  <2>3. c \in 1 .. c
    BY <1>5
  <2>4. ASSUME NEW x \in Submitted', kind'[x] \notin SetUp PROVE Ready(x)'
    <3>1. CASE x = c
      BY <1>4, <1>14, <2>1, <2>2, <2>3, <2>4, <3>1
    <3>2. CASE x # c
      <4>1. x \in Submitted /\ x \in Calls /\ x < c
        BY <1>2, <1>3, <3>2, SubmittedIs, SubmittedOrder
      <4>2. x \in 1 .. c
        BY <1>5, <4>1 DEF Calls
      <4>3. kind[x] \notin SetUp
        BY <1>4, <2>4, <3>2, <4>1
      <4> QED BY <1>14, <1>16, <4>1, <4>2, <4>3 DEF DataInv, ReadyInv
    <3> QED BY <3>1, <3>2
  <2>5. ASSUME Asked' PROVE Ready(c + 1)'
    <3>1. CASE Asked
      <4>1. h # "AUTH"
        BY <1>6, <1>7, <3>1 DEF Asked, SetUp
      <4> QED BY <1>15, <2>1, <3>1, <4>1
    <3>2. CASE ~Asked
      <4>1. h = "SELECT"
        BY <1>1, <1>6, <2>5, <3>2 DEF Asked
      <4>2. c \in Submitted' /\ c < c + 1 /\ kind'[c] = "SELECT"
        BY <1>2, <1>3, <1>4, <1>5, <4>1
      <4>3. \A e : e \notin c + 1 .. (c + 1) - 1
        BY <1>5
      <4> QED BY <4>2, <4>3 DEF Ready, SelectSent
    <3> QED BY <3>1, <3>2
  <2> QED BY <1>4, <2>4, <2>5 DEF ReadyInv
<1>17. ~link => ReadyInv'
  BY <1>1 DEF ReadyInv
<1>18. \A x \in 1 .. n : x \in Calls /\ x # c /\ kind'[x] = kind[x]
  <2>1. \A x \in 1 .. n : x \in Calls /\ x # c
    BY <1>2, <1>5 DEF Calls, ClientAssumption
  <2> QED BY <1>4, <2>1
<1>19. LoadInv'
  <2>1. \A r \in results : LoadFails(r) =>
           r.last \in 2 .. c /\ r.last \in 1 .. n /\ r.last - 1 \in 1 .. n
    BY <1>2, <1>3 DEF DataInv, LoadInv, LoadFails
  <2>2. LoadsAreReal'
    <3>1. \A r \in results : LoadFails(r) =>
             kind'[r.last] = kind[r.last] /\ kind'[r.last - 1] = kind[r.last - 1]
      BY <1>18, <2>1
    <3> QED BY <1>1, <3>1 DEF DataInv, LoadInv, LoadsAreReal, LoadFails
  <2>3. ASSUME thread = "keys", ScriptRefused(n) PROVE ScriptRefused(c - 1)'
    <3>1. c - 1 = n /\ n \in 1 .. n
      BY <1>2, <1>3, <2>3 DEF ScriptRefused
    <3> QED BY <1>1, <1>18, <2>3, <3>1 DEF ScriptRefused
  <2>4. Queued(c)'
    BY <1>2, <1>3 DEF Queued
  <2>5. thread = "keys" => todo' = <<>> /\ (ScriptRefused(n) \/ ctx = "err")
    BY <1>1, <1>2, <1>6, <1>8 DEF DataInv, LoadInv
  <2>6. thread = "rows" => answer[c] # NullReply
    BY <1>5
  <2> QED BY <1>1, <1>4, <2>1, <2>2, <2>3, <2>4, <2>5, <2>6 DEF LoadInv, LoadFails
<1> QED BY <1>9, <1>10, <1>16, <1>17, <1>19 DEF DataInv

(* A new connection has nothing on its way; one that is deleted is gone.   *)
LEMMA ConnectionData ==
    ASSUME ClientAssumption, IInv(PipeTimeout), IInv(PipeTimeout)', DataInv,
           NewClient \/ Joined
    PROVE  DataInv'
<1>1. /\ wire' = <<>> /\ replies' = <<>> /\ thread' \in {"auth", "connect"} /\ todo' = todo
      /\ UNCHANGED <<calls, answer, kind, result, results, severed>>
      /\ thread \in {"connect", "joined"}
  BY DEF NewClient, Joined, callVars, dataVars
<1>2. todo = <<>>
  BY <1>1 DEF DataInv, TodoInv, SettingUp
<1>3. TodoInv'
  BY <1>1, <1>2 DEF TodoInv
<1>4. LoadInv'
  BY <1>1 DEF DataInv, LoadInv, LoadsAreReal
<1>5. /\ commands' = commands \/ commands' = <<>>
      /\ worker' \in {"top", "none"}
      /\ link' => commands' = <<>>
  BY DEF NewClient, Joined, queueVars
<1>6. \A c : ~Sent(c)' /\ ~InBatch(c)' /\ (Queued(c)' => Queued(c) /\ ~link')
  BY <1>1, <1>5 DEF Sent, InBatch, Queued
<1>7. Submitted' \subseteq Submitted /\ (link' => Submitted' = {})
  <2>1. \A c : c \in Submitted' => Queued(c)'
    BY <1>6, SubmittedNext
  <2>2. \A c : Queued(c) => c \in Submitted
    BY SubmittedIs
  <2> QED BY <1>6, <2>1, <2>2
<1>8. ResultsInv'
  BY <1>1, <1>7 DEF DataInv, ResultsInv
<1>9. ReadyInv'
  BY <1>1, <1>7 DEF ReadyInv, Asked, SettingUp
<1> QED BY <1>3, <1>4, <1>8, <1>9 DEF DataInv

LEMMA LoopData ==
    ASSUME ClientAssumption, ThreadAssumption, IInv(PipeTimeout), IInv(PipeTimeout)',
           ThreadInv, DataInv,
           ConnectDb \/ GetQuery \/ DeleteClient \/ Joined \/ CommitFirst
    PROVE  DataInv'
<1> USE DEF SettingUp, Looking
<1>1. ASSUME NewClient \/ Joined PROVE DataInv'
  BY <1>1, ConnectionData
<1>2. ASSUME DeleteClient \/ CommitFirst \/ GetQuery PROVE DataInv'
  <2>1. Moved /\ todo' = todo /\ results' = results
    BY <1>2 DEF DeleteClient, CommitFirst, GetQuery, Moved, vars, queueVars, linkVars, workVars,
           callVars, dataVars
  <2>2. thread' \in {"joined", "commit", "delete"} \cup OpTypes \cup {"none"}
    BY <1>2 DEF DeleteClient, CommitFirst, GetQuery, ThreadInv
  <2>3. /\ thread \in {"delete", "commit", "getquery"}
        /\ thread' \in SettingUp => todo = <<>>
        /\ thread' \in SettingUp \/ thread # "delete"
    <3>1. CASE DeleteClient
      BY <3>1 DEF DeleteClient, DataInv, TodoInv
    <3>2. CASE CommitFirst
      BY <3>2 DEF CommitFirst, OpTypes, ThreadInv
    <3>3. CASE GetQuery
      BY <3>3 DEF GetQuery
    <3> QED BY <1>2, <3>1, <3>2, <3>3
  <2> QED BY <2>1, <2>2, <2>3, GoesOnData DEF OpTypes
<1>3. ASSUME Auth PROVE DataInv'
  BY <1>3, IssueData, KindSequences DEF Auth
<1>4. ASSUME Select \/ LoadScript PROVE DataInv'
  BY <1>4, IssueData, KindSequences DEF Select, LoadScript
<1>5. ASSUME Authorized PROVE DataInv'
  <2>1. Replied("authorized") /\ todo = <<>> /\ thread = "authorized"
    BY <1>5 DEF Authorized, Replied
  <2>2. CASE Reply \in {"null", "status"}
    BY <1>5, <2>1, <2>2, GotoData DEF Authorized
  <2>3. CASE Reply \notin {"null", "status"}
    <3>1. /\ Reply = result[calls] /\ result[calls] # "none" /\ calls \in Calls
          /\ calls \in Nat /\ calls > 0
      BY <2>1, <2>3, ReplyIs DEF Calls
    <3>2. kind[calls] = "AUTH"
      BY <2>1 DEF DataInv, TodoInv
    <3>3. RefusedAt(calls)
      BY <2>3, <3>1, <3>2 DEF DataInv, ResultsInv, RefusedAt
    <3>4. calls \in 1 .. (calls + 1) - 1 /\ \A e : e \notin calls + 1 .. (calls + 1) - 1
      BY <3>1
    <3>5. RefusedBefore(calls + 1)
      BY <3>3, <3>4 DEF RefusedBefore
    <3> QED BY <1>5, <2>1, <2>3, <3>5, GotoData DEF Authorized
  <2> QED BY <2>2, <2>3
<1>6. ASSUME Loaded PROVE DataInv'
  BY <1>6, GotoData DEF Loaded, Replied
<1>7. ASSUME Connected PROVE DataInv'
  <2>1. /\ thread = "connected" /\ thread' \in {"getquery", "commit"} /\ todo' = todo
        /\ Moved /\ results' = results
    BY <1>7 DEF Connected, Goto, Moved, vars, queueVars, linkVars, workVars, callVars, dataVars
  <2> QED BY <2>1, GoesOnData
<1> QED BY <1>1, <1>2, <1>3, <1>4, <1>5, <1>6, <1>7 DEF ConnectDb

(* The commands on the keys                                                *)
LEMMA PlainSequences ==
    ASSUME NEW k \in {"SET", "SADD", "GETID", "EVALSHA", "KEYS", "GET", "GETDESC"},
           NEW l \in {"SET", "SADD", "GETID", "EVALSHA", "KEYS", "GET", "GETDESC"}
    PROVE  /\ \A i \in 1 .. Len(<<k>>) : <<k>>[i] \notin SetUp
           /\ \A i \in 1 .. Len(<<k, l, k>>) : <<k, l, k>>[i] \notin SetUp
           /\ \A i \in 1 .. Len(<<k, l, l, l>>) : <<k, l, l, l>>[i] \notin SetUp
<1>1. k \notin SetUp /\ l \notin SetUp
  BY DEF SetUp
<1>2. \A i \in 1 .. Len(<<k>>) : <<k>>[i] = k
  OBVIOUS
<1>3. \A i \in 1 .. Len(<<k, l, k>>) : <<k, l, k>>[i] \in {k, l}
  OBVIOUS
<1>4. \A i \in 1 .. Len(<<k, l, l, l>>) : <<k, l, l, l>>[i] \in {k, l}
  OBVIOUS
<1> QED BY <1>1, <1>2, <1>3, <1>4

LEMMA OperationsData ==
    ASSUME ClientAssumption, IInv(PipeTimeout), ThreadInv, DataInv, RunThreadPart
    PROVE  DataInv'
<1> USE DEF SettingUp, Looking
<1>1. ASSUME InsertData \/ InsertCookie \/ SelectId \/ SelectData PROVE DataInv'
  <2>1. CASE InsertData
    BY <2>1, IssueData, KindSequences, PlainSequences DEF InsertData
  <2>2. CASE InsertCookie
    BY <2>2, IssueData, KindSequences, PlainSequences DEF InsertCookie
  <2>3. CASE SelectId
    BY <2>3, IssueData, KindSequences, PlainSequences DEF SelectId
  <2>4. CASE SelectData
    BY <2>4, IssueData, KindSequences, PlainSequences DEF SelectData
  <2> QED BY <1>1, <2>1, <2>2, <2>3, <2>4
<1>2. ASSUME NEW at, Replied(at), at \notin {"authorized", "load"} \cup SettingUp, PutResult(TRUE)
      PROVE  DataInv'
  BY <1>2, PutResultData DEF Replied
<1>3. ASSUME NEW at, Replied(at), at \notin {"authorized", "load"} \cup SettingUp,
             Goto("crashed") \/ Goto("terminated")
      PROVE  DataInv'
  BY <1>3, GotoData DEF Replied
<1>a. ASSUME NEW at, Replied(at), at \in {"keys", "keyid", "values"}, NextKey
      PROVE  DataInv'
  <2>1. thread \in {"keys", "keyid", "values"} /\ todo = <<>>
    BY <1>a DEF Replied
  <2>2. CASE Issue(<<"GETID">>, TRUE, "keyid")
    BY <2>1, <2>2, IssueData, KindSequences, PlainSequences
  <2> QED BY <1>2, <1>a, <2>2 DEF NextKey
<1>4. ASSUME Done \/ IdKnown \/ KeyValues PROVE DataInv'
  <2>1. CASE Done
    BY <1>2, <2>1 DEF Done
  <2>2. CASE IdKnown
    BY <1>2, <1>3, <2>2 DEF IdKnown
  <2>3. CASE KeyValues
    BY <1>3, <1>a, <2>3 DEF KeyValues
  <2> QED BY <1>4, <2>1, <2>2, <2>3
<1>5. ASSUME Known PROVE DataInv'
  <2>1. CASE Issue(<<"SADD">>, FALSE, "done")
    BY <1>5, <2>1, IssueData, KindSequences, PlainSequences DEF Known, Replied
  <2>2. CASE Issue(<<"SADD", "SET", "SET", "SET">>, FALSE, "done")
    <3>1. PICK ks : ks = <<"SADD", "SET", "SET", "SET">>
      OBVIOUS
    <3>2. ks \in Seq(Kinds) /\ ks # <<>>
      BY <3>1, KindSequences
    <3>3. \A i \in 1 .. Len(ks) : ks[i] \notin SetUp
      BY <3>1, PlainSequences
    <3>4. Issue(ks, FALSE, "done") /\ thread = "known"
      BY <1>5, <2>2, <3>1 DEF Known, Replied
    <3> QED BY <3>2, <3>3, <3>4, IssueData
  <2> QED BY <1>3, <1>5, <2>1, <2>2 DEF Known
<1>6. ASSUME Rows PROVE DataInv'
  <2>1. Replied("rows") /\ thread = "rows" /\ todo = <<>>
    BY <1>6 DEF Rows, Replied
  <2>2. CASE PutResult(TRUE)
    BY <1>2, <2>1, <2>2
  <2>3. CASE Issue(<<"KEYS">>, TRUE, "keys") /\ Reply \in {"null", "error"}
    <3>1. calls \in Calls /\ kind[calls] = "EVALSHA"
      BY <2>1, ReplyIs DEF DataInv, TodoInv
    <3>2. calls > 0
      BY <3>1 DEF Calls
    <3>3. ScriptRefused(calls) \/ ctx = "err"
      BY <2>1, <2>3, <3>1, <3>2, ReplyIs DEF DataInv, LoadInv, ScriptRefused
    <3> QED BY <2>1, <2>3, <3>3, IssueData, KindSequences, PlainSequences
  <2> QED BY <1>6, <2>2, <2>3 DEF Rows
<1>7. ASSUME Keys PROVE DataInv'
  <2>1. Replied("keys") /\ thread = "keys" /\ todo = <<>>
    BY <1>7 DEF Keys, Replied
  <2>2. CASE NextKey
    BY <1>a, <2>1, <2>2
  <2>3. CASE PutResult(FALSE) /\ Reply # "arrays"
    <3>1. /\ calls \in Calls /\ calls \in Nat /\ answer[calls] # Pending
          /\ kind[calls] = "KEYS"
      BY <2>1, ReplyIs DEF DataInv, TodoInv, Calls, ClientAssumption
    <3>2. ~Queued(calls)
      BY <3>1 DEF Queued, IInv, Answers
    <3>3. ScriptRefused(calls - 1)
      BY <2>1, <3>2 DEF DataInv, LoadInv
    <3>4. Reply = "null" => severed
      BY <2>1, NullAfterLoss
    <3>5. Reply # "null" => result[calls] = "error"
      <4>1. Reply # "null" => Reply = result[calls] /\ result[calls] # "none"
        BY <2>1, ReplyIs
      <4>2. result[calls] \in {"none", "error", "arrays"}
        BY <3>1 DEF DataInv, ResultsInv
      <4> QED BY <2>3, <4>1, <4>2
    <3> QED BY <2>1, <2>3, <3>1, <3>3, <3>4, <3>5, UnlistedData
  <2> QED BY <1>7, <2>2, <2>3 DEF Keys
<1>8. ASSUME KeyId PROVE DataInv'
  <2>1. CASE Issue(<<"GET", "GETDESC", "GET">>, TRUE, "values")
    BY <1>8, <2>1, IssueData, KindSequences, PlainSequences DEF KeyId, Replied
  <2> QED BY <1>3, <1>8, <1>a, <2>1 DEF KeyId
<1> QED BY <1>1, <1>4, <1>5, <1>6, <1>7, <1>8 DEF RunThreadPart

LEMMA DataInvNext ==
    ASSUME ClientAssumption, ThreadAssumption, OneRound, IInv(PipeTimeout), ThreadInv, DataInv,
           ThreadNext
    PROVE  DataInv'
<1>1. IInv(PipeTimeout)'
  BY ThreadKeeps
<1>2. ASSUME Thread PROVE DataInv'
  BY <1>1, <1>2, LoopData, OperationsData, AppendData DEF Thread
<1>3. ASSUME Inner \/ Lost PROVE DataInv'
  <2>1. ClientLeaves
    BY <1>3, InnerLeaves, LossLeaves DEF Inner, Lost
  <2>2. UNCHANGED <<thread, todo, kind, result, selected, results>>
    BY <1>3 DEF Inner, Lost, threadVars, dataVars
  <2>3. severed => severed'
    <3>1. Next
      BY <1>3 DEF Inner, Lost, Commit, Next, Caller
    <3>2. ClientStep(PipeTimeout)
      BY <3>1, NextIsStep DEF IInv
    <3> QED BY <3>2, AnswersStay
  <2>4. TypeOK
    BY DEF IInv
  <2> QED BY <2>1, <2>2, <2>3, <2>4, LeavesKeep
<1>4. ASSUME Serve PROVE DataInv'
  BY <1>4, ServeKeeps
<1> QED BY <1>2, <1>3, <1>4 DEF ThreadNext

LEMMA DataInvInit ==
    ASSUME ClientAssumption, ThreadInit PROVE DataInv
<1>1. Submitted = {}
  <2>1. Init /\ IInv(TRUE)
    BY InitIInv DEF ThreadInit
  <2>2. \A c : ~Sent(c) /\ ~InBatch(c) /\ ~Queued(c)
    BY <2>1 DEF Init, Sent, InBatch, Queued
  <2> QED BY <2>1, <2>2, SubmittedIs
<1>2. TodoInv
  BY DEF ThreadInit, TodoInv, SettingUp
<1>3. ResultsInv
  <2>1. \A c \in Calls : c # Pending
    BY DEF ClientAssumption, Calls
  <2> QED BY <1>1, <2>1 DEF ThreadInit, Init, ResultsInv
<1>4. ReadyInv
  BY DEF ThreadInit, Init, ReadyInv
<1>5. LoadInv
  BY DEF ThreadInit, LoadInv, LoadsAreReal
<1> QED BY <1>2, <1>3, <1>4, <1>5 DEF DataInv

(* Only the server changes a result, in the order of the numbers.          *)
LEMMA ServesSelected ==
    ASSUME ClientAssumption, IInv(PipeTimeout), ThreadInv, DataInv, Serve,
           NEW c \in Calls, result'[c] # result[c]
    PROVE  kind[c] \in SetUp \/ selected \/ Refused(c)
<1>1. ServerExecute /\ IInv(PipeTimeout)'
  BY ClientKeeps DEF Serve, ClientStep
<1>2. link /\ c = Head(wire)
  BY <1>1 DEF Serve, ServerExecute, ThreadInv
<1>3. c \in Submitted /\ \A d \in Submitted : c <= d
  BY <1>1, <1>2, PipeExecutes
<1>4. \A s \in Submitted : ~(s < c)
  <2>1. \A s \in Submitted : s \in Calls
    BY SubmittedIs, SubmittedOrder
  <2> QED BY <1>3, <2>1 DEF Calls
<1>5. kind[c] \notin SetUp => selected \/ RefusedBefore(c)
  BY <1>2, <1>3, <1>4 DEF DataInv, ReadyInv, Ready, SelectSent
<1>6. kind[c] \notin SetUp /\ RefusedBefore(c) => Refused(c)
  <2>1. \A d \in 1 .. c - 1 : \A e \in d + 1 .. c : e = c \/ e \in d + 1 .. c - 1
    BY DEF Calls, ClientAssumption
  <2> QED BY <2>1 DEF RefusedBefore, RefusedAt, Refused, SetUp
<1> QED BY <1>5, <1>6

LEMMA OnlyServed ==
    ASSUME ThreadNext, ~Serve PROVE result' = result
<1> USE DEF dataVars
<1>1. ASSUME NEW ks, NEW wait, NEW to, Issue(ks, wait, to) PROVE result' = result
  BY <1>1 DEF Issue
<1>2. ASSUME NEW to, Goto(to) PROVE result' = result
  BY <1>2 DEF Goto
<1>3. ASSUME NEW listed, PutResult(listed) PROVE result' = result
  BY <1>3 DEF PutResult
<1>4. ASSUME ConnectDb PROVE result' = result
  BY <1>1, <1>2, <1>4 DEF ConnectDb, NewClient, Auth, Authorized, Select, LoadScript, Loaded,
         Connected
<1>5. ASSUME InsertData \/ Done \/ InsertCookie \/ Known \/ SelectId \/ IdKnown
      PROVE  result' = result
  BY <1>1, <1>2, <1>3, <1>5 DEF InsertData, Done, InsertCookie, Known, SelectId, IdKnown
<1>6. ASSUME SelectData \/ Rows \/ Keys \/ KeyId \/ KeyValues
      PROVE  result' = result
  BY <1>1, <1>2, <1>3, <1>6 DEF SelectData, Rows, Keys, KeyId, KeyValues, NextKey
<1>7. ASSUME GetQuery \/ DeleteClient \/ Joined \/ CommitFirst \/ AppendNext \/ Inner \/ Lost
      PROVE  result' = result
  BY <1>7 DEF GetQuery, DeleteClient, Joined, CommitFirst, AppendNext, Inner, Lost
<1> QED BY <1>4, <1>5, <1>6, <1>7 DEF ThreadNext, Thread, RunThreadPart

RunData == IF user = "thread" THEN DataInv ELSE results = {}

LEMMA RunDataInvariant == ASSUME OneRound PROVE MCSpec => []RunData
<1>1. MCInit => RunData
  BY DataInvInit, ClientAssumption DEF MCInit, RunData, ThreadInit
<1>2. ASSUME RunInv, RunThreadInv, RunData, [MCNext]_<<allVars, user>> PROVE RunData'
  <2>1. CASE user = "thread" /\ ThreadNext /\ UNCHANGED user
    <3>1. IInv(PipeTimeout)
      BY <1>2, <2>1, ClientAssumption DEF RunInv, Once, ClientAssumption
    <3> QED BY <1>2, <2>1, <3>1, DataInvNext, ClientAssumption, ThreadAssumption
            DEF RunThreadInv, RunData
  <2>2. CASE user # "thread" /\ UNCHANGED clientVars
    BY <1>2, <2>2 DEF RunData, clientVars
  <2>3. CASE UNCHANGED <<allVars, user>>
    <3>1. Moved /\ UNCHANGED <<user, thread, todo, results, calls>>
      BY <2>3 DEF Moved, allVars, vars, queueVars, linkVars, workVars, callVars, threadVars,
             dataVars
    <3>2. DataInv => DataInv'
      <4>1. (TodoInv => TodoInv') /\ (LoadInv => LoadInv')
        BY <3>1 DEF TodoInv, LoadInv, LoadsAreReal, ScriptRefused, Queued, Moved, dataVars
      <4>2. Asked' <=> Asked
        BY <3>1 DEF Asked
      <4> QED BY <3>1, <4>1, <4>2, MovedKeeps DEF DataInv
    <3> QED BY <1>2, <3>1, <3>2 DEF RunData
  <2> QED BY <1>2, <2>1, <2>2, <2>3 DEF MCNext
<1> QED BY <1>1, <1>2, RunInvariant, RunThreadInvariant, PTL DEF MCSpec

(* Commands on the keys are executed in the configured database, on the    *)
(* first connection and on those made after a loss, unless the server      *)
(* refused that connection the password or SELECT itself, for any number   *)
(* of connections and operations (extension.cpp:131-139).                  *)
THEOREM SelectsFirst == ASSUME OneRound PROVE MCSpec => SelectedFirst
<1> DEFINE Ordered == \A c \in Calls : result'[c] # result[c] =>
                         kind[c] \in SetUp \/ selected \/ Refused(c)
<1>1. RunInv /\ RunThreadInv /\ RunData /\ [MCNext]_<<allVars, user>> => [Ordered]_allVars
  <2> SUFFICES ASSUME RunInv, RunThreadInv, RunData, MCNext PROVE Ordered
    BY DEF allVars, vars, queueVars, linkVars, workVars, callVars, threadVars, dataVars
  <2>1. CASE user = "thread" /\ ThreadNext
    <3>1. IInv(PipeTimeout) /\ ThreadInv /\ DataInv
      BY <2>1, ClientAssumption DEF RunInv, Once, RunThreadInv, RunData, ClientAssumption
    <3> QED BY <2>1, <3>1, ServesSelected, OnlyServed, ClientAssumption
  <2>2. CASE UNCHANGED clientVars
    BY <2>2 DEF clientVars, dataVars
  <2> QED BY <2>1, <2>2 DEF MCNext
<1> QED BY <1>1, RunInvariant, RunThreadInvariant, RunDataInvariant, PTL DEF MCSpec, SelectedFirst

(* A load that ends knows from the server which cookies there are, however *)
(* often connections are lost and whatever else the server refuses; the    *)
(* exception is a refused script whose KEYS is refused as well, or lost    *)
(* (query.cpp:172-213).                                                    *)
THEOREM EndsRealLoads == ASSUME OneRound PROVE MCSpec => []LoadsAreReal
<1>1. RunData => LoadsAreReal
  BY DEF RunData, DataInv, LoadInv, LoadsAreReal
<1> QED BY <1>1, RunDataInvariant, PTL
=============================================================================

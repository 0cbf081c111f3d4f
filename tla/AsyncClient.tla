---------------------------- MODULE AsyncClient ----------------------------
(***************************************************************************)
(* async_redis::client (client.cpp, client.h): one thread appends commands *)
(* and waits for their replies, an io thread takes them from m_commands,   *)
(* sends them and reads the replies.  The connection may be lost at any    *)
(* moment; hiredis tells of it only when it is used (ctx->err).            *)
(*                                                                         *)
(* The io thread is `worker', one step per call that can see what another  *)
(* thread does.  m_commands is a FIFO (BlockingQueue says why); the wait   *)
(* of wait_dequeue_bulk_timed is a step that takes what is there or times  *)
(* out.                                                                    *)
(***************************************************************************)
EXTENDS Naturals, Sequences, SequencesExt, FiniteSets

CONSTANTS
    MaxCalls,       \* bound: commands appended in all, numbered 1 .. MaxCalls
    MaxConnects,    \* bound: times Connect succeeds
    MaxPermits,     \* bound: permits a Commit on its own may add to
    CacheSize,      \* cache_size: 0, or the commands to collect before sending
    PipeTimeout,    \* whether pipe_timeout is not 0
    MaySever,       \* whether the connection may be lost
    Pending, NullReply

ASSUME ClientAssumption ==
    /\ MaxCalls \in Nat /\ MaxConnects \in Nat /\ MaxPermits \in Nat
    /\ CacheSize \in Nat
    /\ PipeTimeout \in BOOLEAN /\ MaySever \in BOOLEAN
    /\ Pending # NullReply
    /\ Pending \notin Nat /\ NullReply \notin Nat

VARIABLES
    commands,       \* m_commands
    pipelineSem,    \* the permits of pipeline_sem
    flush,          \* flush_pipeline
    stopped,        \* stopped
    ctx,            \* "null", "ok", or "err" when ctx->err is set
    link,           \* whether the server still hears this connection
    wire,           \* commands the server has received and not executed
    replies,        \* replies on their way back: the commands they answer
    worker,         \* the io thread: what it does next
    reqs,           \* its vector reqs; 0 is a default command_request
    size,           \* queue_size
    dequeued,       \* dequeued
    next,           \* i of the loop that reads replies
    caller,         \* the thread that uses the client: [pc, want]
    calls,          \* commands appended so far
    connects,       \* times Connect succeeded
    executed,       \* history: commands executed, in order
    answer,         \* history: what the callback of each command was given
    severed         \* history: a connection was lost

queueVars == <<commands, pipelineSem, flush>>
linkVars == <<link, wire, replies, executed, severed>>
workVars == <<worker, reqs, size, dequeued, next>>
callVars == <<caller, calls, connects>>
vars == <<queueVars, linkVars, workVars, callVars, stopped, ctx, answer>>

Calls == 1 .. MaxCalls
Idle == [pc |-> "idle", want |-> 0]

-----------------------------------------------------------------------------
(* The caller.                                                             *)

IsConnected == ctx = "ok" /\ ~stopped

(* enqueue of a formatted command and its callback                         *)
Enqueue ==
    /\ calls < MaxCalls
    /\ calls' = calls + 1
    /\ commands' = Append(commands, calls + 1)

(* Append: for a command nobody waits for, to be committed later           *)
AppendOnly ==
    /\ caller = Idle
    /\ Enqueue
    /\ UNCHANGED <<pipelineSem, flush, linkVars, workVars, caller, connects,
                   stopped, ctx, answer>>

(* Command(cmd, true), up to its Commit                                    *)
Command ==
    /\ caller = Idle
    /\ Enqueue
    /\ caller' = [pc |-> "flush", want |-> calls + 1]
    /\ UNCHANGED <<pipelineSem, flush, linkVars, workVars, connects, stopped,
                   ctx, answer>>

(* Commit, of Command or on its own: first the flag ...                    *)
CommitFlag ==
    /\ caller.pc = "flush" \/ (caller = Idle /\ pipelineSem < MaxPermits)
    /\ flush' = TRUE
    /\ caller' = [caller EXCEPT !.pc = "signal"]
    /\ UNCHANGED <<commands, pipelineSem, linkVars, workVars, calls, connects,
                   stopped, ctx, answer>>

(* ... then the permit, if the client still looks connected.  The caller   *)
(* of Command goes on to get() of its future.                              *)
BugCommitSignal ==
    /\ caller.pc = "signal"
    /\ pipelineSem' = IF IsConnected /\ CacheSize = 0 /\ worker = "wait"
                      THEN pipelineSem + 1 ELSE pipelineSem
    /\ caller' = IF caller.want = 0 THEN Idle ELSE [caller EXCEPT !.pc = "get"]
    /\ UNCHANGED <<commands, flush, linkVars, workVars, calls, connects,
                   stopped, ctx, answer>>
CommitSignal ==
    /\ caller.pc = "signal"
    /\ pipelineSem' = IF IsConnected /\ CacheSize = 0 THEN pipelineSem + 1
                                                      ELSE pipelineSem
    /\ caller' = IF caller.want = 0 THEN Idle ELSE [caller EXCEPT !.pc = "get"]
    /\ UNCHANGED <<commands, flush, linkVars, workVars, calls, connects,
                   stopped, ctx, answer>>

GetReturns ==
    /\ caller.pc = "get"
    /\ answer[caller.want] # Pending
    /\ caller' = Idle
    /\ UNCHANGED <<queueVars, linkVars, workVars, calls, connects, stopped, ctx,
                   answer>>

(* Connect of a client that has no io thread                               *)
Connect ==
    /\ caller = Idle
    /\ worker = "none" /\ ctx = "null"
    /\ connects < MaxConnects
    /\ ctx' = "ok" /\ link' = TRUE
    /\ wire' = <<>> /\ replies' = <<>>
    /\ stopped' = FALSE
    /\ worker' = "top"
    /\ connects' = connects + 1
    /\ UNCHANGED <<queueVars, executed, severed, reqs, size, dequeued, next,
                   caller, calls, answer>>

(* Disconnect: stop the io thread, join it, free the context               *)
DisconnectStop ==
    /\ caller = Idle
    /\ ctx # "null"
    /\ stopped' = TRUE
    /\ caller' = [caller EXCEPT !.pc = "join"]
    /\ UNCHANGED <<queueVars, linkVars, workVars, calls, connects, ctx, answer>>

DisconnectJoin ==
    /\ caller.pc = "join"
    /\ worker = "exited"
    /\ worker' = "none"
    /\ ctx' = "null"
    /\ link' = FALSE
    /\ wire' = <<>> /\ replies' = <<>>
    /\ caller' = Idle
    /\ UNCHANGED <<queueVars, executed, severed, reqs, size, dequeued, next,
                   calls, connects, stopped, answer>>

-----------------------------------------------------------------------------
(* The io thread.                                                          *)

(* while (!stopped) { if (!ctx || ctx->err) ...                            *)
Top ==
    /\ worker = "top"
    /\ worker' = IF stopped \/ ctx # "ok" THEN "exited"
                 ELSE IF CacheSize = 0 THEN "wait" ELSE "send"
    /\ stopped' = (stopped \/ ctx # "ok")
    /\ UNCHANGED <<queueVars, linkVars, reqs, size, dequeued, next, callVars,
                   ctx, answer>>

(* pipeline_sem.wait(100 * 1000): a permit, or back to the top             *)
WaitPermit ==
    /\ worker = "wait"
    /\ IF pipelineSem > 0
       THEN pipelineSem' = pipelineSem - 1 /\ worker' = "send"
       ELSE worker' = "top" /\ UNCHANGED pipelineSem
    /\ UNCHANGED <<commands, flush, linkVars, reqs, size, dequeued, next,
                   callVars, stopped, ctx, answer>>

(* send(): nothing there, or reqs resized for what there is                *)
Send ==
    /\ worker = "send"
    /\ IF commands = <<>>
       THEN worker' = "top" /\ UNCHANGED <<reqs, size, dequeued>>
       ELSE LET n == IF CacheSize < Len(commands) THEN Len(commands) ELSE CacheSize
            IN  /\ size' = n
                /\ reqs' = [i \in 1 .. n |-> 0]
                /\ dequeued' = 0
                /\ worker' = "take"
    /\ UNCHANGED <<queueVars, linkVars, next, callVars, stopped, ctx, answer>>

(* wait_dequeue_bulk_timed(reqs.begin(), reqs.size() - dequeued, ...)      *)
BugTake ==
    /\ worker = "take"
    /\ LET n == IF Len(commands) < size - dequeued THEN Len(commands)
                                                   ELSE size - dequeued
           k == Len(commands) - n
       IN  /\ reqs' = [i \in 1 .. size |-> IF i <= n THEN commands[k + i] ELSE reqs[i]]
           /\ commands' = SubSeq(commands, 1, k)
           /\ dequeued' = dequeued + n
    /\ worker' = IF PipeTimeout THEN "flush" ELSE "more"
    /\ UNCHANGED <<pipelineSem, flush, linkVars, size, next, callVars, stopped,
                   ctx, answer>>
Take ==
    /\ worker = "take"
    /\ LET n == IF Len(commands) < size - dequeued THEN Len(commands)
                                                   ELSE size - dequeued
       IN  /\ reqs' = [i \in 1 .. size |-> IF i <= n THEN commands[i] ELSE reqs[i]]
           /\ commands' = SubSeq(commands, n + 1, Len(commands))
           /\ dequeued' = dequeued + n
    /\ worker' = IF PipeTimeout THEN "flush" ELSE "more"
    /\ UNCHANGED <<pipelineSem, flush, linkVars, size, next, callVars, stopped,
                   ctx, answer>>

(* while (!stopped && dequeued < queue_size && !flush_pipeline)            *)
More ==
    /\ worker = "more"
    /\ worker' = IF ~stopped /\ dequeued < size /\ ~flush THEN "take" ELSE "flush"
    /\ UNCHANGED <<queueVars, linkVars, reqs, size, dequeued, next, callVars,
                   stopped, ctx, answer>>

(* if (!dequeued) return; flush_pipeline = false;                          *)
ClearFlush ==
    /\ worker = "flush"
    /\ IF dequeued = 0
       THEN worker' = "top" /\ UNCHANGED flush
       ELSE worker' = "append" /\ flush' = FALSE
    /\ UNCHANGED <<commands, pipelineSem, linkVars, reqs, size, dequeued, next,
                   callVars, stopped, ctx, answer>>

(* The commands dequeued are appended to hiredis' buffer, which the first  *)
(* redisGetReply writes out; an empty command adds nothing to it.          *)
Batch ==
    LET batch == SubSeq(reqs, 1, dequeued)
    IN  IF 0 \in ToSet(batch) THEN Remove(batch, 0) ELSE batch

AppendBatch ==
    /\ worker = "append"
    /\ wire' = IF link THEN wire \o Batch ELSE wire
    /\ next' = 1
    /\ worker' = "reply"
    /\ UNCHANGED <<queueVars, link, replies, executed, severed, reqs, size,
                   dequeued, callVars, stopped, ctx, answer>>

(* The callback of the i-th request, if it has one                         *)
Callback(result) ==
    /\ answer' = IF reqs[next] = 0 THEN answer
                 ELSE [answer EXCEPT ![reqs[next]] = result]
    /\ next' = next + 1
    /\ worker' = IF next = dequeued THEN "top" ELSE "reply"
    /\ UNCHANGED <<queueVars, reqs, size, dequeued, callVars, stopped>>

(* redisGetReply: REDIS_OK with the next reply of the connection ...       *)
GetReply ==
    /\ worker = "reply"
    /\ ctx = "ok"
    /\ replies # <<>>
    /\ replies' = Tail(replies)
    /\ Callback(Head(replies))
    /\ UNCHANGED <<ctx, link, wire, executed, severed>>

(* ... or an error, which stays: REDIS_ERR for the rest of the batch too   *)
BugReplyError ==
    /\ worker = "reply"
    /\ ctx = "err" \/ replies = <<>>
    /\ ctx' = "err"
    /\ Callback(NullReply)
    /\ UNCHANGED linkVars
BugReplyErrorEnds ==
    /\ worker = "reply"
    /\ ctx = "err" \/ (~link /\ replies = <<>>)
    /\ ctx' = "err"
    /\ worker' = "top"
    /\ UNCHANGED <<queueVars, linkVars, reqs, size, dequeued, next, callVars,
                   stopped, answer>>
ReplyError ==
    /\ worker = "reply"
    /\ ctx = "err" \/ (~link /\ replies = <<>>)
    /\ ctx' = "err"
    /\ Callback(NullReply)
    /\ UNCHANGED linkVars

-----------------------------------------------------------------------------
(* The server and the network.                                             *)

ServerExecute ==
    /\ link /\ wire # <<>>
    /\ executed' = Append(executed, Head(wire))
    /\ replies' = Append(replies, Head(wire))
    /\ wire' = Tail(wire)
    /\ UNCHANGED <<queueVars, workVars, callVars, stopped, ctx, answer, link,
                   severed>>

(* The connection is lost, with what is on the wire and the replies that   *)
(* have not arrived                                                        *)
Sever ==
    /\ MaySever /\ link
    /\ link' = FALSE /\ severed' = TRUE
    /\ wire' = <<>>
    /\ \E k \in 0 .. Len(replies) : replies' = SubSeq(replies, 1, k)
    /\ UNCHANGED <<queueVars, workVars, callVars, stopped, ctx, answer, executed>>

-----------------------------------------------------------------------------
Init ==
    /\ commands = <<>> /\ pipelineSem = 0
    /\ flush \in BOOLEAN            \* flush_pipeline has no initializer
    /\ stopped = TRUE /\ ctx = "null"
    /\ link = FALSE /\ wire = <<>> /\ replies = <<>>
    /\ worker = "none" /\ reqs = <<>> /\ size = 0 /\ dequeued = 0 /\ next = 1
    /\ caller = Idle /\ calls = 0 /\ connects = 0
    /\ executed = <<>> /\ answer = [c \in Calls |-> Pending] /\ severed = FALSE

Caller ==
    \/ AppendOnly \/ Command \/ CommitFlag \/ CommitSignal \/ GetReturns
    \/ Connect \/ DisconnectStop \/ DisconnectJoin

Worker ==
    \/ Top \/ WaitPermit \/ Send \/ Take \/ More \/ ClearFlush \/ AppendBatch
    \/ GetReply \/ ReplyError

Next == Caller \/ Worker \/ ServerExecute \/ Sever

(* The io thread and the server go on; a call that has begun ends.         *)
Fairness ==
    /\ WF_vars(Worker)
    /\ WF_vars(ServerExecute)
    /\ WF_vars(CommitFlag /\ caller.pc = "flush")
    /\ WF_vars(CommitSignal)
    /\ WF_vars(GetReturns)

Spec == Init /\ [][Next]_vars /\ Fairness

-----------------------------------------------------------------------------
(* Every variable has its type and the io thread's counters stay in reqs.  *)
TypeOK ==
    /\ commands \in Seq(Calls) /\ wire \in Seq(Calls) /\ replies \in Seq(Calls)
    /\ executed \in Seq(Calls)
    /\ pipelineSem \in Nat /\ size \in Nat
    /\ {flush, stopped, link, severed} \subseteq BOOLEAN
    /\ ctx \in {"null", "ok", "err"}
    /\ worker \in {"none", "top", "wait", "send", "take", "more", "flush",
                   "append", "reply", "exited"}
    /\ reqs \in Seq(Calls \cup {0})
    /\ worker \in {"take", "more", "flush", "append", "reply"} =>
          Len(reqs) = size /\ dequeued <= size
    /\ worker = "reply" => next \in 1 .. dequeued
    /\ caller \in [pc : {"idle", "flush", "signal", "get", "join"},
                   want : Calls \cup {0}]
    /\ calls \in 0 .. MaxCalls /\ connects \in 0 .. MaxConnects
    /\ answer \in [Calls -> Calls \cup {Pending, NullReply}]

(* The commands the io thread has taken and not answered                   *)
InHand ==
    {reqs[i] : i \in IF worker \in {"take", "more", "flush", "append"}
                     THEN 1 .. dequeued
                     ELSE IF worker = "reply" THEN next .. dequeued ELSE {}}

(* No command disappears: whatever was appended is in m_commands, in the   *)
(* io thread's hands or answered, through partial batches, errors and      *)
(* reconnections (client.cpp:77-121).                                      *)
NothingDropped ==
    \A c \in 1 .. calls :
        \/ answer[c] # Pending
        \/ c \in ToSet(commands)
        \/ c \in InHand

(* get() of a committed command returns unless the connection is lost: no  *)
(* permit or flush of Commit is missed (client.cpp:126, 162-169).          *)
CommandReturns ==
    (caller.pc = "get" /\ ctx = "ok") ~> (caller.pc = "idle" \/ ~link)

(* The commands the io thread has taken and not sent                       *)
Taken == IF worker \in {"take", "more", "flush", "append"} THEN ToSet(Batch) ELSE {}

(* The client is an ordered pipe: commands are executed in the order of    *)
(* Append, at most once, a callback gets the reply to its own command, and *)
(* nothing fails before a connection is lost.                              *)
Pipe == INSTANCE CommandPipe
            WITH submitted <- ToSet(wire) \cup Taken \cup ToSet(commands),
                 lost <- severed
=============================================================================

---------------------------- MODULE MCQueryThread ----------------------------
(* QueryThread and the client under it, for TLC.  `user' says who uses the *)
(* client: a query thread, or any caller; and in the latter case with the  *)
(* default arguments the extension passes or with a cache of two commands  *)
(* and a pipe timeout.                                                     *)
EXTENDS QueryThread

CONSTANT CallerCalls        \* bound: commands any caller appends

VARIABLE user

Cached == INSTANCE AsyncClient WITH CacheSize <- 2, PipeTimeout <- TRUE

clientVars == <<threadVars, dataVars, results, user>>

MCInit ==
    /\ ThreadInit
    /\ user \in {"thread", "caller", "cached"}

MCNext ==
    \/ user = "thread" /\ ThreadNext /\ UNCHANGED user
    \/ user = "caller" /\ Next /\ calls' <= CallerCalls /\ UNCHANGED clientVars
    \/ /\ user = "cached" /\ Cached!Next
       /\ calls' <= CallerCalls /\ connects' <= 1
       /\ UNCHANGED clientVars

(* QueryThread's and AsyncClient's fairness: `Of' keeps what runs apart.   *)
Of(u, Action) == user = u /\ Action /\ UNCHANGED clientVars
MCFairness ==
    /\ WF_allVars(user = "thread" /\ Thread)
    /\ WF_allVars(Of("thread", Commit \/ GetReturns))
    /\ WF_allVars(Of("thread", Worker))
    /\ WF_allVars(user = "thread" /\ Serve)
    /\ WF_vars(Of("caller", Worker)) /\ WF_vars(Of("cached", Cached!Worker))
    /\ WF_vars(Of("caller", ServerExecute)) /\ WF_vars(Of("cached", Cached!ServerExecute))
    /\ WF_vars(Of("caller", Commit)) /\ WF_vars(Of("cached", CommitFlag /\ caller.pc = "flush"))
    /\ WF_vars(Of("cached", Cached!CommitSignal))
    /\ WF_vars(Of("caller", GetReturns)) /\ WF_vars(Of("cached", Cached!GetReturns))

MCSpec == MCInit /\ [][MCNext]_<<allVars, user>> /\ MCFairness

(* While the client is not deleted, every command is queued, in the io     *)
(* thread's hands or answered, and the client is an ordered pipe.          *)
NoCommandDropped == user # "thread" => NothingDropped
ClientIsPipe ==
    /\ Pipe!Init
    /\ [][user # "thread" => [Pipe!Next]_(Pipe!vars)]_<<allVars, user>>
=============================================================================

----------------------------- MODULE QueryThread -----------------------------
(***************************************************************************)
(* One query thread and its client: connectDb, the loop around GetQuery    *)
(* (extension.cpp:116-181) and the commands of each operation              *)
(* (query.cpp:137-292), over AsyncClient, with connections that are lost   *)
(* and made again.  Operations are told apart by their type only; their    *)
(* data is the business of QueryPipeline, which assumes a connection that  *)
(* stays.                                                                  *)
(***************************************************************************)
EXTENDS AsyncClient

CONSTANTS
    MaxOps,             \* bound: operations the thread takes
    MayRefuse,          \* the kinds of commands the server may answer with an
                        \* error: a wrong password and, after it, anything
                        \* (NOAUTH), a database out of range, a renamed or
                        \* forbidden command, a server that is busy or loading
    ScriptSurvives      \* whether a lost connection leaves the script loaded

ASSUME ThreadAssumption ==
    /\ MaxOps \in Nat
    /\ MayRefuse \subseteq {"AUTH", "SELECT", "SCRIPT", "EVALSHA", "KEYS", "GETID", "GETDESC"}
    /\ ScriptSurvives \in BOOLEAN

VARIABLES
    thread,         \* what the thread does next; "crashed": it dereferenced a
                    \* null reply, "terminated": an exception left it
    op,             \* the operation it has taken
    todo,           \* commands still to append before the next Commit
    await,          \* whether it then waits for the last one's reply
    ops,            \* operations taken
    kind,           \* what each command is
    result,         \* what the server said to each command
    selected,       \* whether SELECT was executed on this connection
    script,         \* whether the server knows the script
    results         \* history: the operations finished, [op, listed, last]

threadVars == <<thread, op, todo, await, ops>>
dataVars == <<kind, result, selected, script>>
allVars == <<vars, threadVars, dataVars, results>>

OpTypes == {"InsertCookie", "SelectData", "InsertData", "SelectId"}
SetUp == {"AUTH", "SELECT", "SCRIPT"}

-----------------------------------------------------------------------------
(* The thread issues commands and, if `wait', takes the last reply.        *)
Issue(commandKinds, wait, to) ==
    /\ caller = Idle /\ todo = <<>>
    /\ todo' = commandKinds /\ await' = wait /\ thread' = to
    /\ UNCHANGED <<vars, op, ops, dataVars, results>>

(* client::Append of the next command; after the last one, Commit          *)
AppendNext ==
    /\ todo # <<>> /\ caller = Idle
    /\ Enqueue
    /\ kind' = [kind EXCEPT ![calls + 1] = Head(todo)]
    /\ todo' = Tail(todo)
    /\ caller' = IF Len(todo) > 1 THEN Idle
                 ELSE [pc |-> "flush", want |-> IF await THEN calls + 1 ELSE 0]
    /\ UNCHANGED <<pipelineSem, flush, linkVars, workVars, connects, stopped,
                   ctx, answer, thread, op, await, ops, result, selected, script,
                   results>>

Commit == (CommitFlag /\ caller.pc = "flush") \/ CommitSignal

(* The reply of the last command: null, or the type the server gave it     *)
Reply == IF answer[calls] = NullReply THEN "null" ELSE result[answer[calls]]

(* The thread looks at it once get() has returned.                         *)
Replied(at) == thread = at /\ caller = Idle /\ todo = <<>>

Goto(to) ==
    /\ thread' = to
    /\ UNCHANGED <<vars, op, todo, await, ops, dataVars, results>>

-----------------------------------------------------------------------------
(* connectDb                                                               *)

(* new client(), Connect: until one succeeds                               *)
NewClient ==
    /\ thread = "connect"
    /\ connects < MaxConnects /\ calls + 3 <= MaxCalls
    /\ ctx' = "ok" /\ link' = TRUE /\ stopped' = FALSE /\ worker' = "top"
    /\ commands' = <<>> /\ pipelineSem' = 0 /\ flush' \in BOOLEAN
    /\ wire' = <<>> /\ replies' = <<>>
    /\ connects' = connects + 1
    /\ selected' = FALSE
    /\ thread' = "auth"
    /\ UNCHANGED <<executed, severed, reqs, size, dequeued, next, caller, calls,
                   answer, op, todo, await, ops, kind, result, script, results>>

Auth == thread = "auth" /\ Issue(<<"AUTH">>, TRUE, "authorized")

(* if (!reply || !reply->IsStatus()) fprintf(..., reply->Status()): a null *)
(* reply is dereferenced, any other leaves connectDb                       *)
BugAuthorized ==
    /\ Replied("authorized")
    /\ Goto(CASE Reply = "null" -> "crashed"
              [] Reply = "status" -> IF connects = 1 THEN "select" ELSE "load"
              [] OTHER -> "connected")
Authorized ==
    /\ Replied("authorized")
    /\ Goto(CASE Reply = "null" -> "crashed"
              [] Reply = "status" -> "select"
              [] OTHER -> "connected")

Select == thread = "select" /\ Issue(<<"SELECT">>, FALSE, "load")
LoadScript ==
    thread = "load" /\ Issue(<<"SCRIPT">>, TRUE, "loaded")

(* Whatever the reply was, connectDb returns.                              *)
Loaded == Replied("loaded") /\ Goto("connected")

Connected == thread = "connected" /\ Goto(IF op = "none" THEN "getquery" ELSE "commit")

-----------------------------------------------------------------------------
(* The loop                                                                *)

GetQuery ==
    /\ thread = "getquery" /\ caller = Idle /\ todo = <<>>
    /\ ops < MaxOps
    /\ \E o \in OpTypes : op' = o
    /\ ops' = ops + 1
    /\ thread' = IF IsConnected THEN "commit" ELSE "delete"
    /\ UNCHANGED <<vars, todo, await, dataVars, results>>

(* delete db: ~client stops its io thread and joins it                     *)
DeleteClient ==
    /\ thread = "delete"
    /\ stopped' = TRUE
    /\ thread' = "joined"
    /\ UNCHANGED <<queueVars, linkVars, workVars, callVars, ctx, answer, op, todo,
                   await, ops, dataVars, results>>

Joined ==
    /\ thread = "joined"
    /\ worker = "exited"
    /\ worker' = "none" /\ ctx' = "null" /\ link' = FALSE
    /\ wire' = <<>> /\ replies' = <<>>
    /\ thread' = "connect"
    /\ UNCHANGED <<queueVars, executed, severed, reqs, size, dequeued, next,
                   callVars, stopped, answer, op, todo, await, ops, dataVars,
                   results>>

(* db->Commit(); the bound on MaxCalls leaves room for the operation       *)
CommitFirst ==
    /\ thread = "commit" /\ caller = Idle
    /\ calls + 6 <= MaxCalls
    /\ flush' = TRUE
    /\ caller' = [Idle EXCEPT !.pc = "signal"]
    /\ thread' = op
    /\ UNCHANGED <<commands, pipelineSem, linkVars, workVars, calls, connects,
                   stopped, ctx, answer, op, todo, await, ops, dataVars, results>>

(* PutResult.  Remembered are the last command and, of a load, whether the *)
(* server said which cookies there are.                                    *)
PutResult(listed) ==
    /\ results' = results \cup {[op |-> op, listed |-> listed, last |-> calls]}
    /\ thread' = "getquery"
    /\ op' = "none"
    /\ UNCHANGED <<vars, todo, await, ops, dataVars>>

-----------------------------------------------------------------------------
(* The operations                                                          *)

InsertData == thread = "InsertData" /\ Issue(<<"SET">>, FALSE, "done")

Done == Replied("done") /\ PutResult(TRUE)

(* GET of the id: IsString of the reply, null or not.  Whatever is not a   *)
(* string, an error included, is taken for a new cookie.                   *)
InsertCookie == thread = "InsertCookie" /\ Issue(<<"GETID">>, TRUE, "known")
Known ==
    /\ Replied("known")
    /\ CASE Reply = "null" -> Goto("crashed")
         [] Reply = "string" -> Issue(<<"SADD">>, FALSE, "done")
         [] OTHER -> Issue(<<"SADD", "SET", "SET", "SET">>, FALSE, "done")

(* GetString of what is not a string throws.                               *)
SelectId == thread = "SelectId" /\ Issue(<<"GETID">>, TRUE, "id")
IdKnown ==
    /\ Replied("id")
    /\ CASE Reply = "null" -> Goto("crashed")
         [] Reply = "string" -> PutResult(TRUE)
         [] OTHER -> Goto("terminated")

(* The script; if its reply is null or an error, KEYS                      *)
SelectData == thread = "SelectData" /\ Issue(<<"EVALSHA">>, TRUE, "rows")
BugRows ==                      \* a null reply is taken for no rows
    /\ Replied("rows")
    /\ IF Reply = "error" THEN Issue(<<"KEYS">>, TRUE, "keys")
                          ELSE PutResult(Reply = "arrays")
Rows ==
    /\ Replied("rows")
    /\ IF Reply \in {"null", "error"} THEN Issue(<<"KEYS">>, TRUE, "keys")
                                      ELSE PutResult(TRUE)

(* The next of the keys, if there is one: a GET of its id, which is passed *)
(* over if it is no string, and GETs of value, description and access      *)
(* level.  The bound on MaxCalls leaves room for them.                     *)
NextKey ==
    \/ PutResult(TRUE)
    \/ calls + 4 <= MaxCalls /\ Issue(<<"GETID">>, TRUE, "keyid")

(* Null or not an array: the load ends                                     *)
Keys ==
    /\ Replied("keys")
    /\ IF Reply = "arrays" THEN NextKey ELSE PutResult(FALSE)
KeyId ==
    /\ Replied("keyid")
    /\ CASE Reply = "null" -> Goto("crashed")
         [] Reply = "string" -> Issue(<<"GET", "GETDESC", "GET">>, TRUE, "values")
         [] OTHER -> NextKey

(* GetString of a description that is no string throws out of the thread;  *)
(* a value or an access level that is none does not.                       *)
KeyValues ==
    /\ Replied("values")
    /\ CASE \E i \in 0 .. 2 : answer[calls - i] = NullReply -> Goto("crashed")
         [] result[answer[calls - 1]] = "string" -> NextKey
         [] OTHER -> Goto("terminated")

-----------------------------------------------------------------------------
(* The server: AUTH, SELECT and SCRIPT change it, unless it refuses them.  *)
(* The rest is answered with one of the types such a command is answered   *)
(* with, or with an error; what the thread does not tell apart is          *)
(* "status".                                                               *)
Verdicts(k) ==
    {v \in {"error"} : k \in MayRefuse} \cup
    CASE k = "SCRIPT" -> {"string"}
      [] k = "EVALSHA" -> {IF script THEN "arrays" ELSE "error"}
      [] k = "KEYS" -> {"arrays"}
      [] k \in {"GETID", "GETDESC"} -> {"string", "nil"}
      [] OTHER -> {"status"}

Serve ==
    /\ ServerExecute
    /\ LET c == Head(wire)
       IN  \E v \in Verdicts(kind[c]) :
              /\ result' = [result EXCEPT ![c] = v]
              /\ selected' = (selected \/ (kind[c] = "SELECT" /\ v # "error"))
              /\ script' = (script \/ (kind[c] = "SCRIPT" /\ v # "error"))
    /\ UNCHANGED <<threadVars, kind, results>>

Lost ==
    /\ Sever
    /\ script' \in IF ScriptSurvives THEN {script} ELSE {script, FALSE}
    /\ UNCHANGED <<threadVars, kind, result, selected, results>>

ThreadInit ==
    /\ Init
    /\ thread = "connect" /\ op = "none" /\ todo = <<>> /\ await = FALSE
    /\ ops = 0
    /\ kind = [c \in Calls |-> "none"] /\ result = [c \in Calls |-> "none"]
    /\ selected = FALSE /\ script = FALSE
    /\ results = {}

ConnectDb ==
    NewClient \/ Auth \/ Authorized \/ Select \/ LoadScript \/ Loaded \/ Connected

RunThreadPart ==
    \/ InsertData \/ Done \/ InsertCookie \/ Known \/ SelectId \/ IdKnown
    \/ SelectData \/ Rows \/ Keys \/ KeyId \/ KeyValues

Inner == (Commit \/ GetReturns \/ Worker) /\ UNCHANGED <<threadVars, dataVars, results>>

Thread ==
    \/ ConnectDb \/ GetQuery \/ DeleteClient \/ Joined \/ CommitFirst
    \/ RunThreadPart \/ AppendNext

ThreadNext == Thread \/ Inner \/ Serve \/ Lost

(* The threads run and the server answers.                                 *)
ThreadFairness ==
    /\ WF_allVars(Thread)
    /\ WF_allVars((Commit \/ GetReturns) /\ UNCHANGED <<threadVars, dataVars, results>>)
    /\ WF_allVars(Worker /\ UNCHANGED <<threadVars, dataVars, results>>)
    /\ WF_allVars(Serve)

ThreadSpec == ThreadInit /\ [][ThreadNext]_allVars /\ ThreadFairness

-----------------------------------------------------------------------------
(* As long as no connection was lost, no null reply is dereferenced:       *)
(* neither connectDb nor an operation that runs right after it meets one   *)
(* (extension.cpp:132-134, query.cpp:148, 219, 241, 280).  Exceptions are  *)
(* another matter: a server that refuses a GET, or has no value for it,    *)
(* brings them about with every connection up.                             *)
CrashesOnlyAfterLoss == thread = "crashed" => severed

(* The connection that command c was sent on refused the password or the   *)
(* database.                                                               *)
Refused(c) ==
    \E d \in 1 .. c - 1 :
        /\ kind[d] \in {"AUTH", "SELECT"} /\ result[d] = "error"
        /\ \A e \in d + 1 .. c : kind[e] # "AUTH"

(* Commands on the keys are executed in the configured database, on the    *)
(* first connection and on those made after a loss, unless that connection *)
(* refused the password, after which connectDb selects no database, or     *)
(* SELECT itself, whose reply nobody reads (extension.cpp:131-139).        *)
SelectedFirst ==
    [][\A c \in Calls : result'[c] # result[c] =>
          kind[c] \in SetUp \/ selected \/ Refused(c)]_allVars

(* A load that ends knows from the server which cookies there are: when    *)
(* the connection fails under the script, the load does not end at all,    *)
(* and the player is not taken for loaded (query.cpp:172-213).  The        *)
(* exception is a server that refused the script and then KEYS too, or was *)
(* lost before it answered KEYS: such a player passes for one without      *)
(* cookies.                                                                *)
LoadsAreReal ==
    \A r \in results : r.op = "SelectData" /\ ~r.listed =>
        /\ kind[r.last - 1] = "EVALSHA" /\ result[r.last - 1] = "error"
        /\ kind[r.last] = "KEYS" /\ (result[r.last] = "error" \/ severed)

=============================================================================

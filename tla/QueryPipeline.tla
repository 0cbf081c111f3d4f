---------------------------- MODULE QueryPipeline ----------------------------
(***************************************************************************)
(* What CookieManager leaves abstract: the query queue, the query threads, *)
(* their connections, Redis and the result queue.                          *)
(*                                                                         *)
(* The game thread puts operations into one queue; each query thread takes *)
(* one at a time and runs it (TQueryOp::BindParamsAndRun), sending Redis   *)
(* commands over a connection of its own.  It waits for the replies of     *)
(* Command(...).get(); what it only Appends is on its way when the thread  *)
(* puts the operation into the result queue, and RunFrame completes one    *)
(* result per frame.  Redis executes the commands of a connection in order *)
(* and those of different connections in any order.  The connections are   *)
(* up and stay up.                                                         *)
(***************************************************************************)
EXTENDS CookieManager, SequencesExt

CONSTANTS
    Workers,         \* the query threads (RedisQueryThread)
    Hashes,          \* possible hashes: name -> std::hash of it, 31 bits
    Scripts,         \* whether connectDb may get as far as SCRIPT LOAD
    MaxPipe,         \* bound: commands under way when a thread takes a query
    Reserved,        \* bound: addresses that handlers leave to callbacks
    Nil,             \* the reply for a key that does not exist
    Idle             \* a thread without an operation

Keys == CookieIds \cup {-1}      \* what may follow the Steam id in a key

ASSUME PipelineAssumption ==
    /\ IsFiniteSet(Names)
    /\ Hashes \subseteq [Names -> CookieIds]
    /\ Scripts \subseteq BOOLEAN
    /\ MaxPipe \in Nat /\ Reserved \in Nat
    /\ Nil \notin Int /\ Nil \notin Value /\ Idle \notin Op

VARIABLES
    hash,            \* InsertCookie's hash of each name, chosen once
    scriptLoaded,    \* whether the connections have the script, chosen once
    queryQueue,      \* TQueue::queryQueue
    running,         \* thread -> the operation it runs, or Idle
    awaits,          \* thread -> what it waits for, "done" before PutResult
    left,            \* thread -> keys of the slow path still to be read
    answer,          \* thread -> m_insertId and m_results so far
    pipe,            \* thread -> commands sent and not executed yet
    reply,           \* thread -> replies received to the awaited commands
    resultQueue,     \* thread -> its part of TQueue::resultQueue
    crashed,         \* an exception left a query thread: std::terminate
    ids,             \* Redis, cookies.id.<name>
    listed,          \* Redis, the set cookies.list
    described,       \* Redis, the names with a key cookies.desc.<name>
    stored,          \* Redis, <steamId>.<id>
    saved            \* history: player and name -> the value last queued for
                     \* storage, the id it was queued under and whether by
                     \* SetAuthIdCookie for an absent player; or Nil

threadVars == <<running, awaits, left, answer, pipe, reply>>
redisVars == <<ids, listed, described, stored>>
given == <<hash, scriptLoaded>>
pipelineVars == <<given, queryQueue, threadVars, resultQueue, crashed, redisVars, saved>>
allVars == <<vars, pipelineVars>>

-----------------------------------------------------------------------------
(* The game thread's side.                                                 *)

(* AddQueryToQueue for what a handler created, in the order it did.        *)
InOrder(s) == \A i, j \in DOMAIN s : i < j => s[i].id[2] <= s[j].id[2]
BugEnqueueFront ==                \* what is queued last runs first
    \E new \in SetToSeqs(ops' \ ops) : InOrder(new) /\ queryQueue' = new \o queryQueue
Enqueue ==
    \E new \in SetToSeqs(ops' \ ops) : InOrder(new) /\ queryQueue' = queryQueue \o new

(* History of what OnClientDisconnecting and SetAuthIdCookie queue.        *)
LastSaved(c, n) ==
    LET mine == {i \in Saved(c) : clientData[c][i].parent = n}
        last == CHOOSE i \in mine : \A j \in mine : j <= i
    IN  IF mine = {} THEN saved[player[c]][n]
        ELSE [value |-> clientData[c][last].value, id |-> dbid[n], absent |-> FALSE]

(* Bound: handlers leave `Reserved' addresses free for the operations that *)
(* callbacks create, so that the bound on addresses stops no callback.     *)
LeavesRoom ==
    \/ ops' \subseteq ops
    \/ Cardinality({a \in Addresses : \A op \in ops' : op.id[1] # a}) >= Reserved

GameStep ==
    /\ \/ \E c \in Slots, p \in Players : ClientConnect(c, p) /\ UNCHANGED saved
       \/ \E c \in Slots : OnClientAuthorized(c) /\ UNCHANGED saved
       \/ \E c \in Slots :
            /\ OnClientDisconnecting(c)
            /\ saved' = [saved EXCEPT ![player[c]] = [n \in Names |-> LastSaved(c, n)]]
       \/ \E n \in Names : RegClientCookie(n) /\ UNCHANGED saved
       \/ \E n \in Names, c \in Slots : GetClientCookie(n, c) /\ UNCHANGED saved
       \/ \E n \in Names, c \in Slots, v \in Value :
            (SetClientCookie(n, c, v) \/ OnMenuSelect(n, c, v)) /\ UNCHANGED saved
       \/ CheckMissed /\ UNCHANGED saved
       \/ \E n \in Names, v \in Value :
            /\ SetAuthIdCookie(n, v)
            /\ saved' = IF \E op \in ops' \ ops : op.type = "InsertData"
                        THEN [saved EXCEPT ![v.by][n] =
                                [value |-> v, id |-> dbid[n], absent |-> TRUE]]
                        ELSE saved
    /\ LeavesRoom
    /\ Enqueue
    /\ UNCHANGED <<given, threadVars, resultQueue, crashed, redisVars>>

(* RunFrame: TQueue::GetResult takes the oldest result of some thread, and *)
(* the operation's callback gets what that thread found.                   *)
RunFrameStep(w) ==
    /\ resultQueue[w] # <<>>
    /\ LET r == Head(resultQueue[w])
       IN  \/ InsertCookieCallback(r.op, r.id)
           \/ SelectIdCallback(r.op, r.id)
           \/ InsertDataDone(r.op)
           \/ ClientConnectCallback(r.op, r.rows)
    /\ resultQueue' = [resultQueue EXCEPT ![w] = Tail(@)]
    /\ Enqueue
    /\ UNCHANGED <<given, threadVars, crashed, redisVars, saved>>

-----------------------------------------------------------------------------
(* Redis commands; the ones in Awaited are sent with Command().get().      *)
GetId(n) == [cmd |-> "GET id", name |-> n]
GetDesc(n) == [cmd |-> "GET desc", name |-> n]
GetValue(p, id) == [cmd |-> "GET value", steamId |-> p, id |-> id]
EvalSha(p) == [cmd |-> "EVALSHA", steamId |-> p]
GetKeys == [cmd |-> "KEYS"]
AddToList(n) == [cmd |-> "SADD", name |-> n]
SetDesc(n) == [cmd |-> "SET desc", name |-> n]
SetId(n, id) == [cmd |-> "SET id", name |-> n, id |-> id]
SetValue(p, id, v) == [cmd |-> "SET value", steamId |-> p, id |-> id, value |-> v]

Known == {n \in Names : ids[n] # Nil}

(* GET_CLIENT_COOKIES: one entry per listed cookie that has an id.         *)
ScriptRows(p) ==
    {[name |-> n, value |-> stored[p][ids[n]], desc |-> n \in described] :
        n \in listed \cap Known}

Answers(c) ==                     \* the members of a set in any order
    CASE c.cmd = "GET id" -> {ids[c.name]}
      [] c.cmd = "GET desc" -> {c.name \in described}
      [] c.cmd = "GET value" -> {stored[c.steamId][c.id]}
      [] c.cmd = "KEYS" -> SetToSeqs(Known)
      [] c.cmd = "EVALSHA" -> IF scriptLoaded THEN SetToSeqs(ScriptRows(c.steamId)) ELSE {Nil}

(* Redis executes the oldest command of thread w's connection.  The script *)
(* also removes the names without an id from the list.                     *)
Execute(w) ==
    /\ pipe[w] # <<>>
    /\ pipe' = [pipe EXCEPT ![w] = Tail(@)]
    /\ LET c == Head(pipe[w])
       IN  \/ /\ c.cmd = "SADD"
              /\ listed' = listed \cup {c.name}
              /\ UNCHANGED <<ids, described, stored, reply>>
           \/ /\ c.cmd = "SET desc"
              /\ described' = described \cup {c.name}
              /\ UNCHANGED <<ids, listed, stored, reply>>
           \/ /\ c.cmd = "SET id"
              /\ ids' = [ids EXCEPT ![c.name] = c.id]
              /\ UNCHANGED <<listed, described, stored, reply>>
           \/ /\ c.cmd = "SET value"
              /\ stored' = [stored EXCEPT ![c.steamId][c.id] = c.value]
              /\ UNCHANGED <<ids, listed, described, reply>>
           \/ /\ c.cmd \in {"GET id", "GET desc", "GET value", "KEYS", "EVALSHA"}
              /\ \E a \in Answers(c) : reply' = [reply EXCEPT ![w] = Append(@, a)]
              /\ listed' = IF c.cmd = "EVALSHA" /\ scriptLoaded
                           THEN listed \cap Known ELSE listed
              /\ UNCHANGED <<ids, described, stored>>
    /\ UNCHANGED <<vars, given, queryQueue, running, awaits, left, answer, resultQueue,
                   crashed, saved>>

-----------------------------------------------------------------------------
(* The query threads.                                                      *)

(* Thread w sends the commands cs and then waits for what.                 *)
Send(w, cs, what) ==
    /\ pipe' = [pipe EXCEPT ![w] = @ \o cs]
    /\ awaits' = [awaits EXCEPT ![w] = what]
    /\ reply' = [reply EXCEPT ![w] = <<>>]

Finish(w, id, rows) == answer' = [answer EXCEPT ![w] = [id |-> id, rows |-> rows]]

(* GetQuery, and RunThreadPart up to the first reply it needs.             *)
Take(w) ==
    /\ running[w] = Idle
    /\ queryQueue # <<>> /\ Len(pipe[w]) <= MaxPipe
    /\ queryQueue' = Tail(queryQueue)
    /\ LET op == Head(queryQueue)
       IN  /\ running' = [running EXCEPT ![w] = op]
           /\ \/ op.type \in {"InsertCookie", "SelectId"} /\ Send(w, <<GetId(op.cookie)>>, "id")
              \/ op.type = "SelectData" /\ Send(w, <<EvalSha(op.steamId)>>, "script")
              \/ /\ op.type = "InsertData"
                 /\ Send(w, <<SetValue(op.steamId, op.cookieId, op.value)>>, "done")
    /\ UNCHANGED <<vars, given, left, answer, resultQueue, crashed, redisVars, saved>>

(* InsertCookie: a stored id is used, a new cookie's id is its hash.  The  *)
(* name is listed in both cases, and a new id is set last.                 *)
BugIdFirst(w) ==                  \* the id is set before the description
    LET n == running[w].cookie
        id == reply[w][1]
    IN  /\ running[w].type = "InsertCookie"
        /\ awaits[w] = "id" /\ reply[w] # <<>>
        /\ IF id # Nil
           THEN Send(w, <<AddToList(n)>>, "done") /\ Finish(w, id, <<>>)
           ELSE /\ Send(w, <<AddToList(n), SetId(n, hash[n]), SetDesc(n)>>, "done")
                /\ Finish(w, hash[n], <<>>)
        /\ UNCHANGED <<left, crashed>>
BugIdUnset(w) ==                  \* a new cookie's id is not stored
    LET n == running[w].cookie
        id == reply[w][1]
    IN  /\ running[w].type = "InsertCookie"
        /\ awaits[w] = "id" /\ reply[w] # <<>>
        /\ Send(w, <<AddToList(n), SetDesc(n)>>, "done")
        /\ Finish(w, IF id # Nil THEN id ELSE hash[n], <<>>)
        /\ UNCHANGED <<left, crashed>>
BugIdNil(w) ==                    \* nor remembered
    LET n == running[w].cookie
        id == reply[w][1]
    IN  /\ running[w].type = "InsertCookie"
        /\ awaits[w] = "id" /\ reply[w] # <<>>
        /\ Send(w, <<AddToList(n), SetDesc(n), SetId(n, hash[n])>>, "done")
        /\ Finish(w, id, <<>>)
        /\ UNCHANGED <<left, crashed>>
InsertCookieThread(w) ==
    LET n == running[w].cookie
        id == reply[w][1]
    IN  /\ running[w].type = "InsertCookie"
        /\ awaits[w] = "id" /\ reply[w] # <<>>
        /\ IF id # Nil
           THEN Send(w, <<AddToList(n)>>, "done") /\ Finish(w, id, <<>>)
           ELSE /\ Send(w, <<AddToList(n), SetDesc(n), SetId(n, hash[n])>>, "done")
                /\ Finish(w, hash[n], <<>>)
        /\ UNCHANGED <<left, crashed>>

(* SelectId: with its test inverted it fails on an id, leaving -1, and     *)
(* throws out of the thread when there is none (reply::GetString).         *)
SelectIdThread(w) ==
    /\ running[w].type = "SelectId"
    /\ awaits[w] = "id" /\ reply[w] # <<>>
    /\ IF reply[w][1] # Nil
       THEN Send(w, <<>>, "done") /\ UNCHANGED crashed
       ELSE crashed' = TRUE /\ UNCHANGED <<pipe, awaits, reply>>
    /\ UNCHANGED <<left, answer>>

Row(entry) == [name |-> entry.name, value |-> entry.value]

(* SelectData, the script's reply.  A cookie without description is a nil  *)
(* string, which throws.  Without the script the thread falls back to the  *)
(* slow path.                                                              *)
ScriptReply(w) ==
    LET entries == reply[w][1]
    IN  /\ awaits[w] = "script" /\ reply[w] # <<>>
        /\ \/ /\ entries = Nil
              /\ Send(w, <<GetKeys>>, "keys")
              /\ UNCHANGED <<answer, crashed>>
           \/ /\ entries # Nil
              /\ \A i \in DOMAIN entries : entries[i].desc
              /\ Send(w, <<>>, "done")
              /\ Finish(w, -1, [i \in DOMAIN entries |-> Row(entries[i])])
              /\ UNCHANGED crashed
           \/ /\ entries # Nil
              /\ \E i \in DOMAIN entries : ~entries[i].desc
              /\ crashed' = TRUE
              /\ UNCHANGED <<pipe, awaits, reply, answer>>
        /\ UNCHANGED left

(* SelectData, the slow path: for each key of KEYS its id, then its value  *)
(* and description together.                                               *)
NextKey(w, keys) ==
    /\ left' = [left EXCEPT ![w] = keys]
    /\ IF keys = <<>> THEN Send(w, <<>>, "done")
                      ELSE Send(w, <<GetId(keys[1])>>, "id")

KeysReply(w) ==
    /\ awaits[w] = "keys" /\ reply[w] # <<>>
    /\ NextKey(w, reply[w][1])
    /\ UNCHANGED <<answer, crashed>>

KeyIdReply(w) ==
    /\ running[w].type = "SelectData"
    /\ awaits[w] = "id" /\ reply[w] # <<>>
    /\ IF reply[w][1] = Nil
       THEN NextKey(w, Tail(left[w]))
       ELSE /\ Send(w, <<GetValue(running[w].steamId, reply[w][1]),
                         GetDesc(left[w][1])>>, "value")
            /\ UNCHANGED left
    /\ UNCHANGED <<answer, crashed>>

ValueReply(w) ==
    /\ awaits[w] = "value" /\ Len(reply[w]) = 2
    /\ IF reply[w][2]
       THEN /\ NextKey(w, Tail(left[w]))
            /\ answer' = [answer EXCEPT ![w].rows =
                    Append(@, [name |-> left[w][1], value |-> reply[w][1]])]
            /\ UNCHANGED crashed
       ELSE crashed' = TRUE /\ UNCHANGED <<left, answer, pipe, awaits, reply>>

Continue(w) ==
    /\ running[w] # Idle
    /\ \/ InsertCookieThread(w) \/ SelectIdThread(w)
       \/ ScriptReply(w) \/ KeysReply(w) \/ KeyIdReply(w) \/ ValueReply(w)
    /\ UNCHANGED <<vars, given, queryQueue, running, resultQueue, redisVars, saved>>

(* PutResult; the commands still in the pipe are not waited for.           *)
BugPutAgain(w) ==                 \* the thread keeps the operation
    /\ running[w] # Idle /\ awaits[w] = "done"
    /\ Len(resultQueue[w]) < 2
    /\ resultQueue' = [resultQueue EXCEPT ![w] =
            Append(@, [op |-> running[w], id |-> answer[w].id, rows |-> answer[w].rows])]
    /\ UNCHANGED <<vars, given, queryQueue, running, awaits, left, answer, pipe, reply,
                   crashed, redisVars, saved>>
BugPutRows(w) ==                  \* results without rows are dropped
    /\ running[w] # Idle /\ awaits[w] = "done"
    /\ resultQueue' = IF answer[w].rows = <<>> THEN resultQueue
                      ELSE [resultQueue EXCEPT ![w] = Append(@,
                        [op |-> running[w], id |-> answer[w].id, rows |-> answer[w].rows])]
    /\ running' = [running EXCEPT ![w] = Idle]
    /\ Finish(w, -1, <<>>)
    /\ UNCHANGED <<vars, given, queryQueue, awaits, left, pipe, reply, crashed,
                   redisVars, saved>>
PutResult(w) ==
    /\ running[w] # Idle /\ awaits[w] = "done"
    /\ resultQueue' = [resultQueue EXCEPT ![w] =
            Append(@, [op |-> running[w], id |-> answer[w].id, rows |-> answer[w].rows])]
    /\ running' = [running EXCEPT ![w] = Idle]
    /\ Finish(w, -1, <<>>)
    /\ UNCHANGED <<vars, given, queryQueue, awaits, left, pipe, reply, crashed,
                   redisVars, saved>>

-----------------------------------------------------------------------------
(* Redis starts with the cookies some earlier server registered.           *)
PipelineInit ==
    /\ Init
    /\ hash \in Hashes /\ scriptLoaded \in Scripts
    /\ \E new \in SetToSeqs(ops) : InOrder(new) /\ queryQueue = new
    /\ running = [w \in Workers |-> Idle]
    /\ awaits = [w \in Workers |-> "done"]
    /\ left = [w \in Workers |-> <<>>]
    /\ answer = [w \in Workers |-> [id |-> -1, rows |-> <<>>]]
    /\ pipe = [w \in Workers |-> <<>>]
    /\ reply = [w \in Workers |-> <<>>]
    /\ resultQueue = [w \in Workers |-> <<>>]
    /\ crashed = FALSE
    /\ listed \in SUBSET Names
    /\ described = listed
    /\ ids = [n \in Names |-> IF n \in listed THEN hash[n] ELSE Nil]
    /\ stored = [p \in Players |-> [k \in Keys |-> Empty]]
    /\ saved = [p \in Players |-> [n \in Names |-> Nil]]

PipelineNext ==
    /\ ~crashed
    /\ \/ GameStep
       \/ \E w \in Workers : RunFrameStep(w)
       \/ \E w \in Workers : Take(w) \/ Execute(w) \/ Continue(w) \/ PutResult(w)

(* Frames keep coming, threads are scheduled and Redis answers; nothing    *)
(* makes players or plugins do anything.                                   *)
Fairness ==
    /\ WF_allVars(~crashed /\ \E w \in Workers : RunFrameStep(w))
    /\ \A w \in Workers :
        /\ WF_allVars(~crashed /\ Take(w))
        /\ WF_allVars(~crashed /\ Execute(w))
        /\ WF_allVars(~crashed /\ Continue(w))
        /\ WF_allVars(~crashed /\ PutResult(w))

PipelineSpec == PipelineInit /\ [][PipelineNext]_allVars /\ Fairness
-----------------------------------------------------------------------------
(***************************************************************************)
(* Properties                                                              *)
(***************************************************************************)

(* Every variable has its type.                                            *)
PipelineTypeOK ==
    /\ hash \in Hashes /\ scriptLoaded \in Scripts
    /\ queryQueue \in Seq(Op)
    /\ running \in [Workers -> Op \cup {Idle}]
    /\ awaits \in [Workers -> {"id", "script", "keys", "value", "done"}]
    /\ left \in [Workers -> Seq(Names)]
    /\ \A w \in Workers :
        /\ answer[w].id \in Keys
        /\ running[w] # Idle /\ running[w].type = "SelectData" =>
                answer[w].rows \in Seq(Rows(running[w].steamId))
        /\ \A i \in DOMAIN resultQueue[w] : resultQueue[w][i].op \in Op
    /\ crashed \in BOOLEAN
    /\ ids \in [Names -> CookieIds \cup {Nil}]
    /\ listed \subseteq Names /\ described \subseteq Names
    /\ stored \in [Players -> [Keys -> Value \cup {Empty}]]

(* The queue, the threads and Redis together do nothing that CookieManager *)
(* does not expect of them: each operation comes back once, after it was   *)
(* queued, with an answer of the right kind for the player it was made     *)
(* for.  So all that is shown of CookieManager holds with any number of    *)
(* threads.                                                                *)
ImplementsCookieManager == Init /\ [][Next]_vars

(* No exception leaves a query thread, which would take the game server    *)
(* down: a cookie that a query finds always has a description (it is set   *)
(* before the id), and SelectId finds the id it asks for.  With two        *)
(* threads the latter needs that no name hashes to 0.                      *)
NeverTerminates == ~crashed

(* What player p was last known to have: the value last queued for storage *)
(* under a known id.                                                       *)
Kept(p, n) == saved[p][n] # Nil /\ saved[p][n].id # -1

(* Player p sees value v of cookie n in slot c.                            *)
Sees(c, n, v) == data[n][c] # 0 /\ clientData[c][data[n][c]].value = v

(* The values a player is loaded with are the ones last queued for storage *)
(* under the player's id, by an earlier departure or by SetAuthIdCookie.   *)
LoadSeesStored ==
    [][\A c \in Slots, n \in Names :
        ~statsLoaded[c] /\ statsLoaded'[c] /\ Kept(player[c], n) =>
            Sees(c, n, saved[player[c]][n].value)']_allVars

(* Player p has a value that SetAuthIdCookie wrote in p's absence, and no  *)
(* later one.                                                              *)
WrittenAbsent(p, n) == saved[p][n] # Nil /\ saved[p][n].absent

(* A value written with SetAuthIdCookie for an absent player is the value  *)
(* the player sees when connecting later in the same map (natives.cpp:148: *)
(* "so players connecting later in during the same map will have the       *)
(* correct value").                                                        *)
AuthIdValueSeen ==
    [][\A c \in Slots, n \in Names :
        ~statsLoaded[c] /\ statsLoaded'[c] /\ WrittenAbsent(player[c], n) =>
            Sees(c, n, saved[player[c]][n].value)']_allVars

(* The same when the cookie's id was known as the value was written.       *)
AuthIdValueSeenOnceKnown ==
    [][\A c \in Slots, n \in Names :
        /\ ~statsLoaded[c] /\ statsLoaded'[c]
        /\ WrittenAbsent(player[c], n) /\ Kept(player[c], n)
        => Sees(c, n, saved[player[c]][n].value)']_allVars

Quiet == ops = {} /\ \A w \in Workers : pipe[w] = <<>>

(* Once nothing is under way, Redis has the value last queued for every    *)
(* player and cookie: saves are neither lost nor applied out of order.     *)
StoredWhenQuiet ==
    Quiet => \A p \in Players, n \in Names :
        Kept(p, n) => stored[p][saved[p][n].id] = saved[p][n].value

(* Once nothing is under way, every cookie with an id is one that the      *)
(* script finds: listed, under that id and with a description.             *)
ListedWhenQuiet ==
    Quiet => \A n \in cookies : dbid[n] > 0 =>
        n \in listed /\ ids[n] = dbid[n] /\ n \in described

(* Every authorized human who stays has their cookies loaded eventually.   *)
EventuallyLoaded ==
    \A c \in Slots : Served(c) ~> (statsLoaded[c] \/ ~Served(c))
=============================================================================

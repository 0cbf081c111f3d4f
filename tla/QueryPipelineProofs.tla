------------------------- MODULE QueryPipelineProofs -------------------------
(***************************************************************************)
(* The queue, the query threads and Redis do what CookieManager expects of *)
(* them, for any number of threads, players and cookies.                   *)
(*                                                                         *)
(* The inductive invariant IInv says where every operation is (Placed: in  *)
(* the queue, with one thread or among the results, and only there), what  *)
(* a thread waits for and which commands are still in its connection       *)
(* (ThreadOK: writes, then at most the one command it waits for), that the *)
(* reply will be of the right kind (Asked), and that Redis and the saves   *)
(* on their way keep each player's values under the player's own key       *)
(* (RedisTypes).  Then what RunFrame completes is an operation that        *)
(* CookieManager knows, with an answer that it allows.                     *)
(***************************************************************************)
EXTENDS QueryPipeline, CookieManagerProofs, FiniteSetTheorems

-----------------------------------------------------------------------------
(* Finite sets of operations, and their listings.                          *)

(* A sequence of all members of a finite set.                              *)
LEMMA AllMembers ==
    ASSUME NEW S, IsFiniteSet(S), NEW s \in SetToSeqs(S)
    PROVE  /\ s \in Seq(S)
           /\ \A i, j \in DOMAIN s : s[i] = s[j] => i = j
<1>1. Cardinality(S) \in Nat
  BY FS_CardinalityType
<1>2. s \in [1..Cardinality(S) -> S]
  BY DEF SetToSeqs
<1>3. QED
  BY <1>1, <1>2 DEF SetToSeqs

LEMMA ImageFinite ==
    ASSUME NEW S, IsFiniteSet(S), NEW f, DOMAIN f = S
    PROVE  IsFiniteSet({f[x] : x \in S})
<1> DEFINE T == {f[x] : x \in S}
           g == [x \in S |-> f[x]]
<1>1. g \in Surjection(S, T)
  BY DEF Surjection
<1>2. QED
  BY <1>1, FS_Surjection

LEMMA SelectOpsFinite ==
    ASSUME NEW S \in SUBSET Slots
    PROVE  IsFiniteSet(SelectOps(S))
<1> DEFINE f == [c \in S |-> SelectOp(c, c)]
<1>1. IsFiniteSet(S)
  <2>1. 1 \in Int /\ MaxClients \in Int
    BY ConstantsAssumption
  <2>2. IsFiniteSet(Slots)
    BY <2>1, FS_Interval DEF Slots
  <2>3. QED
    BY <2>2, FS_Subset
<1>2. IsFiniteSet({f[c] : c \in S})
  BY <1>1, ImageFinite
<1>3. SelectOps(S) = {f[c] : c \in S}
  BY DEF SelectOps
<1>4. QED
  BY <1>2, <1>3

LEMMA SaveOpsFinite ==
    ASSUME TypeOK, NEW c \in Slots
    PROVE  IsFiniteSet(SaveOps(c))
<1> DEFINE f == [i \in Saved(c) |->
                    [id |-> New(MaxClients + i), type |-> "InsertData",
                     steamId |-> player[c],
                     cookieId |-> dbid[clientData[c][i].parent],
                     value |-> clientData[c][i].value]]
<1>1. DOMAIN clientData[c] = 1..Len(clientData[c]) /\ Len(clientData[c]) \in Nat
  BY DEF TypeOK
<1>2. Saved(c) \subseteq 1..Len(clientData[c])
  BY <1>1 DEF Saved
<1>3. IsFiniteSet(Saved(c))
  <2>1. 1 \in Int /\ Len(clientData[c]) \in Int
    BY <1>1
  <2>2. IsFiniteSet(1..Len(clientData[c]))
    BY <2>1, FS_Interval
  <2>3. QED
    BY <1>2, <2>2, FS_Subset
<1>4. IsFiniteSet({f[i] : i \in Saved(c)})
  BY <1>3, ImageFinite
<1>5. SaveOps(c) = {f[i] : i \in Saved(c)}
  BY DEF SaveOps
<1>6. QED
  BY <1>4, <1>5

LEMMA MissedSlots ==
    ASSUME NEW auth, NEW loaded, NEW pending
    PROVE  Missed(auth, loaded, pending) \in SUBSET Slots
BY DEF Missed

(* What a handler adds to the operations.                                  *)
LEMMA AttemptReconnectionOps ==
    ASSUME IsFiniteSet(ops), NEW new, IsFiniteSet(new), AttemptReconnection(new)
    PROVE  ops \subseteq ops' /\ IsFiniteSet(ops')
<1> DEFINE asked == SelectOps(Missed(authorized, statsLoaded, statsPending))
<1>1. ops' = ops \cup (asked \cup new)
  BY DEF AttemptReconnection, Submit
<1>2. IsFiniteSet(asked)
  BY MissedSlots, SelectOpsFinite
<1>3. IsFiniteSet(asked \cup new)
  BY <1>2, FS_Union
<1>4. QED
  BY <1>1, <1>3, FS_Union

(* Only the completion of an operation ends it.                            *)
LEMMA GameAddsOps ==
    ASSUME TypeOK, IsFiniteSet(ops), Server \/ Native
    PROVE  ops \subseteq ops' /\ IsFiniteSet(ops')
<1>1. \A o : IsFiniteSet({o})
  BY FS_Singleton
<1>2. IsFiniteSet({})
  BY FS_EmptySet
<1>3. ASSUME NEW c \in Slots, NEW p \in Players, ClientConnect(c, p)
      PROVE  ops' = ops
  BY <1>3 DEF ClientConnect
<1>4. ASSUME NEW c \in Slots, OnClientAuthorized(c)
      PROVE  ops \subseteq ops' /\ IsFiniteSet(ops')
  <2> DEFINE S == Missed([authorized EXCEPT ![c] = TRUE], statsLoaded,
                         [statsPending EXCEPT ![c] = TRUE])
             o == SelectOp(c, MaxClients + 1)
  <2>1. CASE ops' = ops
    BY <2>1
  <2>2. CASE ops' = ops \cup (SelectOps(S) \cup {o})
    <3>1. IsFiniteSet(SelectOps(S))
      BY MissedSlots, SelectOpsFinite
    <3>2. IsFiniteSet(SelectOps(S) \cup {o})
      BY <1>1, <3>1, FS_Union
    <3>3. QED
      BY <2>2, <3>2, FS_Union
  <2>3. QED
    BY <1>4, <2>1, <2>2 DEF OnClientAuthorized, Submit
<1>5. ASSUME NEW c \in Slots, OnClientDisconnecting(c)
      PROVE  ops \subseteq ops' /\ IsFiniteSet(ops')
  <2> DEFINE S == Missed(authorized, [statsLoaded EXCEPT ![c] = FALSE],
                         [statsPending EXCEPT ![c] = FALSE])
  <2>1. ops' = ops \cup (SelectOps(S) \cup SaveOps(c))
    BY <1>5 DEF OnClientDisconnecting, Submit
  <2>2. IsFiniteSet(SelectOps(S)) /\ IsFiniteSet(SaveOps(c))
    BY MissedSlots, SelectOpsFinite, SaveOpsFinite
  <2>3. IsFiniteSet(SelectOps(S) \cup SaveOps(c))
    BY <2>2, FS_Union
  <2>4. QED
    BY <2>1, <2>3, FS_Union
<1>6. ASSUME NEW n \in Names, RegClientCookie(n)
      PROVE  ops \subseteq ops' /\ IsFiniteSet(ops')
  <2> DEFINE o == [id |-> New(MaxClients + 1), type |-> "InsertCookie", cookie |-> n]
             new == InsertCookieOps({n} \ cookies, MaxClients + 1)
  <2>1. new = {o} \/ new = {}
    BY DEF InsertCookieOps
  <2>2. IsFiniteSet(new)
    BY <1>1, <1>2, <2>1
  <2>3. QED
    BY <1>6, <2>2, AttemptReconnectionOps DEF RegClientCookie
<1>7. ASSUME \/ \E n \in Names, c \in Slots : GetClientCookie(n, c)
             \/ \E n \in Names, c \in Slots, v \in Value : SetClientCookie(n, c, v)
             \/ CheckMissed
      PROVE  ops \subseteq ops' /\ IsFiniteSet(ops')
  BY <1>2, <1>7, AttemptReconnectionOps DEF GetClientCookie, SetClientCookie, CheckMissed
<1>8. ASSUME NEW n \in Names, NEW c \in Slots, NEW v \in Value, OnMenuSelect(n, c, v)
      PROVE  ops' = ops
  BY <1>8 DEF OnMenuSelect
<1>9. ASSUME NEW n \in Names, NEW v \in Value, SetAuthIdCookie(n, v)
      PROVE  ops \subseteq ops' /\ IsFiniteSet(ops')
  <2> DEFINE o == [id |-> New(MaxClients + 1), type |-> "InsertData",
                   steamId |-> v.by, cookieId |-> dbid[n], value |-> v]
  <2>1. AttemptReconnection({}) \/ AttemptReconnection({o})
    BY <1>9 DEF SetAuthIdCookie
  <2>2. QED
    BY <1>1, <1>2, <2>1, AttemptReconnectionOps
<1>10. QED
  BY <1>3, <1>4, <1>5, <1>6, <1>7, <1>8, <1>9 DEF Server, Native

LEMMA FrameEndsOne ==
    ASSUME IsFiniteSet(ops), NEW op \in ops,
           \/ \E id : InsertCookieCallback(op, id) \/ SelectIdCallback(op, id)
           \/ InsertDataDone(op)
           \/ \E p \in Players : \E rows \in Results(p) : ClientConnectCallback(op, rows)
    PROVE  ops \ {op} \subseteq ops' /\ IsFiniteSet(ops')
<1>1. \A o : IsFiniteSet({o})
  BY FS_Singleton
<1>2. IsFiniteSet({})
  BY FS_EmptySet
<1>3. ASSUME NEW new, IsFiniteSet(new), Replace(op, new)
      PROVE  ops \ {op} \subseteq ops' /\ IsFiniteSet(ops')
  <2>1. IsFiniteSet(ops \ {op})
    BY FS_RemoveElement
  <2>2. QED
    BY <1>3, <2>1, FS_Union DEF Replace
<1>4. ASSUME NEW p \in Players, NEW rows \in Results(p), ClientConnectCallback(op, rows)
      PROVE  ops \ {op} \subseteq ops' /\ IsFiniteSet(ops')
  <2> DEFINE created == {i \in DOMAIN rows : rows[i].name \notin cookies}
             new == UNION {InsertCookieOps({rows[i].name}, i) : i \in created}
             f == [i \in created |->
                      [id |-> New(i), type |-> "InsertCookie", cookie |-> rows[i].name]]
  <2>1. PICK k \in 0..Cardinality(Names) : rows \in [1..k -> Rows(p)]
    BY DEF Results
  <2>2. created \subseteq 1..k /\ k \in Int
    BY <2>1
  <2>3. IsFiniteSet(created)
    BY <2>2, FS_Interval, FS_Subset
  <2>4. IsFiniteSet({f[i] : i \in created})
    BY <2>3, ImageFinite
  <2>5. \A i \in created : InsertCookieOps({rows[i].name}, i) = {f[i]}
    BY DEF InsertCookieOps
  <2>6. new = {f[i] : i \in created}
    <3>1. new = UNION {{f[i]} : i \in created}
      BY <2>5
    <3>2. QED
      BY <3>1
  <2>7. IsFiniteSet(new)
    BY <2>4, <2>6
  <2>8. Replace(op, {}) \/ Replace(op, new)
    BY <1>4 DEF ClientConnectCallback
  <2>9. QED
    BY <1>2, <1>3, <2>7, <2>8
<1>5. ASSUME NEW id, InsertCookieCallback(op, id)
      PROVE  ops \ {op} \subseteq ops' /\ IsFiniteSet(ops')
  BY <1>1, <1>2, <1>3, <1>5 DEF InsertCookieCallback
<1>6. ASSUME NEW id, SelectIdCallback(op, id) \/ InsertDataDone(op)
      PROVE  ops \ {op} \subseteq ops' /\ IsFiniteSet(ops')
  BY <1>2, <1>3, <1>6 DEF SelectIdCallback, InsertDataDone
<1>7. QED
  BY <1>4, <1>5, <1>6

-----------------------------------------------------------------------------
(* Types, finer than PipelineTypeOK: what is in a connection, and whose    *)
(* values.                                                                 *)
AnyRow == [name : Names, value : Value \cup {Empty}]
Result == [op : Op, id : Keys, rows : Seq(AnyRow)]

Read ==
    [cmd : {"GET id", "GET desc"}, name : Names]
        \cup [cmd : {"GET value"}, steamId : Players, id : CookieIds]
        \cup [cmd : {"EVALSHA"}, steamId : Players]
        \cup [cmd : {"KEYS"}]

OwnSave ==
    {c \in [cmd : {"SET value"}, steamId : Players, id : Int, value : Value \cup {Empty}] :
        c.value \in Stored(c.steamId)}
Write ==
    [cmd : {"SADD", "SET desc"}, name : Names]
        \cup [cmd : {"SET id"}, name : Names, id : CookieIds]
        \cup OwnSave

GameTypes ==
    /\ hash \in [Names -> CookieIds] /\ hash \in Hashes /\ scriptLoaded \in Scripts
    /\ queryQueue \in Seq(Op)
    /\ resultQueue \in [Workers -> Seq(Result)]
    /\ crashed \in BOOLEAN

ThreadTypes ==
    /\ running \in [Workers -> Op \cup {Idle}]
    /\ awaits \in [Workers -> {"id", "script", "keys", "value", "done"}]
    /\ left \in [Workers -> Seq(Names)]
    /\ answer \in [Workers -> [id : Keys, rows : Seq(AnyRow)]]
    /\ pipe \in [Workers -> Seq(Read \cup Write)]
    /\ DOMAIN reply = Workers

RedisTypes ==
    /\ ids \in [Names -> CookieIds \cup {Nil}]
    /\ listed \subseteq Names /\ described \subseteq Names
    /\ stored \in [Players -> [Keys -> Value \cup {Empty}]]
    /\ \A p \in Players, k \in Keys : stored[p][k] \in Stored(p)

-----------------------------------------------------------------------------
(* Where the operations are: each is in one place only, in the query       *)
(* queue, with a thread or among the results.                              *)
QueuedExist == \A i \in DOMAIN queryQueue : queryQueue[i] \in ops
RunningExist == \A w \in Workers : running[w] # Idle => running[w] \in ops
ResultsExist ==
    \A w \in Workers : \A i \in DOMAIN resultQueue[w] : resultQueue[w][i].op \in ops

QueuedOnce ==
    \A i, j \in DOMAIN queryQueue : queryQueue[i] = queryQueue[j] => i = j
RunningOnce ==
    \A w, x \in Workers : running[w] # Idle /\ running[w] = running[x] => w = x
ResultsOnce ==
    \A w, x \in Workers : \A i \in DOMAIN resultQueue[w], j \in DOMAIN resultQueue[x] :
        resultQueue[w][i].op = resultQueue[x][j].op => w = x /\ i = j
NotQueuedAndRunning ==
    \A i \in DOMAIN queryQueue, w \in Workers : queryQueue[i] # running[w]
NotQueuedAndDone ==
    \A i \in DOMAIN queryQueue, w \in Workers : \A j \in DOMAIN resultQueue[w] :
        queryQueue[i] # resultQueue[w][j].op
NotRunningAndDone ==
    \A w, x \in Workers : \A j \in DOMAIN resultQueue[x] : running[w] # resultQueue[x][j].op

Placed ==
    /\ QueuedExist /\ RunningExist /\ ResultsExist
    /\ QueuedOnce /\ RunningOnce /\ ResultsOnce
    /\ NotQueuedAndRunning /\ NotQueuedAndDone /\ NotRunningAndDone

-----------------------------------------------------------------------------
(* What a thread has found: an answer of the right kind.                   *)
DistinctRows(rows) == \A i, j \in DOMAIN rows : rows[i].name = rows[j].name => i = j

GoodAnswer(op, a) ==
    /\ op.type = "InsertCookie" => a.id \in CookieIds
    /\ op.type = "SelectId" => a.id = -1
    /\ op.type = "SelectData" => a.rows \in Seq(Rows(op.steamId)) /\ DistinctRows(a.rows)

ResultsGood ==
    \A w \in Workers : \A i \in DOMAIN resultQueue[w] :
        GoodAnswer(resultQueue[w][i].op, resultQueue[w][i])

NoAnswer == [id |-> -1, rows |-> <<>>]

(* What Redis may reply: the rows of the script and the keys of KEYS.      *)
Entries(p) ==
    {e \in Seq([name : Names, value : Stored(p), desc : BOOLEAN]) : DistinctRows(e)}
KeyLists == {k \in Seq(Names) : \A i, j \in DOMAIN k : k[i] = k[j] => i = j}

AllWrites(s) == \A i \in DOMAIN s : s[i] \in Write
EndsWith(s, c) ==
    /\ s # <<>> /\ s[Len(s)] = c
    /\ \A i \in 1 .. Len(s) - 1 : s[i] \in Write

(* Thread w waits for the reply to its last command, the only one that has *)
(* one, or has it.                                                         *)
Asked(w, c, good) ==
    \/ reply[w] = <<>> /\ EndsWith(pipe[w], c)
    \/ pipe[w] = <<>> /\ \E a \in good : reply[w] = <<a>>

IdReplies == CookieIds \cup {Nil}

(* On the slow path: keys still to be read and the rows of others.         *)
SlowPath(w) ==
    /\ left[w] \in KeyLists /\ left[w] # <<>>
    /\ answer[w].id = -1
    /\ answer[w].rows \in Seq(Rows(running[w].steamId)) /\ DistinctRows(answer[w].rows)
    /\ \A i \in DOMAIN answer[w].rows, j \in DOMAIN left[w] :
            answer[w].rows[i].name # left[w][j]

Resting(w) ==
    /\ running[w] = Idle /\ awaits[w] = "done" /\ answer[w] = NoAnswer
    /\ AllWrites(pipe[w])
Answered(w) ==
    /\ running[w] # Idle /\ awaits[w] = "done" /\ GoodAnswer(running[w], answer[w])
    /\ AllWrites(pipe[w])
AsksForId(w) ==
    /\ running[w] # Idle /\ running[w].type \in {"InsertCookie", "SelectId"}
    /\ awaits[w] = "id" /\ answer[w] = NoAnswer
    /\ Asked(w, GetId(running[w].cookie), IdReplies)
Loads(w) == running[w] # Idle /\ running[w].type = "SelectData"
RunsScript(w) ==
    /\ Loads(w) /\ awaits[w] = "script" /\ answer[w] = NoAnswer
    /\ Asked(w, EvalSha(running[w].steamId), {Nil} \cup Entries(running[w].steamId))
AsksForKeys(w) ==
    /\ Loads(w) /\ awaits[w] = "keys" /\ answer[w] = NoAnswer
    /\ Asked(w, GetKeys, KeyLists)
AsksForKeyId(w) ==
    /\ Loads(w) /\ awaits[w] = "id" /\ SlowPath(w)
    /\ Asked(w, GetId(left[w][1]), IdReplies)
ValueAsked(w, p, n) ==
    \/ /\ reply[w] = <<>>
       /\ \E id \in CookieIds : pipe[w] = <<GetValue(p, id), GetDesc(n)>>
    \/ /\ pipe[w] = <<GetDesc(n)>>
       /\ \E v \in Stored(p) : reply[w] = <<v>>
    \/ /\ pipe[w] = <<>>
       /\ \E v \in Stored(p), d \in BOOLEAN : reply[w] = <<v, d>>
AsksForValue(w) ==
    /\ Loads(w) /\ awaits[w] = "value" /\ SlowPath(w)
    /\ ValueAsked(w, running[w].steamId, left[w][1])

ThreadOK(w) ==
    \/ Resting(w) \/ Answered(w) \/ AsksForId(w) \/ RunsScript(w)
    \/ AsksForKeys(w) \/ AsksForKeyId(w) \/ AsksForValue(w)

IInv ==
    /\ ServedInv /\ OwnInv /\ IsFiniteSet(ops)
    /\ GameTypes /\ ThreadTypes /\ RedisTypes
    /\ Placed /\ ResultsGood
    /\ \A w \in Workers : ThreadOK(w)

-----------------------------------------------------------------------------
(* What is saved under a player's id is the player's own.                  *)
LEMMA SavesOwn ==
    ASSUME TypeOK, OwnInv, NEW op \in ops, op.type = "InsertData"
    PROVE  /\ op.steamId \in Players /\ op.cookieId \in Int
           /\ op.value \in Stored(op.steamId)
<1>1. op \in InsertDataOp
  BY DEF TypeOK, Op, InsertCookieOp, SelectDataOp, InsertDataOp, SelectIdOp
<1>2. op.steamId \in Players /\ op.cookieId \in Int /\ op.value \in Value \cup {Empty}
  BY <1>1 DEF InsertDataOp
<1>3. EmptySlotCalls \/ op.value = Empty \/ op.value.by = op.steamId
  BY ConstantsAssumption DEF OwnInv, OwnValuesOnly
<1>4. QED
  BY <1>2, <1>3 DEF Stored

LEMMA OpFields ==
    ASSUME NEW op \in Op
    PROVE  /\ op.type \in {"InsertCookie", "SelectData", "InsertData", "SelectId"}
           /\ op.type \in {"InsertCookie", "SelectId"} => op.cookie \in Names
           /\ op.type = "SelectData" => op.steamId \in Players
BY DEF Op, InsertCookieOp, SelectDataOp, InsertDataOp, SelectIdOp

(* One row per cookie: no more rows than cookies.                          *)
LEMMA RowsAreResults ==
    ASSUME NEW p, NEW rows \in Seq(Rows(p)), DistinctRows(rows)
    PROVE  rows \in Results(p)
<1> DEFINE k == Len(rows)
           f == [i \in 1..k |-> rows[i].name]
<1>1. k \in Nat /\ rows \in [1..k -> Rows(p)] /\ DOMAIN rows = 1..k
  OBVIOUS
<1>2. f \in Injection(1..k, Names)
  <2>1. \A i \in 1..k : rows[i].name \in Names
    BY <1>1 DEF Rows
  <2>2. \A i, j \in 1..k : rows[i].name = rows[j].name => i = j
    BY <1>1 DEF DistinctRows
  <2>3. QED
    BY <2>1, <2>2 DEF Injection, IsInjective
<1>3. Cardinality(1..k) <= Cardinality(Names) /\ Cardinality(Names) \in Nat
  BY <1>2, PipelineAssumption, FS_Injection, FS_CardinalityType
<1>4. Cardinality(1..k) = k
  BY <1>1, FS_Interval
<1>5. k \in 0..Cardinality(Names)
  BY <1>1, <1>3, <1>4
<1>6. QED
  BY <1>1, <1>5 DEF Results, DistinctRows

-----------------------------------------------------------------------------
(* The initial states.                                                     *)
LEMMA InitIInv == PipelineInit => IInv
<1> SUFFICES ASSUME PipelineInit PROVE IInv
  OBVIOUS
<1>1. Init
  BY DEF PipelineInit
<1>2. ServedInv /\ OwnInv
  BY <1>1, InitServed, InitOwn
<1>3. ops \subseteq Op
  BY <1>2 DEF ServedInv, TypeOK
<1>4. IsFiniteSet(ops)
  <2> DEFINE S == {d \in Slots : statsPending[d]}
             f == [c \in S |-> [id |-> <<CHOOSE a \in Addresses : TRUE, c>>,
                      type |-> "SelectData", serial |-> serial[c], steamId |-> player[c]]]
  <2>1. 1 \in Int /\ MaxClients \in Int
    BY ConstantsAssumption
  <2>2. IsFiniteSet(Slots)
    BY <2>1, FS_Interval DEF Slots
  <2>3. IsFiniteSet(S)
    BY <2>2, FS_Subset
  <2>4. IsFiniteSet({f[c] : c \in S})
    BY <2>3, ImageFinite
  <2>5. ops = {f[c] : c \in S}
    BY <1>1 DEF Init
  <2>6. QED
    BY <2>4, <2>5
<1>5. /\ queryQueue \in Seq(ops)
      /\ \A i, j \in DOMAIN queryQueue : queryQueue[i] = queryQueue[j] => i = j
  BY <1>4, AllMembers DEF PipelineInit
<1>6. /\ queryQueue \in Seq(Op)
      /\ \A i \in DOMAIN queryQueue : queryQueue[i] \in ops
  BY <1>3, <1>5
<1>7. hash \in [Names -> CookieIds] /\ scriptLoaded \in Scripts
  BY PipelineAssumption DEF PipelineInit
<1>8. GameTypes
  <2>1. resultQueue \in [Workers -> Seq(Result)]
    BY DEF PipelineInit
  <2>2. crashed \in BOOLEAN /\ hash \in Hashes
    BY DEF PipelineInit
  <2>3. QED
    BY <1>6, <1>7, <2>1, <2>2 DEF GameTypes
<1>9. ThreadTypes
  <2>1. NoAnswer \in [id : Keys, rows : Seq(AnyRow)]
    BY DEF NoAnswer, Keys
  <2>2. QED
    BY <2>1 DEF PipelineInit, ThreadTypes, NoAnswer
<1>10. RedisTypes
  BY <1>7 DEF PipelineInit, RedisTypes, Stored, Keys
<1>11. Placed
  <2>1. \A w \in Workers : running[w] = Idle /\ resultQueue[w] = <<>> /\ DOMAIN resultQueue[w] = {}
    BY DEF PipelineInit
  <2>2. Idle \notin ops
    BY <1>3, PipelineAssumption
  <2>3. QED
    BY <1>5, <1>6, <2>1, <2>2
       DEF Placed, QueuedExist, RunningExist, ResultsExist, QueuedOnce, RunningOnce,
           ResultsOnce, NotQueuedAndRunning, NotQueuedAndDone, NotRunningAndDone
<1>12. ResultsGood
  BY DEF PipelineInit, ResultsGood
<1>13. \A w \in Workers : ThreadOK(w)
  BY DEF PipelineInit, ThreadOK, Resting, NoAnswer, AllWrites
<1>14. QED
  BY <1>2, <1>4, <1>8, <1>9, <1>10, <1>11, <1>12, <1>13 DEF IInv

-----------------------------------------------------------------------------
(* The game thread's steps are steps of CookieManager.                     *)
LEMMA GameStepIsGame == GameStep => Server \/ Native
BY DEF GameStep, Server, Native

LEMMA FrameStepIsFrame ==
    ASSUME IInv, NEW w \in Workers, RunFrameStep(w)
    PROVE  /\ RunFrame
           /\ ops \ {Head(resultQueue[w]).op} \subseteq ops' /\ IsFiniteSet(ops')
<1> DEFINE r == Head(resultQueue[w])
<1>1. resultQueue[w] \in Seq(Result) /\ resultQueue[w] # <<>>
  BY DEF IInv, GameTypes, RunFrameStep
<1>2. r = resultQueue[w][1] /\ 1 \in DOMAIN resultQueue[w] /\ r \in Result
  BY <1>1
<1>3. r.op \in ops /\ GoodAnswer(r.op, r)
  BY <1>2 DEF IInv, Placed, ResultsExist, ResultsGood
<1>4. r.op \in Op /\ r.id \in Keys
  BY <1>2 DEF Result
<1>5. r.op.type = "SelectData" => r.op.steamId \in Players /\ r.rows \in Results(r.op.steamId)
  BY <1>3, <1>4, OpFields, RowsAreResults DEF GoodAnswer
<1>6. \/ InsertCookieCallback(r.op, r.id)
      \/ SelectIdCallback(r.op, r.id)
      \/ InsertDataDone(r.op)
      \/ ClientConnectCallback(r.op, r.rows)
  BY DEF RunFrameStep
<1> HIDE DEF r
<1>7. CASE InsertCookieCallback(r.op, r.id)
  <2>1. r.id \in CookieIds
    BY <1>3, <1>7 DEF GoodAnswer, InsertCookieCallback
  <2>2. RunFrame
    BY <1>3, <1>7, <2>1 DEF RunFrame
  <2>3. QED
    BY <1>3, <1>7, <2>2, FrameEndsOne DEF IInv, r
<1>8. CASE SelectIdCallback(r.op, r.id)
  <2>1. SelectIdCallback(r.op, -1)
    BY <1>3, <1>8 DEF GoodAnswer, SelectIdCallback
  <2>2. RunFrame
    BY <1>3, <2>1 DEF RunFrame
  <2>3. QED
    BY <1>3, <1>8, <2>2, FrameEndsOne DEF IInv, r
<1>9. CASE InsertDataDone(r.op)
  <2>1. RunFrame
    BY <1>3, <1>9 DEF RunFrame
  <2>2. QED
    BY <1>3, <1>9, <2>1, FrameEndsOne DEF IInv, r
<1>10. CASE ClientConnectCallback(r.op, r.rows)
  <2>1. r.op.type = "SelectData"
    BY <1>10 DEF ClientConnectCallback
  <2>2. RunFrame
    BY <1>3, <1>5, <1>10, <2>1 DEF RunFrame
  <2>3. QED
    BY <1>3, <1>5, <1>10, <2>1, <2>2, FrameEndsOne DEF IInv, r
<1>11. QED
  BY <1>6, <1>7, <1>8, <1>9, <1>10

LEMMA ManagerStep ==
    ASSUME ServedInv, OwnInv, [Next]_vars
    PROVE  ServedInv' /\ OwnInv'
<1>1. TypeOK'
  BY NextType DEF ServedInv
<1>2. QED
  BY <1>1, NextServed, NextOwn

-----------------------------------------------------------------------------
(* How the operations move.                                                *)

(* The game thread queues new ones behind the others; what is running and  *)
(* what came back stays, but for a result the frame completes.             *)
LEMMA PlacedGrows ==
    ASSUME GameTypes, ThreadTypes, Placed, ops \subseteq Op, ops' \subseteq Op,
           NEW new \in Seq(ops' \ ops),
           \A i, j \in DOMAIN new : new[i] = new[j] => i = j,
           queryQueue' = queryQueue \o new, running' = running,
           QueuedExist => \A i \in DOMAIN queryQueue : queryQueue[i] \in ops',
           \A w \in Workers : running[w] # Idle => running[w] \in ops',
           ResultsExist', ResultsOnce',
           \A w \in Workers : \A j \in DOMAIN resultQueue'[w] :
               \E i \in DOMAIN resultQueue[w] : resultQueue'[w][j] = resultQueue[w][i]
    PROVE  Placed' /\ queryQueue' \in Seq(Op)
<1> DEFINE L == Len(queryQueue)
           q == queryQueue'
<1>1. queryQueue \in Seq(Op) /\ L \in Nat /\ DOMAIN queryQueue = 1..L
  BY DEF GameTypes
<1>2. new \in Seq(Op) /\ Len(new) \in Nat /\ DOMAIN new = 1..Len(new)
  OBVIOUS
<1>3. /\ DOMAIN q = 1..(L + Len(new))
      /\ \A i \in 1..(L + Len(new)) : q[i] = IF i <= L THEN queryQueue[i] ELSE new[i - L]
  BY <1>1, <1>2, Concatenation
<1>4. q \in Seq(Op)
  BY <1>1, <1>2
<1> HIDE DEF q, L
<1>5. \A i \in DOMAIN q :
         \/ i \in DOMAIN queryQueue /\ q[i] = queryQueue[i] /\ q[i] \in ops /\ q[i] \in ops'
         \/ i - L \in DOMAIN new /\ q[i] = new[i - L] /\ q[i] \notin ops /\ q[i] \in ops'
  BY <1>1, <1>2, <1>3 DEF Placed, QueuedExist
<1>6. QueuedExist'
  BY <1>5 DEF QueuedExist, q
<1>7. QueuedOnce'
  <2>1. SUFFICES ASSUME NEW i \in DOMAIN q, NEW j \in DOMAIN q, q[i] = q[j] PROVE i = j
    BY DEF QueuedOnce, q
  <2>2. i \in Int /\ j \in Int /\ L \in Int
    BY <1>1, <1>2, <1>3
  <2>3. QED
    BY <1>5, <2>1, <2>2 DEF Placed, QueuedOnce
<1>8. RunningExist' /\ RunningOnce'
  BY DEF Placed, RunningExist, RunningOnce
<1>9. NotQueuedAndRunning'
  <2>1. SUFFICES ASSUME NEW i \in DOMAIN q, NEW w \in Workers, q[i] = running[w] PROVE FALSE
    BY DEF NotQueuedAndRunning, q
  <2>2. running[w] # Idle
    BY <1>5, <2>1, PipelineAssumption
  <2>3. QED
    BY <1>5, <2>1, <2>2 DEF Placed, NotQueuedAndRunning, RunningExist
<1>10. NotQueuedAndDone'
  <2>1. SUFFICES ASSUME NEW i \in DOMAIN q, NEW w \in Workers, NEW j \in DOMAIN resultQueue'[w],
                        q[i] = resultQueue'[w][j].op
                 PROVE  FALSE
    BY DEF NotQueuedAndDone, q
  <2>2. PICK k \in DOMAIN resultQueue[w] : resultQueue'[w][j] = resultQueue[w][k]
    OBVIOUS
  <2>3. QED
    BY <1>5, <2>1, <2>2 DEF Placed, NotQueuedAndDone, ResultsExist
<1>11. NotRunningAndDone'
  <2>1. SUFFICES ASSUME NEW w \in Workers, NEW x \in Workers, NEW j \in DOMAIN resultQueue'[x],
                        running[w] = resultQueue'[x][j].op
                 PROVE  FALSE
    BY DEF NotRunningAndDone
  <2>2. PICK k \in DOMAIN resultQueue[x] : resultQueue'[x][j] = resultQueue[x][k]
    OBVIOUS
  <2>3. QED
    BY <2>1, <2>2 DEF Placed, NotRunningAndDone
<1>12. QED
  BY <1>4, <1>6, <1>7, <1>8, <1>9, <1>10, <1>11 DEF Placed, q

LEMMA EnqueueNew ==
    ASSUME IsFiniteSet(ops'), Enqueue
    PROVE  \E new \in Seq(ops' \ ops) :
              /\ \A i, j \in DOMAIN new : new[i] = new[j] => i = j
              /\ queryQueue' = queryQueue \o new
<1>1. IsFiniteSet(ops' \ ops)
  BY FS_Subset
<1>2. PICK new \in SetToSeqs(ops' \ ops) : queryQueue' = queryQueue \o new
  BY DEF Enqueue
<1>3. /\ new \in Seq(ops' \ ops)
      /\ \A i, j \in DOMAIN new : new[i] = new[j] => i = j
  BY <1>1, AllMembers
<1>4. QED
  BY <1>2, <1>3

(* A thread takes the oldest queued operation.                             *)
LEMMA PlacedTaken ==
    ASSUME GameTypes, ThreadTypes, Placed, UNCHANGED <<ops, resultQueue>>,
           NEW w \in Workers, running[w] = Idle, queryQueue # <<>>,
           queryQueue' = Tail(queryQueue),
           running' = [running EXCEPT ![w] = Head(queryQueue)]
    PROVE  Placed' /\ queryQueue' \in Seq(Op)
<1> DEFINE L == Len(queryQueue)
           o == Head(queryQueue)
<1>1. queryQueue \in Seq(Op) /\ L \in Nat /\ L >= 1 /\ DOMAIN queryQueue = 1..L
  BY DEF GameTypes
<1>2. /\ o = queryQueue[1] /\ 1 \in DOMAIN queryQueue /\ o \in Op
      /\ queryQueue' \in Seq(Op) /\ DOMAIN queryQueue' = 1..(L - 1)
      /\ \A i \in 1..(L - 1) : queryQueue'[i] = queryQueue[i + 1]
  BY <1>1
<1>3. \A i \in DOMAIN queryQueue' :
         i + 1 \in DOMAIN queryQueue /\ i + 1 # 1 /\ queryQueue'[i] = queryQueue[i + 1]
  BY <1>1, <1>2
<1>4. /\ \A x \in Workers : running'[x] = IF x = w THEN o ELSE running[x]
      /\ o # Idle
  BY <1>2, PipelineAssumption DEF ThreadTypes
<1> HIDE DEF o, L
<1>5. QueuedExist'
  BY <1>3 DEF Placed, QueuedExist
<1>6. QueuedOnce'
  <2>1. SUFFICES ASSUME NEW i \in DOMAIN queryQueue', NEW j \in DOMAIN queryQueue',
                        queryQueue'[i] = queryQueue'[j]
                 PROVE  i = j
    BY DEF QueuedOnce
  <2>2. i + 1 = j + 1 /\ i \in Int /\ j \in Int
    BY <1>1, <1>2, <1>3, <2>1 DEF Placed, QueuedOnce
  <2>3. QED
    BY <2>2
<1>7. RunningExist' /\ ResultsExist' /\ ResultsOnce'
  BY <1>2, <1>4 DEF Placed, RunningExist, QueuedExist, ResultsExist, ResultsOnce
<1>8. RunningOnce'
  BY <1>2, <1>4 DEF Placed, RunningOnce, NotQueuedAndRunning
<1>9. NotQueuedAndRunning'
  BY <1>2, <1>3, <1>4 DEF Placed, NotQueuedAndRunning, QueuedOnce
<1>10. NotQueuedAndDone'
  BY <1>3 DEF Placed, NotQueuedAndDone
<1>11. NotRunningAndDone'
  BY <1>2, <1>4 DEF Placed, NotRunningAndDone, NotQueuedAndDone
<1>12. QED
  BY <1>2, <1>5, <1>6, <1>7, <1>8, <1>9, <1>10, <1>11 DEF Placed

(* A thread puts its operation behind its other results.                   *)
LEMMA PlacedDone ==
    ASSUME GameTypes, ThreadTypes, Placed, UNCHANGED <<ops, queryQueue>>,
           NEW w \in Workers, running[w] # Idle, NEW r \in Result, r.op = running[w],
           resultQueue' = [resultQueue EXCEPT ![w] = Append(@, r)],
           running' = [running EXCEPT ![w] = Idle]
    PROVE  Placed' /\ resultQueue' \in [Workers -> Seq(Result)]
<1> DEFINE L == Len(resultQueue[w])
<1>1. /\ resultQueue \in [Workers -> Seq(Result)]
      /\ resultQueue[w] \in Seq(Result) /\ L \in Nat /\ DOMAIN resultQueue[w] = 1..L
  BY DEF GameTypes
<1>2. /\ resultQueue' \in [Workers -> Seq(Result)]
      /\ resultQueue'[w] = Append(resultQueue[w], r)
      /\ \A x \in Workers \ {w} : resultQueue'[x] = resultQueue[x]
  BY <1>1
<1>3. /\ DOMAIN resultQueue'[w] = 1..(L + 1)
      /\ \A i \in 1..L : resultQueue'[w][i] = resultQueue[w][i]
      /\ resultQueue'[w][L + 1] = r
  BY <1>1, <1>2
<1>4. \A x \in Workers : \A i \in DOMAIN resultQueue'[x] :
         \/ i \in DOMAIN resultQueue[x] /\ resultQueue'[x][i] = resultQueue[x][i]
         \/ x = w /\ i = L + 1 /\ resultQueue'[x][i] = r
  BY <1>1, <1>2, <1>3
<1>5. \A x \in Workers : running'[x] = IF x = w THEN Idle ELSE running[x]
  BY DEF ThreadTypes
<1> HIDE DEF L
<1>6. QueuedExist' /\ QueuedOnce'
  BY DEF Placed, QueuedExist, QueuedOnce
<1>7. RunningExist' /\ RunningOnce'
  BY <1>5 DEF Placed, RunningExist, RunningOnce
<1>8. ResultsExist'
  BY <1>4 DEF Placed, ResultsExist, RunningExist
<1>9. ResultsOnce'
  BY <1>4 DEF Placed, ResultsOnce, NotRunningAndDone
<1>10. NotQueuedAndRunning'
  <2>1. \A i \in DOMAIN queryQueue : queryQueue[i] # Idle
    BY PipelineAssumption DEF GameTypes
  <2>2. QED
    BY <1>5, <2>1 DEF Placed, NotQueuedAndRunning
<1>11. NotQueuedAndDone'
  BY <1>4 DEF Placed, NotQueuedAndDone, NotQueuedAndRunning
<1>12. NotRunningAndDone'
  <2>1. SUFFICES ASSUME NEW v \in Workers, NEW x \in Workers, NEW j \in DOMAIN resultQueue'[x],
                        running'[v] = resultQueue'[x][j].op
                 PROVE  FALSE
    BY DEF NotRunningAndDone
  <2>2. resultQueue'[x][j].op \in Op
    <3>1. resultQueue'[x] \in Seq(Result)
      BY <1>2
    <3>2. resultQueue'[x][j] \in Result
      BY <3>1
    <3>3. QED
      BY <3>2 DEF Result
  <2>3. v # w /\ running'[v] = running[v] /\ running[v] # Idle
    BY <1>5, <2>1, <2>2, PipelineAssumption
  <2>4. QED
    BY <1>4, <2>1, <2>3 DEF Placed, NotRunningAndDone, RunningOnce
<1>13. QED
  BY <1>2, <1>6, <1>7, <1>8, <1>9, <1>10, <1>11, <1>12 DEF Placed

-----------------------------------------------------------------------------
(* The game thread's steps.                                                *)
LEMMA ThreadUntouched ==
    ASSUME NEW w \in Workers, ThreadOK(w),
           running'[w] = running[w], awaits'[w] = awaits[w], left'[w] = left[w],
           answer'[w] = answer[w], pipe'[w] = pipe[w], reply'[w] = reply[w]
    PROVE  ThreadOK(w)'
<1>1. Resting(w) => Resting(w)'
  BY DEF Resting, AllWrites
<1>2. Answered(w) => Answered(w)'
  BY DEF Answered, AllWrites, GoodAnswer, DistinctRows
<1>3. AsksForId(w) => AsksForId(w)'
  BY DEF AsksForId, Asked, EndsWith
<1>4. RunsScript(w) => RunsScript(w)'
  BY DEF RunsScript, Loads, Asked, EndsWith
<1>5. AsksForKeys(w) => AsksForKeys(w)'
  BY DEF AsksForKeys, Loads, Asked, EndsWith
<1>6. SlowPath(w) => SlowPath(w)'
  BY DEF SlowPath, DistinctRows
<1>7. AsksForKeyId(w) => AsksForKeyId(w)'
  BY <1>6 DEF AsksForKeyId, Loads, Asked, EndsWith
<1>8. AsksForValue(w) => AsksForValue(w)'
  BY <1>6 DEF AsksForValue, ValueAsked, Loads
<1>9. QED
  BY <1>1, <1>2, <1>3, <1>4, <1>5, <1>7, <1>8 DEF ThreadOK

LEMMA GameStepKeeps ==
    ASSUME IInv, GameStep
    PROVE  IInv'
<1>1. Server \/ Native
  BY GameStepIsGame
<1>2. ServedInv' /\ OwnInv'
  BY <1>1, ManagerStep DEF IInv, Next
<1>3. TypeOK /\ ops \subseteq Op /\ ops' \subseteq Op
  BY <1>2 DEF IInv, ServedInv, TypeOK
<1>4. ops \subseteq ops' /\ IsFiniteSet(ops')
  BY <1>1, <1>3, GameAddsOps DEF IInv
<1>5. UNCHANGED <<given, threadVars, resultQueue, crashed, redisVars>> /\ Enqueue
  BY DEF GameStep
<1>6. /\ UNCHANGED <<hash, scriptLoaded, resultQueue, crashed>>
      /\ UNCHANGED <<running, awaits, left, answer, pipe, reply>>
      /\ UNCHANGED <<ids, listed, described, stored>>
  BY <1>5 DEF given, threadVars, redisVars
<1>7. PICK new \in Seq(ops' \ ops) :
         /\ \A i, j \in DOMAIN new : new[i] = new[j] => i = j
         /\ queryQueue' = queryQueue \o new
  BY <1>4, <1>5, EnqueueNew
<1>8. Placed' /\ queryQueue' \in Seq(Op)
  <2>1. GameTypes /\ ThreadTypes /\ Placed
    BY DEF IInv
  <2>2. QueuedExist => \A i \in DOMAIN queryQueue : queryQueue[i] \in ops'
    BY <1>4 DEF QueuedExist
  <2>3. \A w \in Workers : running[w] # Idle => running[w] \in ops'
    BY <1>4, <2>1 DEF Placed, RunningExist
  <2>4. ResultsExist'
    BY <1>4, <1>6, <2>1 DEF Placed, ResultsExist
  <2>5. ResultsOnce'
    BY <1>6, <2>1 DEF Placed, ResultsOnce
  <2>6. \A w \in Workers : \A j \in DOMAIN resultQueue'[w] :
           \E i \in DOMAIN resultQueue[w] : resultQueue'[w][j] = resultQueue[w][i]
    BY <1>6
  <2>7. QED
    BY <1>3, <1>6, <1>7, <2>1, <2>2, <2>3, <2>4, <2>5, <2>6, PlacedGrows
<1>9. GameTypes' /\ ThreadTypes' /\ RedisTypes' /\ ResultsGood'
  BY <1>6, <1>8 DEF IInv, GameTypes, ThreadTypes, RedisTypes, ResultsGood
<1>10. \A w \in Workers : ThreadOK(w)'
  BY <1>6, ThreadUntouched DEF IInv
<1>11. QED
  BY <1>2, <1>4, <1>8, <1>9, <1>10 DEF IInv

LEMMA FrameStepKeeps ==
    ASSUME IInv, NEW w \in Workers, RunFrameStep(w)
    PROVE  IInv'
<1> DEFINE r == Head(resultQueue[w])
           L == Len(resultQueue[w])
<1>1. RunFrame /\ ops \ {r.op} \subseteq ops' /\ IsFiniteSet(ops')
  BY FrameStepIsFrame
<1>2. ServedInv' /\ OwnInv'
  BY <1>1, ManagerStep DEF IInv, Next
<1>3. ops \subseteq Op /\ ops' \subseteq Op
  BY <1>2 DEF IInv, ServedInv, TypeOK
<1>4. /\ UNCHANGED <<given, threadVars, crashed, redisVars>> /\ Enqueue
      /\ resultQueue[w] # <<>> /\ resultQueue' = [resultQueue EXCEPT ![w] = Tail(@)]
  BY DEF RunFrameStep
<1>5. /\ UNCHANGED <<hash, scriptLoaded, crashed>>
      /\ UNCHANGED <<running, awaits, left, answer, pipe, reply>>
      /\ UNCHANGED <<ids, listed, described, stored>>
  BY <1>4 DEF given, threadVars, redisVars
<1>6. PICK new \in Seq(ops' \ ops) :
         /\ \A i, j \in DOMAIN new : new[i] = new[j] => i = j
         /\ queryQueue' = queryQueue \o new
  BY <1>1, <1>4, EnqueueNew
<1>7. GameTypes /\ ThreadTypes /\ Placed /\ ResultsGood
  BY DEF IInv
<1>8. /\ resultQueue \in [Workers -> Seq(Result)] /\ resultQueue[w] \in Seq(Result)
      /\ L \in Nat /\ L >= 1 /\ DOMAIN resultQueue[w] = 1..L /\ r = resultQueue[w][1]
  BY <1>4, <1>7 DEF GameTypes
<1>9. /\ resultQueue' \in [Workers -> Seq(Result)]
      /\ DOMAIN resultQueue'[w] = 1..(L - 1)
      /\ \A i \in 1..(L - 1) : resultQueue'[w][i] = resultQueue[w][i + 1]
      /\ \A x \in Workers \ {w} : resultQueue'[x] = resultQueue[x]
  BY <1>4, <1>8
<1> DEFINE from(x, i) == IF x = w THEN i + 1 ELSE i
<1>10. \A x \in Workers : \A i \in DOMAIN resultQueue'[x] :
          /\ from(x, i) \in DOMAIN resultQueue[x]
          /\ resultQueue'[x][i] = resultQueue[x][from(x, i)]
          /\ x = w => from(x, i) # 1
  BY <1>8, <1>9
<1>11. \A x \in Workers : \A i, j \in DOMAIN resultQueue'[x] : from(x, i) = from(x, j) => i = j
  BY <1>8, <1>9
<1>12. 1 \in DOMAIN resultQueue[w]
  BY <1>8
<1> HIDE DEF r, L, from
<1>13. \A x \in Workers : \A i \in DOMAIN resultQueue'[x] : resultQueue'[x][i].op # r.op
  BY <1>7, <1>8, <1>10, <1>12 DEF Placed, ResultsOnce
<1>14. ResultsExist'
  BY <1>1, <1>7, <1>10, <1>13 DEF Placed, ResultsExist
<1>15. ResultsOnce'
  BY <1>7, <1>10, <1>11 DEF Placed, ResultsOnce
<1>16. Placed' /\ queryQueue' \in Seq(Op)
  <2>1. QueuedExist => \A i \in DOMAIN queryQueue : queryQueue[i] \in ops'
    BY <1>1, <1>7, <1>8, <1>12 DEF QueuedExist, Placed, NotQueuedAndDone
  <2>2. \A x \in Workers : running[x] # Idle => running[x] \in ops'
    BY <1>1, <1>7, <1>8, <1>12 DEF Placed, RunningExist, NotRunningAndDone
  <2>3. \A x \in Workers : \A j \in DOMAIN resultQueue'[x] :
           \E i \in DOMAIN resultQueue[x] : resultQueue'[x][j] = resultQueue[x][i]
    BY <1>10
  <2>4. QED
    BY <1>3, <1>5, <1>6, <1>7, <1>14, <1>15, <2>1, <2>2, <2>3, PlacedGrows
<1>17. GameTypes' /\ ThreadTypes' /\ RedisTypes'
  BY <1>5, <1>9, <1>16 DEF IInv, GameTypes, ThreadTypes, RedisTypes
<1>18. ResultsGood'
  BY <1>7, <1>10 DEF ResultsGood
<1>19. \A x \in Workers : ThreadOK(x)'
  BY <1>5, ThreadUntouched DEF IInv
<1>20. QED
  BY <1>1, <1>2, <1>16, <1>17, <1>18, <1>19 DEF IInv

-----------------------------------------------------------------------------
(* Commands on their way.                                                  *)
LEMMA WritesAppended ==
    ASSUME NEW s \in Seq(Read \cup Write), NEW t \in Seq(Read \cup Write),
           AllWrites(s), AllWrites(t)
    PROVE  AllWrites(s \o t) /\ s \o t \in Seq(Read \cup Write)
<1>1. /\ DOMAIN s = 1..Len(s) /\ DOMAIN t = 1..Len(t) /\ Len(s) \in Nat /\ Len(t) \in Nat
  OBVIOUS
<1>2. QED
  BY <1>1, Concatenation DEF AllWrites

LEMMA QueryAppended ==
    ASSUME NEW s \in Seq(Read \cup Write), NEW c \in Read \cup Write, AllWrites(s)
    PROVE  EndsWith(s \o <<c>>, c) /\ s \o <<c>> \in Seq(Read \cup Write)
<1> DEFINE t == s \o <<c>>
<1>1. t = Append(s, c) /\ t \in Seq(Read \cup Write)
  OBVIOUS
<1>2. /\ Len(t) = Len(s) + 1 /\ Len(s) \in Nat /\ t[Len(s) + 1] = c
      /\ \A i \in 1..Len(s) : t[i] = s[i]
      /\ DOMAIN s = 1..Len(s)
  BY <1>1
<1>3. QED
  BY <1>1, <1>2 DEF EndsWith, AllWrites

LEMMA HeadAndTail ==
    ASSUME NEW s \in Seq(Read \cup Write), s # <<>>
    PROVE  /\ Head(s) \in Read \cup Write /\ Tail(s) \in Seq(Read \cup Write)
           /\ AllWrites(s) => Head(s) \in Write /\ AllWrites(Tail(s))
           /\ \A c : EndsWith(s, c) =>
                \/ Head(s) = c /\ Tail(s) = <<>>
                \/ Head(s) \in Write /\ EndsWith(Tail(s), c)
<1> DEFINE L == Len(s)
           t == Tail(s)
<1>1. /\ L \in Nat /\ L >= 1 /\ DOMAIN s = 1..L /\ Head(s) = s[1] /\ s[1] \in Read \cup Write
      /\ t \in Seq(Read \cup Write) /\ Len(t) = L - 1 /\ DOMAIN t = 1..(L - 1)
      /\ \A i \in 1..(L - 1) : t[i] = s[i + 1]
  OBVIOUS
<1>2. AllWrites(s) => Head(s) \in Write /\ AllWrites(Tail(s))
  BY <1>1 DEF AllWrites
<1>3. ASSUME NEW c, EndsWith(s, c)
      PROVE  \/ Head(s) = c /\ Tail(s) = <<>>
             \/ Head(s) \in Write /\ EndsWith(Tail(s), c)
  <2>1. CASE L = 1
    BY <1>1, <1>3, <2>1 DEF EndsWith
  <2>2. CASE L > 1
    <3>1. t # <<>> /\ t[Len(t)] = c
      BY <1>1, <1>3, <2>2 DEF EndsWith
    <3>2. \A i \in 1 .. Len(t) - 1 : t[i] \in Write
      BY <1>1, <1>3, <2>2 DEF EndsWith
    <3>3. Head(s) \in Write
      BY <1>1, <1>3, <2>2 DEF EndsWith
    <3>4. QED
      BY <3>1, <3>2, <3>3 DEF EndsWith
  <2>3. QED
    BY <1>1, <2>1, <2>2
<1>4. QED
  BY <1>1, <1>2, <1>3

(* No command is both read and written.                                    *)
LEMMA ReadOrWrite ==
    /\ \A c \in Write : c.cmd \in {"SADD", "SET desc", "SET id", "SET value"}
    /\ \A c \in Read : c.cmd \in {"GET id", "GET desc", "GET value", "KEYS", "EVALSHA"}
BY DEF Read, Write, OwnSave

(* What the threads send.                                                  *)
LEMMA Commands ==
    /\ \A n \in Names : GetId(n) \in Read /\ GetDesc(n) \in Read
    /\ \A p \in Players : EvalSha(p) \in Read
    /\ \A p \in Players, id \in CookieIds : GetValue(p, id) \in Read
    /\ GetKeys \in Read
    /\ \A n \in Names : AddToList(n) \in Write /\ SetDesc(n) \in Write
    /\ \A n \in Names, id \in CookieIds : SetId(n, id) \in Write
    /\ \A p \in Players, id \in Int : \A v \in Stored(p) : SetValue(p, id, v) \in Write
<1>1. \A p : Stored(p) \subseteq Value \cup {Empty}
  BY DEF Stored
<1>2. QED
  BY <1>1 DEF Read, Write, OwnSave, GetId, GetDesc, EvalSha, GetValue, GetKeys, AddToList,
              SetDesc, SetId, SetValue

(* What Redis answers.                                                     *)
LEMMA GoodReplies ==
    ASSUME RedisTypes
    PROVE  /\ \A n \in Names : Answers(GetId(n)) \subseteq IdReplies
           /\ \A n \in Names : Answers(GetDesc(n)) \subseteq BOOLEAN
           /\ \A p \in Players, id \in CookieIds : Answers(GetValue(p, id)) \subseteq Stored(p)
           /\ Answers(GetKeys) \subseteq KeyLists
           /\ \A p \in Players : Answers(EvalSha(p)) \subseteq {Nil} \cup Entries(p)
<1>1. ASSUME NEW n \in Names PROVE Answers(GetId(n)) \subseteq IdReplies
  BY DEF Answers, GetId, IdReplies, RedisTypes
<1>2. ASSUME NEW n \in Names PROVE Answers(GetDesc(n)) \subseteq BOOLEAN
  BY DEF Answers, GetDesc
<1>3. ASSUME NEW p \in Players, NEW id \in CookieIds
      PROVE  Answers(GetValue(p, id)) \subseteq Stored(p)
  BY DEF Answers, GetValue, Keys, RedisTypes
<1>4. Answers(GetKeys) \subseteq KeyLists
  <2>1. Known \subseteq Names
    BY DEF Known
  <2>2. IsFiniteSet(Known)
    BY <2>1, PipelineAssumption, FS_Subset
  <2>3. \A k \in SetToSeqs(Known) : k \in KeyLists
    BY <2>1, <2>2, AllMembers DEF KeyLists
  <2>4. Answers(GetKeys) = SetToSeqs(Known)
    BY DEF Answers, GetKeys
  <2>5. QED
    BY <2>3, <2>4
<1>5. ASSUME NEW p \in Players PROVE Answers(EvalSha(p)) \subseteq {Nil} \cup Entries(p)
  <2> DEFINE S == listed \cap Known
             f == [n \in S |-> [name |-> n, value |-> stored[p][ids[n]],
                                 desc |-> n \in described]]
             Entry == [name : Names, value : Stored(p), desc : BOOLEAN]
  <2>1. S \subseteq Names
    BY DEF Known
  <2>2. IsFiniteSet(S)
    BY <2>1, PipelineAssumption, FS_Subset
  <2>3. ScriptRows(p) = {f[n] : n \in S}
    BY DEF ScriptRows
  <2>4. IsFiniteSet({f[n] : n \in S})
    BY <2>2, ImageFinite
  <2>5. \A n \in S : f[n] \in Entry /\ f[n].name = n
    BY <2>1 DEF Known, RedisTypes, Keys
  <2>6. /\ ScriptRows(p) \subseteq Entry
        /\ \A a, b \in ScriptRows(p) : a.name = b.name => a = b
        /\ IsFiniteSet(ScriptRows(p))
    <3> HIDE DEF S, f, Entry
    <3>1. IsFiniteSet(ScriptRows(p))
      BY <2>3, <2>4
    <3>2. ScriptRows(p) \subseteq Entry
      BY <2>3, <2>5
    <3>3. \A a, b \in ScriptRows(p) : a.name = b.name => a = b
      BY <2>3, <2>5
    <3>4. QED
      BY <3>1, <3>2, <3>3
  <2> HIDE DEF S, f, Entry
  <2>7. ASSUME NEW e \in SetToSeqs(ScriptRows(p)) PROVE e \in Entries(p)
    <3>1. e \in Seq(ScriptRows(p)) /\ \A i, j \in DOMAIN e : e[i] = e[j] => i = j
      BY <2>6, AllMembers
    <3>2. e \in Seq(Entry) /\ \A i \in DOMAIN e : e[i] \in ScriptRows(p)
      BY <2>6, <3>1
    <3>3. DistinctRows(e)
      BY <2>6, <3>1, <3>2 DEF DistinctRows
    <3>4. QED
      BY <3>2, <3>3 DEF Entries, Entry
  <2>8. Answers(EvalSha(p)) = IF scriptLoaded THEN SetToSeqs(ScriptRows(p)) ELSE {Nil}
    BY DEF Answers, EvalSha
  <2>9. QED
    BY <2>7, <2>8
<1>6. QED
  BY <1>1, <1>2, <1>3, <1>4, <1>5

-----------------------------------------------------------------------------
(* GetQuery and what is sent first.                                        *)
LEMMA TakeKeeps ==
    ASSUME IInv, NEW w \in Workers, Take(w)
    PROVE  IInv'
<1> DEFINE o == Head(queryQueue)
<1>1. GameTypes /\ ThreadTypes /\ RedisTypes /\ Placed /\ ResultsGood /\ TypeOK /\ ThreadOK(w)
  BY DEF IInv, ServedInv
<1>2. /\ running[w] = Idle /\ queryQueue # <<>> /\ queryQueue' = Tail(queryQueue)
      /\ running' = [running EXCEPT ![w] = o]
      /\ UNCHANGED <<vars, given, left, answer, resultQueue, crashed, redisVars>>
  BY DEF Take
<1>3. ServedInv' /\ OwnInv' /\ ops' = ops
  BY <1>2, ManagerStep DEF IInv, vars
<1>4. Placed' /\ queryQueue' \in Seq(Op)
  BY <1>1, <1>2, <1>3, PlacedTaken
<1>5. o \in ops /\ o \in Op /\ o # Idle
  <2>1. o = queryQueue[1] /\ 1 \in DOMAIN queryQueue
    BY <1>1, <1>2 DEF GameTypes
  <2>2. QED
    BY <1>1, <2>1, PipelineAssumption DEF Placed, QueuedExist, TypeOK
<1>6. GameTypes' /\ RedisTypes' /\ ResultsGood'
  BY <1>1, <1>2, <1>4 DEF GameTypes, RedisTypes, ResultsGood, given, redisVars
<1>7. answer[w] = NoAnswer /\ AllWrites(pipe[w]) /\ pipe[w] \in Seq(Read \cup Write)
  BY <1>1, <1>2 DEF ThreadTypes, ThreadOK, Resting, Answered, AsksForId, RunsScript, AsksForKeys,
                    AsksForKeyId, AsksForValue, Loads
<1> HIDE DEF o
<1>8. ASSUME NEW cs \in Seq(Read \cup Write), NEW what \in {"id", "script", "done"},
             Send(w, cs, what)
      PROVE  /\ ThreadTypes'
             /\ running'[w] = o /\ answer'[w] = NoAnswer
             /\ pipe'[w] = pipe[w] \o cs /\ awaits'[w] = what /\ reply'[w] = <<>>
             /\ \A x \in Workers \ {w} : ThreadOK(x)'
  <2>1. pipe[w] \o cs \in Seq(Read \cup Write)
    BY <1>7, <1>8
  <2>2. /\ running' \in [Workers -> Op \cup {Idle}]
        /\ awaits' \in [Workers -> {"id", "script", "keys", "value", "done"}]
        /\ pipe' \in [Workers -> Seq(Read \cup Write)]
        /\ DOMAIN reply' = Workers /\ left' = left /\ answer' = answer
    BY <1>1, <1>2, <1>5, <1>8, <2>1 DEF Send, ThreadTypes
  <2>3. /\ running'[w] = o /\ pipe'[w] = pipe[w] \o cs
        /\ awaits'[w] = what /\ reply'[w] = <<>>
    BY <1>1, <1>2, <1>8 DEF Send, ThreadTypes
  <2>4. \A x \in Workers \ {w} :
           /\ running'[x] = running[x] /\ pipe'[x] = pipe[x]
           /\ awaits'[x] = awaits[x] /\ reply'[x] = reply[x]
    BY <1>1, <1>2, <1>8 DEF Send, ThreadTypes
  <2>5. \A x \in Workers \ {w} : ThreadOK(x)'
    BY <2>2, <2>4, ThreadUntouched DEF IInv
  <2>6. QED
    BY <1>1, <1>7, <2>2, <2>3, <2>5 DEF ThreadTypes
<1>9. CASE o.type \in {"InsertCookie", "SelectId"} /\ Send(w, <<GetId(o.cookie)>>, "id")
  <2>1. GetId(o.cookie) \in Read
    BY <1>5, <1>9, OpFields, Commands
  <2>2. <<GetId(o.cookie)>> \in Seq(Read \cup Write)
    BY <2>1
  <2>3. EndsWith(pipe[w] \o <<GetId(o.cookie)>>, GetId(o.cookie))
    BY <1>7, <2>1, QueryAppended
  <2>4. AsksForId(w)'
    BY <1>5, <1>8, <1>9, <2>2, <2>3 DEF AsksForId, Asked, GetId
  <2>5. QED
    BY <1>3, <1>4, <1>6, <1>8, <1>9, <2>2, <2>4 DEF IInv, ThreadOK
<1>10. CASE o.type = "SelectData" /\ Send(w, <<EvalSha(o.steamId)>>, "script")
  <2>1. EvalSha(o.steamId) \in Read
    BY <1>5, <1>10, OpFields, Commands
  <2>2. <<EvalSha(o.steamId)>> \in Seq(Read \cup Write)
    BY <2>1
  <2>3. EndsWith(pipe[w] \o <<EvalSha(o.steamId)>>, EvalSha(o.steamId))
    BY <1>7, <2>1, QueryAppended
  <2>4. RunsScript(w)'
    <3>1. /\ running'[w] = o /\ awaits'[w] = "script" /\ answer'[w] = NoAnswer
          /\ reply'[w] = <<>> /\ pipe'[w] = pipe[w] \o <<EvalSha(o.steamId)>>
      BY <1>8, <1>10, <2>2
    <3>2. EndsWith(pipe'[w], EvalSha(running'[w].steamId))
      BY <2>3, <3>1
    <3>3. Asked(w, EvalSha(running[w].steamId), {Nil} \cup Entries(running[w].steamId))'
      BY <3>1, <3>2 DEF Asked, EndsWith, EvalSha
    <3>4. Loads(w)'
      BY <1>5, <1>10, <3>1 DEF Loads
    <3>5. QED
      BY <3>1, <3>3, <3>4 DEF RunsScript
  <2>5. QED
    BY <1>3, <1>4, <1>6, <1>8, <1>10, <2>2, <2>4 DEF IInv, ThreadOK
<1>11. CASE /\ o.type = "InsertData"
            /\ Send(w, <<SetValue(o.steamId, o.cookieId, o.value)>>, "done")
  <2> DEFINE c == SetValue(o.steamId, o.cookieId, o.value)
  <2>1. c \in Write
    BY <1>1, <1>5, <1>11, SavesOwn, Commands DEF IInv
  <2> HIDE DEF c
  <2>2. <<c>> \in Seq(Read \cup Write) /\ AllWrites(<<c>>)
    BY <2>1 DEF AllWrites
  <2>3. AllWrites(pipe[w] \o <<c>>)
    BY <1>7, <2>2, WritesAppended
  <2>4. Send(w, <<c>>, "done")
    BY <1>11 DEF c
  <2>5. Answered(w)'
    BY <1>5, <1>8, <1>11, <2>2, <2>3, <2>4 DEF Answered, GoodAnswer
  <2>6. QED
    BY <1>3, <1>4, <1>6, <1>8, <2>2, <2>4, <2>5 DEF IInv, ThreadOK
<1>12. QED
  BY <1>9, <1>10, <1>11 DEF Take, o

-----------------------------------------------------------------------------
(* Redis executes a command.                                               *)
LEMMA WriteExecuted ==
    ASSUME RedisTypes, NEW w \in Workers, Execute(w), Head(pipe[w]) \in Write
    PROVE  reply' = reply /\ RedisTypes'
<1> DEFINE c == Head(pipe[w])
<1>1. c.cmd \in {"SADD", "SET desc", "SET id", "SET value"}
  BY ReadOrWrite
<1>2. c \in Write
  OBVIOUS
<1> HIDE DEF c
<1>3. CASE c.cmd \in {"SADD", "SET desc"}
  <2>1. c.name \in Names
    BY <1>2, <1>3 DEF Write, OwnSave
  <2>2. QED
    BY <1>3, <2>1 DEF Execute, RedisTypes, c
<1>4. CASE c.cmd = "SET id"
  <2>1. c.name \in Names /\ c.id \in CookieIds
    BY <1>2, <1>4 DEF Write, OwnSave
  <2>2. /\ ids' = [ids EXCEPT ![c.name] = c.id]
        /\ UNCHANGED <<listed, described, stored, reply>>
    BY <1>4 DEF Execute, c
  <2>3. QED
    BY <2>1, <2>2 DEF RedisTypes
<1>5. CASE c.cmd = "SET value"
  <2>1. c.steamId \in Players /\ c.value \in Stored(c.steamId)
    BY <1>2, <1>5 DEF Write, OwnSave
  <2>2. /\ stored' = [stored EXCEPT ![c.steamId][c.id] = c.value]
        /\ UNCHANGED <<ids, listed, described, reply>>
    BY <1>5 DEF Execute, c
  <2>3. c.value \in Value \cup {Empty}
    BY <2>1 DEF Stored
  <2>4. stored' \in [Players -> [Keys -> Value \cup {Empty}]]
    BY <2>1, <2>2, <2>3 DEF RedisTypes
  <2>5. ASSUME NEW p \in Players, NEW k \in Keys PROVE stored'[p][k] \in Stored(p)
    <3>1. CASE p = c.steamId /\ k = c.id
      BY <2>1, <2>2, <3>1 DEF RedisTypes
    <3>2. CASE ~(p = c.steamId /\ k = c.id)
      BY <2>1, <2>2, <3>2 DEF RedisTypes
    <3>3. QED
      BY <3>1, <3>2
  <2>6. QED
    BY <2>2, <2>4, <2>5 DEF RedisTypes
<1>6. QED
  BY <1>1, <1>3, <1>4, <1>5

LEMMA ReadExecuted ==
    ASSUME RedisTypes, NEW w \in Workers, Execute(w), Head(pipe[w]) \in Read
    PROVE  /\ \E a \in Answers(Head(pipe[w])) : reply' = [reply EXCEPT ![w] = Append(@, a)]
           /\ RedisTypes'
           /\ UNCHANGED <<ids, described, stored>>
<1> DEFINE c == Head(pipe[w])
<1>1. c.cmd \in {"GET id", "GET desc", "GET value", "KEYS", "EVALSHA"}
  BY ReadOrWrite
<1>2. /\ \E a \in Answers(c) : reply' = [reply EXCEPT ![w] = Append(@, a)]
      /\ listed' = IF c.cmd = "EVALSHA" /\ scriptLoaded THEN listed \cap Known ELSE listed
      /\ UNCHANGED <<ids, described, stored>>
  BY <1>1 DEF Execute
<1>3. listed' \subseteq Names
  BY <1>2 DEF RedisTypes
<1>4. QED
  BY <1>2, <1>3 DEF RedisTypes

LEMMA TwoReplies == ASSUME NEW v, NEW d PROVE Append(<<v>>, d) = <<v, d>>
<1> DEFINE S == {v, d}
           t == Append(<<v>>, d)
           u == <<v, d>>
<1>1. <<v>> \in Seq(S) /\ Len(<<v>>) = 1 /\ d \in S
  OBVIOUS
<1>2. t \in [1..2 -> S] /\ t[1] = v /\ t[2] = d
  <2>1. PICK r \in Seq(S) : r = <<v>> /\ Len(r) = 1 /\ r[1] = v
    BY <1>1
  <2>2. /\ Append(r, d) \in Seq(S) /\ Len(Append(r, d)) = 2
        /\ Append(r, d)[1] = v /\ Append(r, d)[2] = d
    BY <1>1, <2>1
  <2>3. t \in Seq(S) /\ Len(t) = 2 /\ t[1] = v /\ t[2] = d
    BY <2>1, <2>2
  <2> HIDE DEF t
  <2>4. t \in [1..2 -> S]
    BY <2>3
  <2>5. QED
    BY <2>3, <2>4
<1>3. u \in [1..2 -> S] /\ u[1] = v /\ u[2] = d
  OBVIOUS
<1> HIDE DEF t, u
<1>4. \A i \in 1..2 : t[i] = u[i]
  BY <1>2, <1>3
<1>5. t = u
  BY <1>2, <1>3, <1>4
<1>6. QED
  BY <1>5 DEF t, u

LEMMA ExecuteKeeps ==
    ASSUME IInv, NEW w \in Workers, Execute(w)
    PROVE  IInv'
<1> DEFINE s == pipe[w]
           c == Head(pipe[w])
<1>1. GameTypes /\ ThreadTypes /\ RedisTypes /\ Placed /\ ResultsGood /\ TypeOK /\ ThreadOK(w)
  BY DEF IInv, ServedInv
<1>2. /\ s # <<>> /\ pipe' = [pipe EXCEPT ![w] = Tail(@)]
      /\ UNCHANGED <<vars, given, queryQueue, running, awaits, left, answer, resultQueue,
                     crashed, saved>>
  BY DEF Execute
<1>3. ServedInv' /\ OwnInv' /\ ops' = ops
  BY <1>2, ManagerStep DEF IInv, vars
<1>4. GameTypes' /\ Placed' /\ ResultsGood'
  <2>1. UNCHANGED <<hash, scriptLoaded, queryQueue, resultQueue, crashed, running, ops>>
    BY <1>2, <1>3 DEF given
  <2>2. GameTypes' /\ ResultsGood'
    BY <1>1, <2>1 DEF GameTypes, ResultsGood
  <2>3. Placed'
    BY <1>1, <2>1
       DEF Placed, QueuedExist, RunningExist, ResultsExist, QueuedOnce, RunningOnce,
           ResultsOnce, NotQueuedAndRunning, NotQueuedAndDone, NotRunningAndDone
  <2>4. QED
    BY <2>2, <2>3
<1>5. s \in Seq(Read \cup Write)
  BY <1>1 DEF ThreadTypes
<1>6. c \in Read \cup Write /\ Tail(s) \in Seq(Read \cup Write)
  BY <1>2, <1>5, HeadAndTail
<1>7. /\ pipe' \in [Workers -> Seq(Read \cup Write)] /\ pipe'[w] = Tail(s)
      /\ \A x \in Workers \ {w} : pipe'[x] = pipe[x]
  BY <1>1, <1>2, <1>6 DEF ThreadTypes
<1> HIDE DEF s, c
<1>8. /\ c \in Write => reply' = reply
      /\ c \in Read => \E a \in Answers(c) : reply' = [reply EXCEPT ![w] = Append(@, a)]
      /\ RedisTypes'
  BY <1>1, <1>6, WriteExecuted, ReadExecuted DEF c
<1>9. /\ DOMAIN reply = Workers /\ DOMAIN reply' = Workers
      /\ \A x \in Workers \ {w} : reply'[x] = reply[x]
      /\ c \in Write => reply'[w] = reply[w]
      /\ c \in Read => \E a \in Answers(c) : reply'[w] = Append(reply[w], a)
  BY <1>1, <1>6, <1>8 DEF ThreadTypes
<1>10. ThreadTypes'
  BY <1>1, <1>2, <1>7, <1>9 DEF ThreadTypes
<1>11. \A x \in Workers \ {w} : ThreadOK(x)'
  BY <1>2, <1>7, <1>9, ThreadUntouched DEF IInv
<1>12. AllWrites(pipe[w]) => AllWrites(pipe[w])'
  BY <1>2, <1>5, <1>7, HeadAndTail DEF s, AllWrites
<1>13. ASSUME NEW q \in Read, NEW good, Answers(q) \subseteq good,
              reply[w] = <<>> /\ EndsWith(pipe[w], q)
       PROVE  \/ reply'[w] = <<>> /\ EndsWith(pipe'[w], q)
              \/ pipe'[w] = <<>> /\ \E a \in good : reply'[w] = <<a>>
  <2>1. CASE c = q /\ Tail(s) = <<>>
    <3>1. PICK a \in Answers(q) : reply'[w] = Append(reply[w], a)
      BY <1>9, <1>13, <2>1
    <3>2. reply'[w] = <<a>> /\ a \in good
      BY <1>13, <3>1
    <3>3. QED
      BY <1>7, <2>1, <3>2
  <2>2. CASE c \in Write /\ EndsWith(Tail(s), q)
    BY <1>7, <1>9, <1>13, <2>2
  <2>3. QED
    BY <1>2, <1>5, <1>13, <2>1, <2>2, HeadAndTail DEF s, c
<1>14. CASE Resting(w) \/ Answered(w)
  <2>1. Resting(w)' \/ Answered(w)'
    BY <1>2, <1>12, <1>14 DEF Resting, Answered, GoodAnswer, DistinctRows
  <2>2. QED
    BY <1>3, <1>4, <1>8, <1>10, <1>11, <2>1 DEF IInv, ThreadOK
<1>15. running[w] # Idle => running[w] \in Op
  BY <1>1 DEF ThreadTypes
<1>16. CASE AsksForId(w)
  <2>1. PICK q : q = GetId(running[w].cookie)
    OBVIOUS
  <2>2. q \in Read /\ Answers(q) \subseteq IdReplies
    BY <1>1, <1>15, <1>16, <2>1, OpFields, Commands, GoodReplies DEF AsksForId
  <2>3. reply[w] = <<>> /\ EndsWith(pipe[w], q)
    BY <1>2, <1>16, <2>1 DEF AsksForId, Asked, s
  <2>4. \/ reply'[w] = <<>> /\ EndsWith(pipe'[w], q)
        \/ pipe'[w] = <<>> /\ \E a \in IdReplies : reply'[w] = <<a>>
    BY <1>13, <2>2, <2>3
  <2>5. AsksForId(w)'
    BY <1>2, <1>16, <2>1, <2>4 DEF AsksForId, Asked, EndsWith, GetId
  <2>6. QED
    BY <1>3, <1>4, <1>8, <1>10, <1>11, <2>5 DEF IInv, ThreadOK
<1>17. CASE RunsScript(w)
  <2>1. PICK p : p = running[w].steamId
    OBVIOUS
  <2>2. EvalSha(p) \in Read /\ Answers(EvalSha(p)) \subseteq {Nil} \cup Entries(p)
    BY <1>1, <1>15, <1>17, <2>1, OpFields, Commands, GoodReplies DEF RunsScript, Loads
  <2>3. reply[w] = <<>> /\ EndsWith(pipe[w], EvalSha(p))
    BY <1>2, <1>17, <2>1 DEF RunsScript, Asked, s
  <2>4. \/ reply'[w] = <<>> /\ EndsWith(pipe'[w], EvalSha(p))
        \/ pipe'[w] = <<>> /\ \E a \in {Nil} \cup Entries(p) : reply'[w] = <<a>>
    BY <1>13, <2>2, <2>3
  <2>5. running'[w].steamId = p
    BY <1>2, <2>1
  <2>6. Asked(w, EvalSha(running[w].steamId), {Nil} \cup Entries(running[w].steamId))'
    BY <2>4, <2>5 DEF Asked, EndsWith, EvalSha, Entries, Stored
  <2>7. RunsScript(w)'
    BY <1>2, <1>17, <2>6 DEF RunsScript, Loads
  <2>8. QED
    BY <1>3, <1>4, <1>8, <1>10, <1>11, <2>7 DEF IInv, ThreadOK
<1>18. CASE AsksForKeys(w)
  <2>1. GetKeys \in Read /\ Answers(GetKeys) \subseteq KeyLists
    BY <1>1, Commands, GoodReplies
  <2>2. reply[w] = <<>> /\ EndsWith(pipe[w], GetKeys)
    BY <1>2, <1>18 DEF AsksForKeys, Asked, s
  <2>3. \/ reply'[w] = <<>> /\ EndsWith(pipe'[w], GetKeys)
        \/ pipe'[w] = <<>> /\ \E a \in KeyLists : reply'[w] = <<a>>
    BY <1>13, <2>1, <2>2
  <2>4. AsksForKeys(w)'
    BY <1>2, <1>18, <2>3 DEF AsksForKeys, Loads, Asked, EndsWith
  <2>5. QED
    BY <1>3, <1>4, <1>8, <1>10, <1>11, <2>4 DEF IInv, ThreadOK
<1>19. SlowPath(w) => SlowPath(w)'
  BY <1>2 DEF SlowPath, DistinctRows
<1>20. SlowPath(w) => left[w][1] \in Names
  BY DEF SlowPath, KeyLists
<1>21. CASE AsksForKeyId(w)
  <2>1. PICK q : q = GetId(left[w][1])
    OBVIOUS
  <2>2. q \in Read /\ Answers(q) \subseteq IdReplies
    BY <1>1, <1>20, <1>21, <2>1, Commands, GoodReplies DEF AsksForKeyId
  <2>3. reply[w] = <<>> /\ EndsWith(pipe[w], q)
    BY <1>2, <1>21, <2>1 DEF AsksForKeyId, Asked, s
  <2>4. \/ reply'[w] = <<>> /\ EndsWith(pipe'[w], q)
        \/ pipe'[w] = <<>> /\ \E a \in IdReplies : reply'[w] = <<a>>
    BY <1>13, <2>2, <2>3
  <2>5. AsksForKeyId(w)'
    BY <1>2, <1>19, <1>21, <2>1, <2>4 DEF AsksForKeyId, Loads, Asked, EndsWith, GetId
  <2>6. QED
    BY <1>3, <1>4, <1>8, <1>10, <1>11, <2>5 DEF IInv, ThreadOK
<1>22. CASE AsksForValue(w)
  <2>1. PICK p, n : p = running[w].steamId /\ n = left[w][1]
    OBVIOUS
  <2>2. p \in Players /\ n \in Names
    BY <1>15, <1>20, <1>22, <2>1, OpFields DEF AsksForValue, Loads
  <2>3. running'[w].steamId = p /\ left'[w][1] = n
    BY <1>2, <2>1
  <2>4. ASSUME reply[w] = <<>>,
               \E id \in CookieIds : pipe[w] = <<GetValue(p, id), GetDesc(n)>>
        PROVE  ValueAsked(w, p, n)'
    <3>1. PICK id \in CookieIds : pipe[w] = <<GetValue(p, id), GetDesc(n)>>
      BY <2>4
    <3>2. c = GetValue(p, id) /\ Tail(s) = <<GetDesc(n)>>
      BY <3>1 DEF c, s
    <3>3. c \in Read /\ Answers(c) \subseteq Stored(p)
      BY <1>1, <2>2, <3>2, Commands, GoodReplies
    <3>4. PICK a \in Stored(p) : reply'[w] = Append(reply[w], a)
      BY <1>9, <3>3
    <3>5. reply'[w] = <<a>>
      BY <2>4, <3>4
    <3>6. QED
      BY <1>7, <3>2, <3>5 DEF ValueAsked
  <2>5. ASSUME pipe[w] = <<GetDesc(n)>>, \E v \in Stored(p) : reply[w] = <<v>>
        PROVE  ValueAsked(w, p, n)'
    <3>1. PICK v \in Stored(p) : reply[w] = <<v>>
      BY <2>5
    <3>2. c = GetDesc(n) /\ Tail(s) = <<>>
      BY <2>5 DEF c, s
    <3>3. c \in Read /\ Answers(c) \subseteq BOOLEAN
      BY <1>1, <2>2, <3>2, Commands, GoodReplies
    <3>4. PICK d \in BOOLEAN : reply'[w] = Append(reply[w], d)
      BY <1>9, <3>3
    <3>5. reply'[w] = <<v, d>>
      BY <3>1, <3>4, TwoReplies
    <3>6. QED
      BY <1>7, <3>2, <3>5 DEF ValueAsked
  <2>6. ValueAsked(w, p, n)'
    BY <1>2, <1>22, <2>1, <2>4, <2>5 DEF AsksForValue, ValueAsked, s
  <2>7. AsksForValue(w)'
    <3>1. ValueAsked(w, running[w].steamId, left[w][1])'
      BY <2>3, <2>6 DEF ValueAsked
    <3>2. QED
      BY <1>2, <1>19, <1>22, <3>1 DEF AsksForValue, Loads
  <2>8. QED
    BY <1>3, <1>4, <1>8, <1>10, <1>11, <2>7 DEF IInv, ThreadOK
<1>23. QED
  BY <1>1, <1>14, <1>16, <1>17, <1>18, <1>21, <1>22 DEF ThreadOK

-----------------------------------------------------------------------------
(* The threads go on.                                                      *)
LEMMA Sent ==
    ASSUME ThreadTypes, NEW w \in Workers, NEW cs \in Seq(Read \cup Write),
           NEW what \in {"id", "script", "keys", "value", "done"}, Send(w, cs, what)
    PROVE  /\ pipe' \in [Workers -> Seq(Read \cup Write)]
           /\ awaits' \in [Workers -> {"id", "script", "keys", "value", "done"}]
           /\ DOMAIN reply' = Workers
           /\ pipe'[w] = pipe[w] \o cs /\ awaits'[w] = what /\ reply'[w] = <<>>
           /\ \A x \in Workers \ {w} :
                 pipe'[x] = pipe[x] /\ awaits'[x] = awaits[x] /\ reply'[x] = reply[x]
<1>1. pipe[w] \o cs \in Seq(Read \cup Write)
  BY DEF ThreadTypes
<1>2. QED
  BY <1>1 DEF ThreadTypes, Send

LEMMA SentFirst ==
    ASSUME NEW s, s = <<>>
    PROVE  /\ \A c \in Read : s \o <<c>> = <<c>> /\ <<c>> \in Seq(Read \cup Write)
           /\ \A c, d \in Read : s \o <<c, d>> = <<c, d>> /\ <<c, d>> \in Seq(Read \cup Write)
           /\ s \o <<>> = <<>> /\ <<>> \in Seq(Read \cup Write) /\ AllWrites(<<>>)
BY DEF AllWrites

LEMMA Finished ==
    ASSUME ThreadTypes, NEW w \in Workers, NEW id \in Keys, NEW rows \in Seq(AnyRow),
           Finish(w, id, rows)
    PROVE  /\ answer' \in [Workers -> [id : Keys, rows : Seq(AnyRow)]]
           /\ answer'[w] = [id |-> id, rows |-> rows]
           /\ \A x \in Workers \ {w} : answer'[x] = answer[x]
BY DEF ThreadTypes, Finish

LEMMA RowTypes ==
    ASSUME NEW p
    PROVE  Rows(p) \subseteq AnyRow /\ \A rows \in Seq(Rows(p)) : rows \in Seq(AnyRow)
<1>1. Rows(p) \subseteq AnyRow
  BY DEF Rows, AnyRow, Stored
<1>2. QED
  BY <1>1

(* What a thread does to itself alone.                                     *)
OthersUntouched(w) ==
    \A x \in Workers \ {w} :
        /\ awaits'[x] = awaits[x] /\ left'[x] = left[x] /\ answer'[x] = answer[x]
        /\ pipe'[x] = pipe[x] /\ reply'[x] = reply[x]

LEMMA ContinueRest ==
    ASSUME IInv, NEW w \in Workers, crashed' \in BOOLEAN,
           UNCHANGED <<vars, given, queryQueue, running, resultQueue, redisVars, saved>>,
           ThreadTypes', ThreadOK(w)', OthersUntouched(w)
    PROVE  IInv'
<1>1. GameTypes /\ ThreadTypes /\ RedisTypes /\ Placed /\ ResultsGood
  BY DEF IInv
<1>2. ServedInv' /\ OwnInv' /\ ops' = ops
  BY ManagerStep DEF IInv, vars
<1>3. UNCHANGED <<hash, scriptLoaded, queryQueue, resultQueue, running, ops>>
  BY <1>2 DEF given
<1>4. GameTypes' /\ ResultsGood'
  BY <1>1, <1>3 DEF GameTypes, ResultsGood
<1>5. Placed'
  BY <1>1, <1>3
     DEF Placed, QueuedExist, RunningExist, ResultsExist, QueuedOnce, RunningOnce,
         ResultsOnce, NotQueuedAndRunning, NotQueuedAndDone, NotRunningAndDone
<1>6. RedisTypes'
  BY <1>1 DEF RedisTypes, redisVars
<1>7. \A x \in Workers \ {w} : ThreadOK(x)'
  BY <1>3, ThreadUntouched DEF IInv, OthersUntouched
<1>8. QED
  BY <1>2, <1>4, <1>5, <1>6, <1>7 DEF IInv

(* With the rows it has and the keys that are left, the slow path goes on. *)
LEMMA NextKeyContinues ==
    ASSUME ThreadTypes, NEW w \in Workers, Loads(w), running' = running, pipe[w] = <<>>,
           NEW keys \in KeyLists, NextKey(w, keys),
           answer' \in [Workers -> [id : Keys, rows : Seq(AnyRow)]],
           \A x \in Workers \ {w} : answer'[x] = answer[x],
           answer'[w].id = -1, answer'[w].rows \in Seq(Rows(running[w].steamId)),
           DistinctRows(answer'[w].rows),
           \A i \in DOMAIN answer'[w].rows, j \in DOMAIN keys :
               answer'[w].rows[i].name # keys[j]
    PROVE  ThreadTypes' /\ ThreadOK(w)' /\ OthersUntouched(w)
<1>1. keys \in Seq(Names) /\ left' = [left EXCEPT ![w] = keys]
  BY DEF KeyLists, NextKey
<1>2. /\ left' \in [Workers -> Seq(Names)] /\ left'[w] = keys
      /\ \A x \in Workers \ {w} : left'[x] = left[x]
  BY <1>1 DEF ThreadTypes
<1>3. running \in [Workers -> Op \cup {Idle}]
  BY DEF ThreadTypes
<1>4. CASE keys = <<>>
  <2>1. Send(w, <<>>, "done")
    BY <1>4 DEF NextKey
  <2>2. <<>> \in Seq(Read \cup Write) /\ pipe[w] \o <<>> = <<>> /\ AllWrites(<<>>)
    BY SentFirst
  <2>3. /\ pipe' \in [Workers -> Seq(Read \cup Write)]
        /\ awaits' \in [Workers -> {"id", "script", "keys", "value", "done"}]
        /\ DOMAIN reply' = Workers
        /\ pipe'[w] = <<>> /\ awaits'[w] = "done"
        /\ \A x \in Workers \ {w} :
              pipe'[x] = pipe[x] /\ awaits'[x] = awaits[x] /\ reply'[x] = reply[x]
    BY <2>1, <2>2, Sent
  <2>4. AllWrites(pipe[w])'
    BY <2>2, <2>3 DEF AllWrites
  <2>5. GoodAnswer(running[w], answer[w])'
    BY DEF GoodAnswer, Loads, DistinctRows
  <2>6. Answered(w)'
    BY <2>3, <2>4, <2>5 DEF Answered, Loads
  <2>7. QED
    BY <1>2, <1>3, <2>3, <2>6 DEF ThreadTypes, ThreadOK, OthersUntouched
<1>5. CASE keys # <<>>
  <2>1. keys[1] \in Names /\ GetId(keys[1]) \in Read
    BY <1>1, <1>5, Commands
  <2>2. Send(w, <<GetId(keys[1])>>, "id")
    BY <1>5 DEF NextKey
  <2>3. /\ <<GetId(keys[1])>> \in Seq(Read \cup Write)
        /\ pipe[w] \o <<GetId(keys[1])>> = <<GetId(keys[1])>>
    BY <2>1, SentFirst
  <2>4. /\ pipe' \in [Workers -> Seq(Read \cup Write)]
        /\ awaits' \in [Workers -> {"id", "script", "keys", "value", "done"}]
        /\ DOMAIN reply' = Workers
        /\ pipe'[w] = <<GetId(keys[1])>> /\ awaits'[w] = "id" /\ reply'[w] = <<>>
        /\ \A x \in Workers \ {w} :
              pipe'[x] = pipe[x] /\ awaits'[x] = awaits[x] /\ reply'[x] = reply[x]
    BY <2>2, <2>3, Sent
  <2>5. EndsWith(pipe[w], GetId(left[w][1]))'
    <3>1. PICK q : q = GetId(keys[1])
      OBVIOUS
    <3>2. pipe'[w] = <<q>> /\ GetId(left[w][1])' = q
      BY <1>2, <2>4, <3>1 DEF GetId
    <3>3. EndsWith(<<q>>, q)
      BY DEF EndsWith
    <3>4. QED
      BY <3>2, <3>3 DEF EndsWith
  <2>6. Asked(w, GetId(left[w][1]), IdReplies)'
    BY <2>4, <2>5 DEF Asked
  <2>7. SlowPath(w)'
    BY <1>2, <1>5 DEF SlowPath, DistinctRows
  <2>8. AsksForKeyId(w)'
    BY <2>4, <2>6, <2>7 DEF AsksForKeyId, Loads
  <2>9. QED
    BY <1>2, <1>3, <2>4, <2>8 DEF ThreadTypes, ThreadOK, OthersUntouched
<1>6. QED
  BY <1>4, <1>5

(* A thread with an exception stays as it is.                              *)
LEMMA ThrewAway ==
    ASSUME ThreadTypes, NEW w \in Workers, ThreadOK(w), running' = running,
           UNCHANGED <<awaits, left, answer, pipe, reply>>
    PROVE  ThreadTypes' /\ ThreadOK(w)' /\ OthersUntouched(w)
<1>1. ThreadTypes' /\ OthersUntouched(w)
  BY DEF ThreadTypes, OthersUntouched
<1>2. ThreadOK(w)'
  BY ThreadUntouched
<1>3. QED
  BY <1>1, <1>2

(* A thread whose last commands are writes has its answer.                 *)
LEMMA AnswerFound ==
    ASSUME ThreadTypes, NEW w \in Workers, running' = running, left' = left,
           running[w] # Idle, pipe[w] = <<>>,
           NEW cs \in Seq(Read \cup Write), AllWrites(cs), Send(w, cs, "done"),
           answer' \in [Workers -> [id : Keys, rows : Seq(AnyRow)]],
           \A x \in Workers \ {w} : answer'[x] = answer[x],
           GoodAnswer(running[w], answer'[w])
    PROVE  ThreadTypes' /\ ThreadOK(w)' /\ OthersUntouched(w)
<1>1. /\ pipe' \in [Workers -> Seq(Read \cup Write)]
      /\ awaits' \in [Workers -> {"id", "script", "keys", "value", "done"}]
      /\ DOMAIN reply' = Workers
      /\ pipe'[w] = pipe[w] \o cs /\ awaits'[w] = "done"
      /\ \A x \in Workers \ {w} :
            pipe'[x] = pipe[x] /\ awaits'[x] = awaits[x] /\ reply'[x] = reply[x]
  BY Sent
<1>2. pipe'[w] = cs
  BY <1>1
<1>3. ThreadTypes' /\ OthersUntouched(w)
  BY <1>1 DEF ThreadTypes, OthersUntouched
<1>4. Answered(w)'
  <2>1. AllWrites(pipe[w])'
    BY <1>2 DEF AllWrites
  <2>2. GoodAnswer(running[w], answer[w])'
    BY DEF GoodAnswer, DistinctRows
  <2>3. QED
    BY <1>1, <2>1, <2>2 DEF Answered
<1>5. QED
  BY <1>3, <1>4 DEF ThreadOK

LEMMA WritesSent ==
    /\ \A c \in Write : <<c>> \in Seq(Read \cup Write) /\ AllWrites(<<c>>)
    /\ \A c, d, e \in Write : <<c, d, e>> \in Seq(Read \cup Write) /\ AllWrites(<<c, d, e>>)
BY DEF AllWrites

LEMMA InsertCookieContinues ==
    ASSUME GameTypes, ThreadTypes, NEW w \in Workers, ThreadOK(w), running[w] # Idle,
           running' = running, InsertCookieThread(w)
    PROVE  ThreadTypes' /\ ThreadOK(w)' /\ OthersUntouched(w) /\ crashed' \in BOOLEAN
<1> DEFINE n == running[w].cookie
           id == reply[w][1]
<1>1. AsksForId(w) /\ reply[w] # <<>> /\ running[w].type = "InsertCookie"
  BY DEF InsertCookieThread, ThreadOK, Resting, Answered, AsksForId, RunsScript, AsksForKeys,
         AsksForKeyId, AsksForValue, Loads
<1>2. pipe[w] = <<>> /\ id \in IdReplies
  BY <1>1 DEF AsksForId, Asked
<1>3. running[w] \in Op
  BY DEF ThreadTypes
<1>4. n \in Names
  BY <1>1, <1>3, OpFields
<1>5. hash[n] \in CookieIds
  BY <1>4 DEF GameTypes
<1>6. /\ left' = left /\ crashed' = crashed
      /\ IF id # Nil
         THEN Send(w, <<AddToList(n)>>, "done") /\ Finish(w, id, <<>>)
         ELSE /\ Send(w, <<AddToList(n), SetDesc(n), SetId(n, hash[n])>>, "done")
              /\ Finish(w, hash[n], <<>>)
  BY DEF InsertCookieThread
<1>7. \A k \in CookieIds : k \in Keys /\ <<>> \in Seq(AnyRow)
  BY DEF Keys
<1> HIDE DEF n, id
<1>8. ASSUME NEW k \in CookieIds, Finish(w, k, <<>>)
      PROVE  /\ answer' \in [Workers -> [id : Keys, rows : Seq(AnyRow)]]
             /\ \A x \in Workers \ {w} : answer'[x] = answer[x]
             /\ GoodAnswer(running[w], answer'[w])
  <2>1. k \in Keys /\ <<>> \in Seq(AnyRow)
    BY <1>7
  <2>2. /\ answer' \in [Workers -> [id : Keys, rows : Seq(AnyRow)]]
        /\ answer'[w] = [id |-> k, rows |-> <<>>]
        /\ \A x \in Workers \ {w} : answer'[x] = answer[x]
    BY <1>8, <2>1, Finished
  <2>3. GoodAnswer(running[w], answer'[w])
    BY <1>1, <2>2 DEF GoodAnswer
  <2>4. QED
    BY <2>2, <2>3
<1>9. AddToList(n) \in Write /\ SetDesc(n) \in Write /\ SetId(n, hash[n]) \in Write
  BY <1>4, <1>5, Commands
<1>10. CASE id # Nil
  <2>1. Finish(w, id, <<>>) /\ id \in CookieIds
    BY <1>2, <1>6, <1>10 DEF IdReplies
  <2>2. Send(w, <<AddToList(n)>>, "done")
    BY <1>6, <1>10
  <2>3. <<AddToList(n)>> \in Seq(Read \cup Write) /\ AllWrites(<<AddToList(n)>>)
    BY <1>9, WritesSent
  <2>4. /\ answer' \in [Workers -> [id : Keys, rows : Seq(AnyRow)]]
        /\ \A x \in Workers \ {w} : answer'[x] = answer[x]
        /\ GoodAnswer(running[w], answer'[w])
    BY <1>8, <2>1
  <2>5. QED
    BY <1>2, <1>6, <2>2, <2>3, <2>4, AnswerFound DEF GameTypes
<1>11. CASE id = Nil
  <2> DEFINE cs == <<AddToList(n), SetDesc(n), SetId(n, hash[n])>>
  <2>1. Finish(w, hash[n], <<>>)
    BY <1>6, <1>11
  <2>2. Send(w, cs, "done")
    BY <1>6, <1>11
  <2>3. cs \in Seq(Read \cup Write) /\ AllWrites(cs)
    BY <1>9, WritesSent
  <2>4. /\ answer' \in [Workers -> [id : Keys, rows : Seq(AnyRow)]]
        /\ \A x \in Workers \ {w} : answer'[x] = answer[x]
        /\ GoodAnswer(running[w], answer'[w])
    BY <1>5, <1>8, <2>1
  <2> HIDE DEF cs
  <2>5. QED
    BY <1>2, <1>6, <2>2, <2>3, <2>4, AnswerFound DEF GameTypes
<1>12. QED
  BY <1>10, <1>11

LEMMA SelectIdContinues ==
    ASSUME GameTypes, ThreadTypes, NEW w \in Workers, ThreadOK(w), running[w] # Idle,
           running' = running, SelectIdThread(w)
    PROVE  ThreadTypes' /\ ThreadOK(w)' /\ OthersUntouched(w) /\ crashed' \in BOOLEAN
<1>1. AsksForId(w) /\ reply[w] # <<>> /\ running[w].type = "SelectId"
  BY DEF SelectIdThread, ThreadOK, Resting, Answered, AsksForId, RunsScript, AsksForKeys,
         AsksForKeyId, AsksForValue, Loads
<1>2. pipe[w] = <<>> /\ answer[w] = NoAnswer
  BY <1>1 DEF AsksForId, Asked
<1>3. UNCHANGED <<left, answer>>
  BY DEF SelectIdThread
<1>4. CASE Send(w, <<>>, "done") /\ UNCHANGED crashed
  <2>1. <<>> \in Seq(Read \cup Write) /\ AllWrites(<<>>)
    BY SentFirst
  <2>2. GoodAnswer(running[w], answer'[w])
    BY <1>1, <1>2, <1>3 DEF GoodAnswer, NoAnswer
  <2>3. /\ answer' \in [Workers -> [id : Keys, rows : Seq(AnyRow)]]
        /\ \A x \in Workers \ {w} : answer'[x] = answer[x]
    BY <1>3 DEF ThreadTypes
  <2>4. crashed' \in BOOLEAN
    BY <1>4 DEF GameTypes
  <2>5. QED
    BY <1>2, <1>3, <1>4, <2>1, <2>2, <2>3, <2>4, AnswerFound
<1>5. CASE crashed' = TRUE /\ UNCHANGED <<pipe, awaits, reply>>
  BY <1>3, <1>5, ThrewAway
<1>6. QED
  BY <1>4, <1>5 DEF SelectIdThread

(* The rows of the script's reply.                                         *)
LEMMA EntriesToRows ==
    ASSUME NEW p, NEW e \in Entries(p)
    PROVE  /\ [i \in DOMAIN e |-> Row(e[i])] \in Seq(Rows(p))
           /\ DistinctRows([i \in DOMAIN e |-> Row(e[i])])
<1> DEFINE Entry == [name : Names, value : Stored(p), desc : BOOLEAN]
           rows == [i \in DOMAIN e |-> Row(e[i])]
<1>1. e \in Seq(Entry) /\ DistinctRows(e)
  BY DEF Entries
<1> HIDE DEF Entry
<1>2. Len(e) \in Nat /\ DOMAIN e = 1..Len(e) /\ \A i \in DOMAIN e : e[i] \in Entry
  BY <1>1
<1>3. \A i \in DOMAIN e : rows[i].name = e[i].name /\ rows[i] \in Rows(p)
  BY <1>2 DEF Row, Rows, Entry
<1>4. rows \in [1..Len(e) -> Rows(p)]
  BY <1>2, <1>3
<1>5. rows \in Seq(Rows(p))
  BY <1>2, <1>4
<1>6. DistinctRows(rows)
  BY <1>1, <1>3 DEF DistinctRows
<1>7. QED
  BY <1>5, <1>6

LEMMA ScriptReplyContinues ==
    ASSUME GameTypes, ThreadTypes, NEW w \in Workers, ThreadOK(w), running[w] # Idle,
           running' = running, ScriptReply(w)
    PROVE  ThreadTypes' /\ ThreadOK(w)' /\ OthersUntouched(w) /\ crashed' \in BOOLEAN
<1> DEFINE p == running[w].steamId
           entries == reply[w][1]
           rows == [i \in DOMAIN entries |-> Row(entries[i])]
<1>1. RunsScript(w) /\ reply[w] # <<>> /\ UNCHANGED left
  BY DEF ScriptReply, ThreadOK, Resting, Answered, AsksForId, RunsScript, AsksForKeys,
         AsksForKeyId, AsksForValue, Loads
<1>2. /\ pipe[w] = <<>> /\ answer[w] = NoAnswer /\ entries \in {Nil} \cup Entries(p)
      /\ running[w].type = "SelectData"
  BY <1>1 DEF RunsScript, Asked, Loads
<1> HIDE DEF p, entries, rows
<1>3. CASE entries = Nil /\ Send(w, <<GetKeys>>, "keys") /\ UNCHANGED <<answer, crashed>>
  <2>1. GetKeys \in Read
    BY Commands
  <2>2. <<GetKeys>> \in Seq(Read \cup Write) /\ pipe[w] \o <<GetKeys>> = <<GetKeys>>
    BY <1>2, <2>1, SentFirst
  <2>3. /\ pipe' \in [Workers -> Seq(Read \cup Write)]
        /\ awaits' \in [Workers -> {"id", "script", "keys", "value", "done"}]
        /\ DOMAIN reply' = Workers
        /\ pipe'[w] = <<GetKeys>> /\ awaits'[w] = "keys" /\ reply'[w] = <<>>
        /\ \A x \in Workers \ {w} :
              pipe'[x] = pipe[x] /\ awaits'[x] = awaits[x] /\ reply'[x] = reply[x]
    BY <1>3, <2>2, Sent
  <2>4. ThreadTypes' /\ OthersUntouched(w) /\ crashed' \in BOOLEAN
    BY <1>1, <1>3, <2>3 DEF GameTypes, ThreadTypes, OthersUntouched
  <2>5. AsksForKeys(w)'
    <3>1. EndsWith(<<GetKeys>>, GetKeys)
      BY DEF EndsWith
    <3>2. EndsWith(pipe[w], GetKeys)'
      BY <2>3, <3>1 DEF EndsWith
    <3>3. Asked(w, GetKeys, KeyLists)'
      BY <2>3, <3>2 DEF Asked
    <3>4. QED
      BY <1>2, <1>3, <2>3, <3>3 DEF AsksForKeys, Loads
  <2>6. QED
    BY <2>4, <2>5 DEF ThreadOK
<1>4. CASE entries # Nil /\ Send(w, <<>>, "done") /\ Finish(w, -1, rows) /\ UNCHANGED crashed
  <2>1. entries \in Entries(p)
    BY <1>2, <1>4
  <2>2. rows \in Seq(Rows(p)) /\ DistinctRows(rows)
    BY <2>1, EntriesToRows DEF rows
  <2>3. rows \in Seq(AnyRow) /\ -1 \in Keys
    BY <2>2, RowTypes DEF Keys
  <2>4. /\ answer' \in [Workers -> [id : Keys, rows : Seq(AnyRow)]]
        /\ answer'[w] = [id |-> -1, rows |-> rows]
        /\ \A x \in Workers \ {w} : answer'[x] = answer[x]
    BY <1>4, <2>3, Finished
  <2>5. GoodAnswer(running[w], answer'[w])
    BY <1>2, <2>2, <2>4 DEF GoodAnswer, p
  <2>6. <<>> \in Seq(Read \cup Write) /\ AllWrites(<<>>)
    BY SentFirst
  <2>7. crashed' \in BOOLEAN
    BY <1>4 DEF GameTypes
  <2>8. QED
    BY <1>1, <1>2, <1>4, <2>4, <2>5, <2>6, <2>7, AnswerFound
<1>5. CASE crashed' = TRUE /\ UNCHANGED <<pipe, awaits, reply, answer>>
  BY <1>1, <1>5, ThrewAway
<1>6. QED
  BY <1>3, <1>4, <1>5 DEF ScriptReply, entries, rows

LEMMA KeysReplyContinues ==
    ASSUME GameTypes, ThreadTypes, NEW w \in Workers, ThreadOK(w), running[w] # Idle,
           running' = running, KeysReply(w)
    PROVE  ThreadTypes' /\ ThreadOK(w)' /\ OthersUntouched(w) /\ crashed' \in BOOLEAN
<1> DEFINE keys == reply[w][1]
<1>1. AsksForKeys(w) /\ reply[w] # <<>>
  BY DEF KeysReply, ThreadOK, Resting, Answered, AsksForId, RunsScript, AsksForKeys,
         AsksForKeyId, AsksForValue, Loads
<1>2. pipe[w] = <<>> /\ answer[w] = NoAnswer /\ keys \in KeyLists /\ Loads(w)
  BY <1>1 DEF AsksForKeys, Asked
<1>3. NextKey(w, keys) /\ UNCHANGED <<answer, crashed>>
  BY DEF KeysReply
<1> HIDE DEF keys
<1>4. /\ answer' \in [Workers -> [id : Keys, rows : Seq(AnyRow)]]
      /\ \A x \in Workers \ {w} : answer'[x] = answer[x]
      /\ answer'[w].id = -1 /\ answer'[w].rows = <<>>
  BY <1>2, <1>3 DEF ThreadTypes, NoAnswer
<1>5. /\ answer'[w].rows \in Seq(Rows(running[w].steamId))
      /\ DistinctRows(answer'[w].rows)
      /\ \A i \in DOMAIN answer'[w].rows, j \in DOMAIN keys :
            answer'[w].rows[i].name # keys[j]
  <2>1. DOMAIN answer'[w].rows = {}
    BY <1>4
  <2>2. QED
    BY <1>4, <2>1 DEF DistinctRows
<1>6. crashed' \in BOOLEAN
  BY <1>3 DEF GameTypes
<1>7. QED
  BY <1>2, <1>3, <1>4, <1>5, <1>6, NextKeyContinues

(* The slow path's next key is not among those left.                       *)
LEMMA TailOfKeys ==
    ASSUME NEW keys \in KeyLists, keys # <<>>
    PROVE  /\ Tail(keys) \in KeyLists
           /\ \A j \in DOMAIN Tail(keys) :
                 /\ j + 1 \in DOMAIN keys /\ Tail(keys)[j] = keys[j + 1]
                 /\ Tail(keys)[j] # keys[1]
<1>1. keys \in Seq(Names) /\ \A i, j \in DOMAIN keys : keys[i] = keys[j] => i = j
  BY DEF KeyLists
<1>2. /\ Len(keys) \in Nat /\ Len(keys) >= 1 /\ DOMAIN keys = 1..Len(keys)
      /\ Tail(keys) \in Seq(Names) /\ DOMAIN Tail(keys) = 1..(Len(keys) - 1)
      /\ \A j \in 1..(Len(keys) - 1) : Tail(keys)[j] = keys[j + 1]
  BY <1>1
<1>3. \A j \in DOMAIN Tail(keys) :
         /\ j \in Int /\ j >= 1 /\ j + 1 \in DOMAIN keys /\ Tail(keys)[j] = keys[j + 1]
  BY <1>2
<1>4. \A j \in DOMAIN Tail(keys) : Tail(keys)[j] # keys[1]
  BY <1>1, <1>2, <1>3
<1>5. \A i, j \in DOMAIN Tail(keys) : Tail(keys)[i] = Tail(keys)[j] => i = j
  <2>1. SUFFICES ASSUME NEW i \in DOMAIN Tail(keys), NEW j \in DOMAIN Tail(keys),
                        Tail(keys)[i] = Tail(keys)[j]
                 PROVE  i = j
    OBVIOUS
  <2>2. i + 1 = j + 1
    BY <1>1, <1>3, <2>1
  <2>3. QED
    BY <1>3, <2>2
<1>6. QED
  BY <1>2, <1>3, <1>4, <1>5 DEF KeyLists

LEMMA KeyIdReplyContinues ==
    ASSUME GameTypes, ThreadTypes, NEW w \in Workers, ThreadOK(w), running[w] # Idle,
           running' = running, KeyIdReply(w)
    PROVE  ThreadTypes' /\ ThreadOK(w)' /\ OthersUntouched(w) /\ crashed' \in BOOLEAN
<1>0. PICK p, id, n : p = running[w].steamId /\ id = reply[w][1] /\ n = left[w][1]
  OBVIOUS
<1>1. AsksForKeyId(w) /\ reply[w] # <<>>
  BY DEF KeyIdReply, ThreadOK, Resting, Answered, AsksForId, RunsScript, AsksForKeys,
         AsksForKeyId, AsksForValue, Loads
<1>2. pipe[w] = <<>> /\ id \in IdReplies /\ SlowPath(w) /\ Loads(w)
  BY <1>0, <1>1 DEF AsksForKeyId, Asked
<1>3. left[w] \in KeyLists /\ left[w] # <<>>
  BY <1>2 DEF SlowPath
<1>4. UNCHANGED <<answer, crashed>>
  BY DEF KeyIdReply
<1>5. crashed' \in BOOLEAN
  BY <1>4 DEF GameTypes
<1>6. /\ answer' \in [Workers -> [id : Keys, rows : Seq(AnyRow)]]
      /\ \A x \in Workers \ {w} : answer'[x] = answer[x]
  BY <1>4 DEF ThreadTypes
<1>7. CASE NextKey(w, Tail(left[w]))
  <2>1. /\ answer'[w].id = -1 /\ answer'[w].rows \in Seq(Rows(running[w].steamId))
        /\ DistinctRows(answer'[w].rows)
        /\ \A i \in DOMAIN answer'[w].rows, j \in DOMAIN left[w] :
              answer'[w].rows[i].name # left[w][j]
    BY <1>2, <1>4 DEF SlowPath
  <2>2. \A i \in DOMAIN answer'[w].rows, j \in DOMAIN Tail(left[w]) :
            answer'[w].rows[i].name # Tail(left[w])[j]
    BY <1>3, <2>1, TailOfKeys
  <2>3. Tail(left[w]) \in KeyLists
    BY <1>3, TailOfKeys
  <2>4. QED
    BY <1>2, <1>5, <1>6, <1>7, <2>1, <2>2, <2>3, NextKeyContinues
<1>8. CASE id # Nil /\ Send(w, <<GetValue(p, id), GetDesc(n)>>, "value") /\ UNCHANGED left
  <2>1. p \in Players /\ n \in Names /\ id \in CookieIds
    <3>1. running[w] \in Op /\ running[w].type = "SelectData"
      BY <1>2 DEF ThreadTypes, Loads
    <3>2. p \in Players
      BY <1>0, <3>1, OpFields
    <3>3. n \in Names
      BY <1>0, <1>3 DEF KeyLists
    <3>4. QED
      BY <1>2, <1>8, <3>2, <3>3 DEF IdReplies
  <2>2. GetValue(p, id) \in Read /\ GetDesc(n) \in Read
    BY <2>1, Commands
  <2>3. /\ <<GetValue(p, id), GetDesc(n)>> \in Seq(Read \cup Write)
        /\ pipe[w] \o <<GetValue(p, id), GetDesc(n)>> = <<GetValue(p, id), GetDesc(n)>>
    BY <1>2, <2>2, SentFirst
  <2>4. /\ pipe' \in [Workers -> Seq(Read \cup Write)]
        /\ awaits' \in [Workers -> {"id", "script", "keys", "value", "done"}]
        /\ DOMAIN reply' = Workers
        /\ pipe'[w] = <<GetValue(p, id), GetDesc(n)>>
        /\ awaits'[w] = "value" /\ reply'[w] = <<>>
        /\ \A x \in Workers \ {w} :
              pipe'[x] = pipe[x] /\ awaits'[x] = awaits[x] /\ reply'[x] = reply[x]
    BY <1>8, <2>3, Sent
  <2>5. ThreadTypes' /\ OthersUntouched(w)
    BY <1>4, <1>8, <2>4 DEF ThreadTypes, OthersUntouched
  <2>6. SlowPath(w)'
    BY <1>2, <1>4, <1>8 DEF SlowPath, DistinctRows
  <2>7. ValueAsked(w, p, n)'
    BY <2>1, <2>4 DEF ValueAsked
  <2>8. running'[w].steamId = p /\ left'[w][1] = n
    BY <1>0, <1>8
  <2>9. AsksForValue(w)'
    <3>1. ValueAsked(w, running[w].steamId, left[w][1])'
      BY <2>7, <2>8 DEF ValueAsked
    <3>2. QED
      BY <1>2, <2>4, <2>6, <3>1 DEF AsksForValue, Loads
  <2>10. QED
    BY <1>5, <2>5, <2>9 DEF ThreadOK
<1>9. QED
  BY <1>0, <1>7, <1>8 DEF KeyIdReply

LEMMA ValueReplyContinues ==
    ASSUME GameTypes, ThreadTypes, NEW w \in Workers, ThreadOK(w), running[w] # Idle,
           running' = running, ValueReply(w)
    PROVE  ThreadTypes' /\ ThreadOK(w)' /\ OthersUntouched(w) /\ crashed' \in BOOLEAN
<1> DEFINE p == running[w].steamId
           n == left[w][1]
           old == answer[w].rows
<1>1. AsksForValue(w)
  BY DEF ValueReply, ThreadOK, Resting, Answered, AsksForId, RunsScript, AsksForKeys,
         AsksForKeyId, AsksForValue, Loads
<1>2. PICK v \in Stored(p), d \in BOOLEAN : pipe[w] = <<>> /\ reply[w] = <<v, d>>
  BY <1>1 DEF AsksForValue, ValueAsked, ValueReply
<1>3. SlowPath(w) /\ Loads(w) /\ left[w] \in KeyLists /\ left[w] # <<>>
  BY <1>1 DEF AsksForValue, SlowPath
<1>4. n \in Names
  BY <1>3 DEF KeyLists
<1>5. CASE /\ NextKey(w, Tail(left[w]))
           /\ answer' = [answer EXCEPT ![w].rows =
                            Append(@, [name |-> left[w][1], value |-> reply[w][1]])]
           /\ UNCHANGED crashed
  <2> DEFINE r == [name |-> n, value |-> v]
             new == Append(old, r)
             k == Len(old)
  <2>1. r \in Rows(p) /\ r.name = n
    BY <1>4 DEF Rows
  <2>2. old \in Seq(Rows(p)) /\ DistinctRows(old) /\ answer[w].id = -1
    BY <1>3 DEF SlowPath
  <2>3. \A i \in DOMAIN old, j \in DOMAIN left[w] : old[i].name # left[w][j]
    BY <1>3 DEF SlowPath
  <2>4. answer' = [answer EXCEPT ![w].rows = new]
    BY <1>2, <1>5
  <2> HIDE DEF p, n, r, old, new, k
  <2>5. /\ new \in Seq(Rows(p)) /\ k \in Nat /\ DOMAIN old = 1..k /\ DOMAIN new = 1..(k + 1)
        /\ new[k + 1] = r /\ \A i \in 1..k : new[i] = old[i]
    BY <2>1, <2>2 DEF new, k
  <2>6. \A i \in DOMAIN new : \/ i \in DOMAIN old /\ new[i] = old[i]
                              \/ i = k + 1 /\ new[i] = r
    BY <2>5
  <2>7. 1 \in DOMAIN left[w] /\ n = left[w][1]
    BY <1>3 DEF KeyLists, n
  <2>8. DistinctRows(new)
    BY <2>1, <2>2, <2>3, <2>6, <2>7 DEF DistinctRows
  <2>9. \A i \in DOMAIN new, j \in DOMAIN Tail(left[w]) : new[i].name # Tail(left[w])[j]
    BY <1>3, <2>1, <2>3, <2>6, <2>7, TailOfKeys
  <2>10. new \in Seq(AnyRow)
    BY <2>5, RowTypes
  <2>11. /\ answer' \in [Workers -> [id : Keys, rows : Seq(AnyRow)]]
         /\ \A x \in Workers \ {w} : answer'[x] = answer[x]
         /\ answer'[w].id = -1 /\ answer'[w].rows = new
    BY <2>2, <2>4, <2>10 DEF ThreadTypes
  <2>12. Tail(left[w]) \in KeyLists
    BY <1>3, TailOfKeys
  <2>13. crashed' \in BOOLEAN
    BY <1>5 DEF GameTypes
  <2>14. new \in Seq(Rows(running[w].steamId))
    BY <2>5 DEF p
  <2>15. /\ answer'[w].rows \in Seq(Rows(running[w].steamId))
         /\ DistinctRows(answer'[w].rows)
         /\ \A i \in DOMAIN answer'[w].rows, j \in DOMAIN Tail(left[w]) :
               answer'[w].rows[i].name # Tail(left[w])[j]
    BY <2>8, <2>9, <2>11, <2>14
  <2>16. QED
    BY <1>2, <1>3, <1>5, <2>11, <2>12, <2>13, <2>15, NextKeyContinues
<1>6. CASE crashed' = TRUE /\ UNCHANGED <<left, answer, pipe, awaits, reply>>
  BY <1>6, ThrewAway
<1>7. QED
  BY <1>5, <1>6 DEF ValueReply

LEMMA ContinueKeeps ==
    ASSUME IInv, NEW w \in Workers, Continue(w)
    PROVE  IInv'
<1>1. GameTypes /\ ThreadTypes /\ ThreadOK(w)
  BY DEF IInv
<1>2. /\ running[w] # Idle /\ running' = running
      /\ UNCHANGED <<vars, given, queryQueue, running, resultQueue, redisVars, saved>>
  BY DEF Continue
<1>3. ThreadTypes' /\ ThreadOK(w)' /\ OthersUntouched(w) /\ crashed' \in BOOLEAN
  BY <1>1, <1>2, InsertCookieContinues, SelectIdContinues, ScriptReplyContinues,
     KeysReplyContinues, KeyIdReplyContinues, ValueReplyContinues DEF Continue
<1>4. QED
  BY <1>2, <1>3, ContinueRest

-----------------------------------------------------------------------------
(* A thread is done.                                                       *)
LEMMA PutResultKeeps ==
    ASSUME IInv, NEW w \in Workers, PutResult(w)
    PROVE  IInv'
<1> DEFINE r == [op |-> running[w], id |-> answer[w].id, rows |-> answer[w].rows]
<1>1. GameTypes /\ ThreadTypes /\ RedisTypes /\ Placed /\ ResultsGood /\ ThreadOK(w)
  BY DEF IInv
<1>2. /\ running[w] # Idle /\ awaits[w] = "done"
      /\ resultQueue' = [resultQueue EXCEPT ![w] = Append(@, r)]
      /\ running' = [running EXCEPT ![w] = Idle]
      /\ Finish(w, -1, <<>>)
      /\ UNCHANGED <<vars, given, queryQueue, awaits, left, pipe, reply, crashed, redisVars>>
  BY DEF PutResult
<1>3. GoodAnswer(running[w], answer[w]) /\ AllWrites(pipe[w])
  BY <1>1, <1>2 DEF ThreadOK, Resting, Answered, AsksForId, RunsScript, AsksForKeys,
                    AsksForKeyId, AsksForValue
<1>4. ServedInv' /\ OwnInv' /\ ops' = ops
  BY <1>2, ManagerStep DEF IInv, vars
<1>5. r \in Result /\ r.op = running[w]
  BY <1>1, <1>2 DEF ThreadTypes, Result
<1>6. GoodAnswer(r.op, r)
  BY <1>3 DEF GoodAnswer
<1> HIDE DEF r
<1>7. Placed' /\ resultQueue' \in [Workers -> Seq(Result)]
  BY <1>1, <1>2, <1>4, <1>5, PlacedDone
<1>8. GameTypes' /\ RedisTypes'
  BY <1>1, <1>2, <1>7 DEF GameTypes, RedisTypes, given, redisVars
<1>9. ResultsGood'
  <2>1. SUFFICES ASSUME NEW x \in Workers, NEW i \in DOMAIN resultQueue'[x]
                 PROVE  GoodAnswer(resultQueue'[x][i].op, resultQueue'[x][i])
    BY DEF ResultsGood
  <2>2. resultQueue \in [Workers -> Seq(Result)]
    BY <1>1 DEF GameTypes
  <2>3. CASE x = w
    <3>1. resultQueue'[w] = Append(resultQueue[w], r) /\ resultQueue[w] \in Seq(Result)
      BY <1>2, <2>2
    <3>2. \/ i \in DOMAIN resultQueue[w] /\ resultQueue'[w][i] = resultQueue[w][i]
          \/ resultQueue'[w][i] = r
      BY <1>5, <2>1, <2>3, <3>1
    <3>3. QED
      BY <1>1, <1>6, <2>3, <3>2 DEF ResultsGood
  <2>4. CASE x # w
    <3>1. resultQueue'[x] = resultQueue[x]
      BY <1>2, <2>2, <2>4
    <3>2. QED
      BY <1>1, <2>1, <3>1 DEF ResultsGood
  <2>5. QED
    BY <2>3, <2>4
<1>10. /\ answer' \in [Workers -> [id : Keys, rows : Seq(AnyRow)]]
       /\ answer'[w] = NoAnswer
       /\ \A x \in Workers \ {w} : answer'[x] = answer[x]
  <2>1. -1 \in Keys /\ <<>> \in Seq(AnyRow)
    BY DEF Keys
  <2>2. QED
    BY <1>1, <1>2, <2>1, Finished DEF NoAnswer
<1>11. /\ running' \in [Workers -> Op \cup {Idle}] /\ running'[w] = Idle
       /\ \A x \in Workers \ {w} : running'[x] = running[x]
  BY <1>1, <1>2 DEF ThreadTypes
<1>12. ThreadTypes'
  BY <1>1, <1>2, <1>10, <1>11 DEF ThreadTypes
<1>13. \A x \in Workers \ {w} : ThreadOK(x)'
  BY <1>2, <1>10, <1>11, ThreadUntouched DEF IInv
<1>14. Resting(w)'
  BY <1>2, <1>3, <1>10, <1>11 DEF Resting, AllWrites, NoAnswer
<1>15. QED
  BY <1>4, <1>7, <1>8, <1>9, <1>12, <1>13, <1>14 DEF IInv, ThreadOK

-----------------------------------------------------------------------------
(* The invariant is inductive.                                             *)
LEMMA NextIInv ==
    ASSUME IInv, [PipelineNext]_allVars
    PROVE  IInv'
<1>1. CASE UNCHANGED allVars
  <2>1. UNCHANGED vars /\ UNCHANGED <<hash, scriptLoaded, queryQueue, resultQueue, crashed>>
    BY <1>1 DEF allVars, pipelineVars, given
  <2>2. UNCHANGED <<running, awaits, left, answer, pipe, reply, ids, listed, described, stored>>
    BY <1>1 DEF allVars, pipelineVars, threadVars, redisVars
  <2>3. ServedInv' /\ OwnInv' /\ ops' = ops
    BY <2>1, ManagerStep DEF IInv, vars
  <2>4. GameTypes' /\ ThreadTypes' /\ RedisTypes' /\ ResultsGood'
    BY <2>1, <2>2 DEF IInv, GameTypes, ThreadTypes, RedisTypes, ResultsGood
  <2>5. Placed'
    BY <2>1, <2>2, <2>3
       DEF IInv, Placed, QueuedExist, RunningExist, ResultsExist, QueuedOnce, RunningOnce,
           ResultsOnce, NotQueuedAndRunning, NotQueuedAndDone, NotRunningAndDone
  <2>6. \A w \in Workers : ThreadOK(w)'
    BY <2>2, ThreadUntouched DEF IInv
  <2>7. QED
    BY <2>3, <2>4, <2>5, <2>6 DEF IInv
<1>2. CASE GameStep
  BY <1>2, GameStepKeeps
<1>3. ASSUME NEW w \in Workers, RunFrameStep(w) PROVE IInv'
  BY <1>3, FrameStepKeeps
<1>4. ASSUME NEW w \in Workers, Take(w) \/ Execute(w) \/ Continue(w) \/ PutResult(w)
      PROVE  IInv'
  BY <1>4, TakeKeeps, ExecuteKeeps, ContinueKeeps, PutResultKeeps
<1>5. QED
  BY <1>1, <1>2, <1>3, <1>4 DEF PipelineNext

(* At any time every operation is in one place: queued, run by a thread or *)
(* among its results; each thread waits for what it has sent (ThreadOK),   *)
(* and what is stored, sent and loaded for a player is the player's own.   *)
THEOREM PipelineInvariant == PipelineSpec => []IInv
BY InitIInv, NextIInv, PTL DEF PipelineSpec

(* Every variable of the pipeline has its type.                            *)
THEOREM PipelineTypes == PipelineSpec => []PipelineTypeOK
<1>1. ASSUME IInv PROVE PipelineTypeOK
  <2>1. GameTypes /\ ThreadTypes /\ RedisTypes /\ \A w \in Workers : ThreadOK(w)
    BY <1>1 DEF IInv
  <2>2. ASSUME NEW w \in Workers
        PROVE  /\ answer[w].id \in Keys
               /\ \A i \in DOMAIN resultQueue[w] : resultQueue[w][i].op \in Op
    <3>1. answer[w] \in [id : Keys, rows : Seq(AnyRow)] /\ resultQueue[w] \in Seq(Result)
      BY <2>1 DEF GameTypes, ThreadTypes
    <3>2. \A i \in DOMAIN resultQueue[w] : resultQueue[w][i] \in Result
      BY <3>1
    <3>3. QED
      BY <3>1, <3>2 DEF Result
  <2>3. ASSUME NEW w \in Workers, running[w] # Idle, running[w].type = "SelectData"
        PROVE  answer[w].rows \in Seq(Rows(running[w].steamId))
    <3>1. CASE Answered(w)
      BY <2>3, <3>1 DEF Answered, GoodAnswer
    <3>2. CASE SlowPath(w)
      BY <3>2 DEF SlowPath
    <3>3. CASE answer[w] = NoAnswer
      BY <3>3 DEF NoAnswer
    <3>4. Answered(w) \/ SlowPath(w) \/ answer[w] = NoAnswer
      BY <2>1, <2>3 DEF ThreadOK, Resting, AsksForId, RunsScript, AsksForKeys, AsksForKeyId,
                        AsksForValue
    <3>5. QED
      BY <3>1, <3>2, <3>3, <3>4
  <2>4. QED
    BY <2>1, <2>2, <2>3 DEF GameTypes, ThreadTypes, RedisTypes, PipelineTypeOK
<1>2. QED
  BY <1>1, PipelineInvariant, PTL

(* Every step is one of CookieManager's or leaves its state alone.         *)
LEMMA StepIsManager ==
    ASSUME IInv, [PipelineNext]_allVars
    PROVE  [Next]_vars
<1>1. CASE UNCHANGED allVars
  BY <1>1 DEF allVars
<1>2. CASE GameStep
  BY <1>2, GameStepIsGame DEF Next
<1>3. ASSUME NEW w \in Workers, RunFrameStep(w) PROVE Next
  BY <1>3, FrameStepIsFrame DEF Next
<1>4. ASSUME NEW w \in Workers, Take(w) \/ Execute(w) \/ Continue(w) \/ PutResult(w)
      PROVE  UNCHANGED vars
  BY <1>4 DEF Take, Execute, Continue, PutResult
<1>5. QED
  BY <1>1, <1>2, <1>3, <1>4 DEF PipelineNext

(* The queue, the threads and Redis implement CookieManager: whatever the  *)
(* number of threads, an operation comes back once, with an answer of the  *)
(* right kind for its own player.  The threads' steps and Redis's stutter. *)
THEOREM Refines == PipelineSpec => ImplementsCookieManager
<1>1. PipelineInit => Init
  BY DEF PipelineInit
<1>2. QED
  BY <1>1, StepIsManager, PipelineInvariant, PTL DEF PipelineSpec, ImplementsCookieManager

(* So what is proved of CookieManager holds with any number of threads.    *)
THEOREM PipelineKeepsPromises ==
    PipelineSpec => /\ [](ServedOnce /\ LoadedIsCurrent /\ PointerIsNewest /\ OwnValuesOnly)
                    /\ LoadedValuesStable /\ IdStable
BY Refines, PlayersServedOnce, LoadedPlayersCurrent, PointersNewest, ValuesOwn, LoadedStable,
   IdsStable, PTL DEF Spec, ImplementsCookieManager

-----------------------------------------------------------------------------
(***************************************************************************)
(* No exception leaves a query thread.                                     *)
(*                                                                         *)
(* A thread throws when a cookie it finds has no description or when       *)
(* SelectId finds no id.  SafeInv, on top of IInv, says that Redis never   *)
(* has an id without a description, because on every connection the        *)
(* description goes before the id (DescribedFirst); that the keys and      *)
(* replies a thread has are of described cookies; and that SelectId is     *)
(* only queued once the id is stored or on its way (IdSent).               *)
(* The last is enough when the id and the query are on the same connection,*)
(* hence the hypothesis InOrderOrNoZero: SelectId is only used for a name  *)
(* that hashes to 0.                                                       *)
(***************************************************************************)

(* Names are described before they have an id, in Redis and on the way.    *)
SetsId(c, n) == c.cmd = "SET id" /\ c.name = n
Describes(c, n) == c.cmd = "SET desc" /\ c.name = n

KnownDescribed == \A n \in Names : ids[n] # Nil => n \in described
DescribedFirst(s, D) ==
    \A i \in DOMAIN s : s[i].cmd = "SET id" =>
        s[i].name \in D \/ \E j \in 1 .. i - 1 : Describes(s[j], s[i].name)
KeysDescribed == \A w \in Workers : \A j \in DOMAIN left[w] : left[w][j] \in described

(* What a thread has been told is enough for it to go on.                  *)
Told(w) == running[w] # Idle /\ reply[w] # <<>>
Found(w) ==
    /\ Told(w) /\ awaits[w] = "script" /\ reply[w][1] # Nil =>
            \A i \in DOMAIN reply[w][1] : reply[w][1][i].desc
    /\ Told(w) /\ awaits[w] = "keys" =>
            \A j \in DOMAIN reply[w][1] : reply[w][1][j] \in described
    /\ Told(w) /\ awaits[w] = "value" /\ Len(reply[w]) = 2 => reply[w][2]
    /\ Told(w) /\ awaits[w] = "id" /\ running[w].type = "InsertCookie" /\ reply[w][1] # Nil =>
            ids[running[w].cookie] # Nil
    /\ Told(w) /\ awaits[w] = "id" /\ running[w].type = "SelectId" => reply[w][1] # Nil

(* An id is asked for with SelectId only once it is stored or on its way.  *)
OnItsWay(n) == \E w \in Workers : \E i \in DOMAIN pipe[w] : SetsId(pipe[w][i], n)
IdSent(n) == ids[n] # Nil \/ OnItsWay(n)

SelectsSent == \A o \in ops : o.type = "SelectId" => 0 \in CookieIds /\ IdSent(o.cookie)
InsertedSent ==
    \A w \in Workers :
        running[w] # Idle /\ running[w].type = "InsertCookie" /\ awaits[w] = "done" =>
            IdSent(running[w].cookie)
ResultsSent ==
    \A w \in Workers : \A i \in DOMAIN resultQueue[w] :
        resultQueue[w][i].op.type = "InsertCookie" => IdSent(resultQueue[w][i].op.cookie)

SafeInv ==
    /\ ~crashed
    /\ KnownDescribed /\ KeysDescribed
    /\ \A w \in Workers : DescribedFirst(pipe[w], described) /\ Found(w)
    /\ SelectsSent /\ InsertedSent /\ ResultsSent

-----------------------------------------------------------------------------
(* Who asks for ids.                                                       *)
NoSelectId(S) == \A o \in S : o.type # "SelectId"

LEMMA NewOps ==
    /\ \A S : NoSelectId(SelectOps(S)) /\ \A k : NoSelectId(InsertCookieOps(S, k))
    /\ \A c, k : NoSelectId({SelectOp(c, k)})
    /\ \A c : NoSelectId(SaveOps(c))
BY DEF NoSelectId, SelectOps, SelectOp, InsertCookieOps, SaveOps

LEMMA ReconnectionAsksNoId ==
    ASSUME NEW new, NoSelectId(new), AttemptReconnection(new)
    PROVE  NoSelectId(ops' \ ops)
BY NewOps DEF AttemptReconnection, Submit, NoSelectId

LEMMA GameAsksNoId ==
    ASSUME Server \/ Native
    PROVE  NoSelectId(ops' \ ops)
<1>1. NoSelectId({})
  BY DEF NoSelectId
<1>2. ASSUME NEW c \in Slots, NEW p \in Players, ClientConnect(c, p)
      PROVE  NoSelectId(ops' \ ops)
  BY <1>2 DEF ClientConnect, NoSelectId
<1>3. ASSUME NEW c \in Slots, OnClientAuthorized(c)
      PROVE  NoSelectId(ops' \ ops)
  BY <1>3, NewOps DEF OnClientAuthorized, Submit, NoSelectId
<1>4. ASSUME NEW c \in Slots, OnClientDisconnecting(c)
      PROVE  NoSelectId(ops' \ ops)
  BY <1>4, NewOps DEF OnClientDisconnecting, Submit, NoSelectId
<1>5. ASSUME NEW n \in Names, RegClientCookie(n)
      PROVE  NoSelectId(ops' \ ops)
  BY <1>5, NewOps, ReconnectionAsksNoId DEF RegClientCookie
<1>6. ASSUME \/ \E n \in Names, c \in Slots : GetClientCookie(n, c)
             \/ \E n \in Names, c \in Slots, v \in Value : SetClientCookie(n, c, v)
             \/ CheckMissed
      PROVE  NoSelectId(ops' \ ops)
  BY <1>1, <1>6, ReconnectionAsksNoId DEF GetClientCookie, SetClientCookie, CheckMissed
<1>7. ASSUME NEW n \in Names, NEW c \in Slots, NEW v \in Value, OnMenuSelect(n, c, v)
      PROVE  NoSelectId(ops' \ ops)
  BY <1>7 DEF OnMenuSelect, NoSelectId
<1>8. ASSUME NEW n \in Names, NEW v \in Value, SetAuthIdCookie(n, v)
      PROVE  NoSelectId(ops' \ ops)
  <2> DEFINE o == [id |-> New(MaxClients + 1), type |-> "InsertData",
                   steamId |-> v.by, cookieId |-> dbid[n], value |-> v]
  <2>1. AttemptReconnection({}) \/ AttemptReconnection({o})
    BY <1>8 DEF SetAuthIdCookie
  <2>2. NoSelectId({o})
    BY DEF NoSelectId
  <2>3. QED
    BY <1>1, <2>1, <2>2, ReconnectionAsksNoId
<1>9. QED
  BY <1>2, <1>3, <1>4, <1>5, <1>6, <1>7, <1>8 DEF Server, Native

(* Only the answer 0 to InsertCookie makes the game thread ask again.      *)
LEMMA FrameAsksForId ==
    ASSUME IInv, NEW w \in Workers, RunFrameStep(w),
           NEW o \in ops' \ ops, o.type = "SelectId"
    PROVE  /\ 1 \in DOMAIN resultQueue[w] /\ resultQueue[w][1].op.type = "InsertCookie"
           /\ 0 \in CookieIds /\ o.cookie = resultQueue[w][1].op.cookie
<1> DEFINE r == Head(resultQueue[w])
<1>1. resultQueue[w] \in Seq(Result) /\ resultQueue[w] # <<>>
  BY DEF IInv, GameTypes, RunFrameStep
<1>2. r = resultQueue[w][1] /\ 1 \in DOMAIN resultQueue[w]
  BY <1>1
<1>3. GoodAnswer(r.op, r)
  BY <1>2 DEF IInv, ResultsGood
<1>4. \/ InsertCookieCallback(r.op, r.id)
      \/ SelectIdCallback(r.op, r.id)
      \/ InsertDataDone(r.op)
      \/ ClientConnectCallback(r.op, r.rows)
  BY DEF RunFrameStep
<1> HIDE DEF r
<1>5. CASE InsertCookieCallback(r.op, r.id)
  <2>1. r.id \in CookieIds /\ ~(r.id > 0) /\ o.cookie = r.op.cookie
    BY <1>3, <1>5 DEF InsertCookieCallback, Replace, GoodAnswer
  <2>2. r.id \in Nat
    BY <2>1, ConstantsAssumption
  <2>3. r.id = 0
    BY <2>1, <2>2
  <2>4. QED
    BY <1>2, <1>5, <2>1, <2>3 DEF InsertCookieCallback
<1>6. CASE SelectIdCallback(r.op, r.id) \/ InsertDataDone(r.op)
  BY <1>6 DEF SelectIdCallback, InsertDataDone, Replace
<1>7. CASE ClientConnectCallback(r.op, r.rows)
  <2>1. \E T : Replace(r.op, T) /\ NoSelectId(T)
    <3> DEFINE created == {i \in DOMAIN r.rows : r.rows[i].name \notin cookies}
               T == UNION {InsertCookieOps({r.rows[i].name}, i) : i \in created}
    <3>1. NoSelectId({}) /\ NoSelectId(T)
      BY NewOps DEF NoSelectId
    <3>2. Replace(r.op, {}) \/ Replace(r.op, T)
      BY <1>7 DEF ClientConnectCallback
    <3> HIDE DEF T
    <3>3. QED
      BY <3>1, <3>2
  <2>2. QED
    BY <2>1 DEF Replace, NoSelectId
<1>8. QED
  BY <1>4, <1>5, <1>6, <1>7

-----------------------------------------------------------------------------
(* Commands on their way.                                                  *)
LEMMA DescribedMore ==
    ASSUME NEW s, NEW D, NEW E, D \subseteq E, DescribedFirst(s, D)
    PROVE  DescribedFirst(s, E)
BY DEF DescribedFirst

LEMMA DescribedTail ==
    ASSUME NEW s \in Seq(Read \cup Write), s # <<>>, NEW D, NEW E, D \subseteq E,
           DescribedFirst(s, D), \A n : Describes(Head(s), n) => n \in E
    PROVE  DescribedFirst(Tail(s), E)
<1> DEFINE t == Tail(s)
           L == Len(s)
<1>1. /\ L \in Nat /\ L >= 1 /\ DOMAIN s = 1..L /\ Head(s) = s[1]
      /\ DOMAIN t = 1..(L - 1) /\ \A i \in 1..(L - 1) : t[i] = s[i + 1]
  OBVIOUS
<1> HIDE DEF t, L
<1>2. SUFFICES ASSUME NEW i \in DOMAIN t, t[i].cmd = "SET id", t[i].name \notin E
               PROVE  \E j \in 1 .. i - 1 : Describes(t[j], t[i].name)
  BY DEF DescribedFirst, t
<1>3. i \in 1..(L - 1) /\ i + 1 \in DOMAIN s /\ t[i] = s[i + 1]
  BY <1>1
<1>4. PICK j \in 1..i : Describes(s[j], t[i].name)
  <2>1. \E j \in 1 .. (i + 1) - 1 : Describes(s[j], s[i + 1].name)
    BY <1>2, <1>3 DEF DescribedFirst
  <2>2. (i + 1) - 1 = i
    BY <1>3
  <2>3. QED
    BY <1>3, <2>1, <2>2
<1>5. j # 1
  BY <1>1, <1>2, <1>4
<1>6. j - 1 \in 1 .. i - 1 /\ t[j - 1] = s[j]
  <2>1. j - 1 \in 1 .. i - 1 /\ j - 1 \in 1 .. L - 1 /\ (j - 1) + 1 = j
    BY <1>1, <1>3, <1>5
  <2>2. QED
    BY <1>1, <2>1
<1>7. QED
  BY <1>4, <1>6

LEMMA OneMore ==
    ASSUME NEW S, NEW s \in Seq(S), NEW c \in S
    PROVE  /\ Len(s) \in Nat /\ DOMAIN s = 1..Len(s)
           /\ DOMAIN (s \o <<c>>) = 1..(Len(s) + 1)
           /\ (s \o <<c>>)[Len(s) + 1] = c
           /\ \A i \in 1..Len(s) : (s \o <<c>>)[i] = s[i]
<1>1. s \o <<c>> = Append(s, c)
  OBVIOUS
<1>2. QED
  BY <1>1

SetsNoId(c) == c.cmd # "SET id"

LEMMA DescribedAppended ==
    ASSUME NEW s \in Seq(Read \cup Write), NEW c \in Read \cup Write, NEW D,
           DescribedFirst(s, D), SetsNoId(c)
    PROVE  DescribedFirst(s \o <<c>>, D)
<1> DEFINE t == s \o <<c>>
           L == Len(s)
<1>1. /\ L \in Nat /\ DOMAIN s = 1..L /\ t[L + 1] = c
      /\ \A i \in 1..L : t[i] = s[i]
  BY OneMore
<1>2. DOMAIN t = 1..(L + 1)
  BY OneMore
<1>3. \A i \in DOMAIN t : i = L + 1 \/ i \in 1..L
  BY <1>1, <1>2
<1> HIDE DEF t, L
<1>4. SUFFICES ASSUME NEW i \in DOMAIN t, t[i].cmd = "SET id", t[i].name \notin D
               PROVE  \E j \in 1 .. i - 1 : Describes(t[j], t[i].name)
  BY DEF DescribedFirst, t
<1>5. i \in 1..L /\ t[i] = s[i]
  <2>1. i # L + 1
    BY <1>1, <1>4 DEF SetsNoId
  <2>2. QED
    BY <1>1, <1>3, <2>1
<1>6. PICK j \in 1 .. i - 1 : Describes(s[j], s[i].name)
  BY <1>1, <1>4, <1>5 DEF DescribedFirst
<1>7. t[j] = s[j]
  <2>1. j \in 1..L
    BY <1>1, <1>5
  <2>2. QED
    BY <1>1, <2>1
<1>8. QED
  BY <1>5, <1>6, <1>7

-----------------------------------------------------------------------------
(* The initial states, and the game thread's steps.                        *)
LEMMA InitSafe == PipelineInit => SafeInv
<1> SUFFICES ASSUME PipelineInit PROVE SafeInv
  OBVIOUS
<1>1. ~crashed
  BY DEF PipelineInit
<1>2. KnownDescribed
  BY DEF PipelineInit, KnownDescribed
<1>3. \A w \in Workers : running[w] = Idle /\ DOMAIN left[w] = {} /\ DOMAIN pipe[w] = {}
                         /\ DOMAIN resultQueue[w] = {}
  BY DEF PipelineInit
<1>4. SelectsSent
  BY DEF PipelineInit, Init, SelectsSent
<1>5. QED
  BY <1>1, <1>2, <1>3, <1>4
     DEF SafeInv, KeysDescribed, DescribedFirst, Found, Told, InsertedSent, ResultsSent

LEMMA LongerPipes ==
    ASSUME ThreadTypes, ids' = ids,
           \A x \in Workers : \/ pipe'[x] = pipe[x]
                              \/ \E cs \in Seq(Read \cup Write) : pipe'[x] = pipe[x] \o cs
    PROVE  \A n : IdSent(n) => IdSent(n)'
<1>1. SUFFICES ASSUME NEW n, OnItsWay(n) PROVE OnItsWay(n)'
  BY DEF IdSent
<1>2. PICK x \in Workers : \E i \in DOMAIN pipe[x] : SetsId(pipe[x][i], n)
  BY <1>1 DEF OnItsWay
<1>3. PICK i \in DOMAIN pipe[x] : SetsId(pipe[x][i], n)
  BY <1>2
<1>4. i \in DOMAIN pipe'[x] /\ pipe'[x][i] = pipe[x][i]
  <2>1. CASE pipe'[x] = pipe[x]
    BY <2>1
  <2>2. ASSUME NEW cs \in Seq(Read \cup Write), pipe'[x] = pipe[x] \o cs
        PROVE  i \in DOMAIN pipe'[x] /\ pipe'[x][i] = pipe[x][i]
    <3>1. PICK s \in Seq(Read \cup Write) : s = pipe[x]
      BY DEF ThreadTypes
    <3>2. i \in DOMAIN s /\ DOMAIN s = 1..Len(s) /\ Len(s) \in Nat /\ Len(cs) \in Nat
      BY <3>1
    <3>3. i \in DOMAIN (s \o cs) /\ (s \o cs)[i] = s[i]
      BY <3>2, Concatenation
    <3>4. QED
      BY <2>2, <3>1, <3>3
  <2>3. QED
    BY <2>1, <2>2
<1>5. QED
  BY <1>3, <1>4 DEF OnItsWay, SetsId

LEMMA GameSafe ==
    ASSUME IInv, SafeInv, GameStep \/ \E w \in Workers : RunFrameStep(w)
    PROVE  SafeInv'
<1>1. ~crashed' /\ UNCHANGED <<running, awaits, left, answer, pipe, reply>>
      /\ UNCHANGED <<ids, listed, described, stored>>
  BY DEF GameStep, RunFrameStep, threadVars, redisVars, SafeInv
<1>2. KnownDescribed' /\ KeysDescribed'
  BY <1>1 DEF SafeInv, KnownDescribed, KeysDescribed
<1>3. \A w \in Workers : DescribedFirst(pipe[w], described)' /\ Found(w)'
  BY <1>1 DEF SafeInv, DescribedFirst, Found, Told
<1>4. \A n : IdSent(n) = IdSent(n)'
  BY <1>1 DEF IdSent, OnItsWay
<1>5. InsertedSent'
  BY <1>1, <1>4 DEF SafeInv, InsertedSent
<1>6. SelectsSent /\ ResultsSent
  BY DEF SafeInv
<1>7. CASE GameStep
  <2>1. NoSelectId(ops' \ ops)
    BY <1>7, GameStepIsGame, GameAsksNoId
  <2>2. SelectsSent'
    BY <1>4, <1>6, <2>1 DEF SelectsSent, NoSelectId
  <2>3. ResultsSent'
    BY <1>4, <1>6, <1>7 DEF ResultsSent, GameStep
  <2>4. QED
    BY <1>1, <1>2, <1>3, <1>5, <2>2, <2>3 DEF SafeInv
<1>8. ASSUME NEW w \in Workers, RunFrameStep(w) PROVE SafeInv'
  <2>1. SelectsSent'
    <3>1. SUFFICES ASSUME NEW o \in ops', o.type = "SelectId"
                   PROVE  0 \in CookieIds /\ IdSent(o.cookie)'
      BY DEF SelectsSent
    <3>2. CASE o \in ops
      BY <1>4, <1>6, <3>1, <3>2 DEF SelectsSent
    <3>3. CASE o \notin ops
      BY <1>4, <1>6, <1>8, <3>1, <3>3, FrameAsksForId DEF ResultsSent
    <3>4. QED
      BY <3>2, <3>3
  <2>2. ResultsSent'
    <3>1. resultQueue \in [Workers -> Seq(Result)] /\ resultQueue[w] \in Seq(Result)
      BY DEF IInv, GameTypes
    <3>2. /\ resultQueue[w] # <<>> /\ resultQueue' = [resultQueue EXCEPT ![w] = Tail(@)]
      BY <1>8 DEF RunFrameStep
    <3>3. \A x \in Workers : \A j \in DOMAIN resultQueue'[x] :
             \E i \in DOMAIN resultQueue[x] : resultQueue'[x][j] = resultQueue[x][i]
      <4>1. \A j \in DOMAIN Tail(resultQueue[w]) :
               j + 1 \in DOMAIN resultQueue[w] /\ Tail(resultQueue[w])[j] = resultQueue[w][j + 1]
        BY <3>1, <3>2
      <4>2. QED
        BY <3>1, <3>2, <4>1
    <3>4. QED
      BY <1>4, <1>6, <3>3 DEF ResultsSent
  <2>3. QED
    BY <1>1, <1>2, <1>3, <1>5, <2>1, <2>2 DEF SafeInv
<1>9. QED
  BY <1>7, <1>8

-----------------------------------------------------------------------------
(* A thread takes a query.                                                 *)
LEMMA TakeSafe ==
    ASSUME IInv, SafeInv, NEW w \in Workers, Take(w)
    PROVE  SafeInv'
<1> DEFINE o == Head(queryQueue)
<1>1. ThreadTypes
  BY DEF IInv
<1>2. /\ UNCHANGED <<vars, given, left, answer, resultQueue, crashed, redisVars>>
      /\ running' = [running EXCEPT ![w] = o]
  BY DEF Take
<1>3. UNCHANGED <<ids, described, ops>>
  BY <1>2 DEF redisVars, vars
<1>4. PICK c, what : /\ Send(w, <<c>>, what) /\ c \in Read \cup Write
                     /\ SetsNoId(c) /\ (what = "done" => o.type = "InsertData")
  <2>1. o \in ops /\ o \in Op /\ TypeOK /\ OwnInv
    <3>1. queryQueue \in Seq(Op) /\ queryQueue # <<>>
      BY DEF IInv, GameTypes, Take
    <3>2. o = queryQueue[1] /\ 1 \in DOMAIN queryQueue
      BY <3>1
    <3>3. QED
      BY <3>1, <3>2 DEF IInv, Placed, QueuedExist, ServedInv
  <2> HIDE DEF o
  <2>2. CASE o.type \in {"InsertCookie", "SelectId"} /\ Send(w, <<GetId(o.cookie)>>, "id")
    <3>1. GetId(o.cookie) \in Read /\ SetsNoId(GetId(o.cookie))
      BY <2>1, <2>2, OpFields, Commands DEF GetId, SetsNoId
    <3>2. QED
      BY <2>2, <3>1
  <2>3. CASE o.type = "SelectData" /\ Send(w, <<EvalSha(o.steamId)>>, "script")
    <3>1. EvalSha(o.steamId) \in Read /\ SetsNoId(EvalSha(o.steamId))
      BY <2>1, <2>3, OpFields, Commands DEF EvalSha, SetsNoId
    <3>2. QED
      BY <2>3, <3>1
  <2>4. CASE /\ o.type = "InsertData"
             /\ Send(w, <<SetValue(o.steamId, o.cookieId, o.value)>>, "done")
    <3>1. /\ SetValue(o.steamId, o.cookieId, o.value) \in Write
          /\ SetsNoId(SetValue(o.steamId, o.cookieId, o.value))
      BY <2>1, <2>4, SavesOwn, Commands DEF SetValue, SetsNoId
    <3>2. QED
      BY <2>4, <3>1
  <2>5. QED
    BY <2>2, <2>3, <2>4 DEF Take, o
<1> HIDE DEF o
<1>5. /\ running'[w] = o /\ pipe'[w] = pipe[w] \o <<c>>
      /\ awaits'[w] = what /\ reply'[w] = <<>>
      /\ \A x \in Workers \ {w} :
            /\ running'[x] = running[x] /\ pipe'[x] = pipe[x]
            /\ awaits'[x] = awaits[x] /\ reply'[x] = reply[x]
  BY <1>1, <1>2, <1>4 DEF Send, ThreadTypes
<1>6. \A n : IdSent(n) => IdSent(n)'
  <2>1. <<c>> \in Seq(Read \cup Write)
    BY <1>4
  <2>2. QED
    BY <1>1, <1>3, <1>5, <2>1, LongerPipes
<1>7. \A x \in Workers : DescribedFirst(pipe[x], described)' /\ Found(x)'
  <2>1. DescribedFirst(pipe[w], described)'
    <3>1. pipe[w] \in Seq(Read \cup Write) /\ DescribedFirst(pipe[w], described)
      BY <1>1 DEF ThreadTypes, SafeInv
    <3>2. DescribedFirst(pipe[w] \o <<c>>, described)
      BY <1>4, <3>1, DescribedAppended
    <3>3. QED
      BY <1>3, <1>5, <3>2 DEF DescribedFirst
  <2>2. Found(w)'
    BY <1>5 DEF Found, Told
  <2>3. ASSUME NEW x \in Workers \ {w}
        PROVE  DescribedFirst(pipe[x], described)' /\ Found(x)'
    <3>1. DescribedFirst(pipe[x], described) /\ Found(x)
      BY DEF SafeInv
    <3>2. DescribedFirst(pipe[x], described)'
      BY <1>3, <1>5, <3>1 DEF DescribedFirst
    <3>3. Found(x)'
      BY <1>3, <1>5, <3>1 DEF Found, Told
    <3>4. QED
      BY <3>2, <3>3
  <2>4. QED
    BY <2>1, <2>2, <2>3
<1>8. SelectsSent' /\ ResultsSent'
  BY <1>2, <1>3, <1>6 DEF SafeInv, SelectsSent, ResultsSent
<1>9. InsertedSent'
  BY <1>4, <1>5, <1>6 DEF SafeInv, InsertedSent
<1>10. QED
  BY <1>2, <1>3, <1>7, <1>8, <1>9 DEF SafeInv, KnownDescribed, KeysDescribed

-----------------------------------------------------------------------------
(* Redis executes a command: what it knows grows.                          *)
LEMMA RedisGrows ==
    ASSUME IInv, SafeInv, NEW w \in Workers, Execute(w)
    PROVE  /\ described \subseteq described' /\ described' \subseteq Names
           /\ \A n : Describes(Head(pipe[w]), n) => n \in described'
           /\ \A n \in Names : ids[n] # Nil => ids'[n] # Nil
           /\ \A n : SetsId(Head(pipe[w]), n) => n \in Names /\ ids'[n] # Nil
           /\ KnownDescribed'
<1>1. PICK c : c = Head(pipe[w])
  OBVIOUS
<1>2. pipe[w] \in Seq(Read \cup Write) /\ pipe[w] # <<>>
  BY DEF IInv, ThreadTypes, Execute
<1>3. c \in Read \cup Write /\ c = pipe[w][1] /\ 1 \in DOMAIN pipe[w]
  BY <1>1, <1>2
<1>4. RedisTypes /\ RedisTypes' /\ KnownDescribed
  BY ExecuteKeeps DEF IInv, SafeInv
<1>5. described' \subseteq Names
  BY <1>4 DEF RedisTypes
<1>6. CASE c.cmd = "SET desc" /\ described' = described \cup {c.name} /\ UNCHANGED ids
  BY <1>1, <1>4, <1>5, <1>6 DEF Describes, SetsId, KnownDescribed
<1>7. CASE c.cmd = "SET id" /\ ids' = [ids EXCEPT ![c.name] = c.id] /\ UNCHANGED described
  <2>1. c.name \in Names /\ c.id \in CookieIds
    BY <1>3, <1>7 DEF Read, Write, OwnSave
  <2>2. c.id # Nil
    <3>1. \A k \in CookieIds : k \in Int
      BY ConstantsAssumption
    <3>2. QED
      BY <2>1, <3>1, PipelineAssumption
  <2>3. c.name \in described
    <3>1. DescribedFirst(pipe[w], described)
      BY DEF SafeInv
    <3>2. c.name \in described \/ \E j \in 1 .. 1 - 1 : Describes(pipe[w][j], c.name)
      BY <1>3, <1>7, <3>1 DEF DescribedFirst
    <3>3. QED
      BY <3>2
  <2>4. \A n \in Names : ids'[n] = IF n = c.name THEN c.id ELSE ids[n]
    BY <1>4, <1>7 DEF RedisTypes
  <2>5. KnownDescribed'
    BY <1>4, <1>7, <2>3, <2>4 DEF KnownDescribed
  <2>6. \A n : ~Describes(c, n)
    BY <1>7 DEF Describes
  <2>7. \A n : SetsId(c, n) => n \in Names /\ ids'[n] # Nil
    BY <2>1, <2>2, <2>4 DEF SetsId
  <2>8. QED
    BY <1>1, <1>5, <1>7, <2>2, <2>4, <2>5, <2>6, <2>7
<1>8. CASE c.cmd \notin {"SET desc", "SET id"} /\ UNCHANGED <<ids, described>>
  BY <1>1, <1>4, <1>5, <1>8 DEF Describes, SetsId, KnownDescribed
<1>9. QED
  <2>1. \/ c.cmd = "SET desc" /\ described' = described \cup {c.name} /\ UNCHANGED ids
        \/ c.cmd = "SET id" /\ ids' = [ids EXCEPT ![c.name] = c.id] /\ UNCHANGED described
        \/ c.cmd \notin {"SET desc", "SET id"} /\ UNCHANGED <<ids, described>>
    BY <1>1 DEF Execute
  <2>2. QED
    BY <1>6, <1>7, <1>8, <2>1

LEMMA SafeReplies ==
    ASSUME RedisTypes, KnownDescribed
    PROVE  /\ \A n : \A a \in Answers(GetId(n)) : a = ids[n]
           /\ \A n \in described : \A a \in Answers(GetDesc(n)) : a
           /\ \A a \in Answers(GetKeys) : \A j \in DOMAIN a : a[j] \in described
           /\ \A p \in Players : \A a \in Answers(EvalSha(p)) :
                a # Nil => \A i \in DOMAIN a : a[i].desc
<1>1. ASSUME NEW n, NEW a \in Answers(GetId(n)) PROVE a = ids[n]
  BY <1>1 DEF Answers, GetId
<1>6. ASSUME NEW n \in described, NEW a \in Answers(GetDesc(n)) PROVE a
  <2>1. a = (n \in described)
    BY <1>6 DEF Answers, GetDesc
  <2>2. QED
    BY <2>1
<1>2. Known \subseteq described /\ IsFiniteSet(Known)
  <2>1. Known \subseteq Names
    BY DEF Known
  <2>2. IsFiniteSet(Known)
    BY <2>1, PipelineAssumption, FS_Subset
  <2>3. QED
    BY <2>2 DEF Known, KnownDescribed
<1>3. \A a \in Answers(GetKeys) : \A j \in DOMAIN a : a[j] \in described
  <2>1. Answers(GetKeys) = SetToSeqs(Known)
    BY DEF Answers, GetKeys
  <2>2. SUFFICES ASSUME NEW a \in SetToSeqs(Known), NEW j \in DOMAIN a PROVE a[j] \in described
    BY <2>1
  <2>3. a \in Seq(Known)
    BY <1>2, AllMembers
  <2>4. QED
    BY <1>2, <2>3
<1>4. ASSUME NEW p \in Players, NEW a \in Answers(EvalSha(p)), a # Nil
      PROVE  \A i \in DOMAIN a : a[i].desc
  <2>1. Answers(EvalSha(p)) = IF scriptLoaded THEN SetToSeqs(ScriptRows(p)) ELSE {Nil}
    BY DEF Answers, EvalSha
  <2>2. a \in SetToSeqs(ScriptRows(p))
    BY <1>4, <2>1
  <2>3. IsFiniteSet(ScriptRows(p))
    <3> DEFINE S == listed \cap Known
               f == [n \in S |-> [name |-> n, value |-> stored[p][ids[n]],
                                   desc |-> n \in described]]
    <3>1. IsFiniteSet(S)
      BY <1>2, FS_Subset
    <3>2. IsFiniteSet({f[n] : n \in S})
      BY <3>1, ImageFinite
    <3>3. ScriptRows(p) = {f[n] : n \in S}
      BY DEF ScriptRows
    <3>4. QED
      BY <3>2, <3>3
  <2>4. ASSUME NEW e \in ScriptRows(p) PROVE e.desc
    <3>1. PICK n \in listed \cap Known : e.desc = (n \in described)
      BY <2>4 DEF ScriptRows
    <3>2. QED
      BY <1>2, <3>1
  <2>5. a \in Seq(ScriptRows(p))
    BY <2>2, <2>3, AllMembers
  <2>6. QED
    BY <2>4, <2>5
<1>5. QED
  BY <1>1, <1>3, <1>4, <1>6

LEMMA OnlyHead ==
    ASSUME NEW S, NEW s \in Seq(S), s # <<>>
    PROVE  Tail(s) = <<>> => s = <<Head(s)>>
<1>1. /\ Len(s) \in Nat /\ Len(s) >= 1 /\ Len(Tail(s)) = Len(s) - 1
      /\ Head(s) = s[1] /\ s \in [1..Len(s) -> S]
  OBVIOUS
<1>2. Len(<<>>) = 0
  OBVIOUS
<1>3. Tail(s) = <<>> => Len(Tail(s)) = 0
  BY <1>2, Zenon
<1>4. Tail(s) = <<>> => Len(s) = 1
  BY <1>1, <1>3
<1>5. Len(s) = 1 => s = <<Head(s)>>
  BY <1>1
<1>6. QED
  BY <1>4, <1>5

(* A command that is read is the last one of its connection.               *)
LEMMA LastIsRead ==
    ASSUME NEW s \in Seq(Read \cup Write), s # <<>>, Head(s) \in Read,
           NEW c, EndsWith(s, c)
    PROVE  Head(s) = c /\ s = <<c>>
<1>1. Head(s) \notin Write
  BY ReadOrWrite
<1>2. Head(s) = c /\ Tail(s) = <<>>
  BY <1>1, HeadAndTail
<1>3. s = <<Head(s)>>
  BY <1>2, OnlyHead
<1>4. QED
  BY <1>2, <1>3

(* With one thread, or no id 0, what a thread asks for after its saves is  *)
(* answered after them.                                                    *)
InOrderOrNoZero == 0 \notin CookieIds \/ \A x, y \in Workers : x = y

LEMMA IdSentGrows ==
    ASSUME IInv, SafeInv, NEW w \in Workers, Execute(w)
    PROVE  \A n \in Names : IdSent(n) => IdSent(n)'
<1>1. PICK s : s = pipe[w]
  OBVIOUS
<1>2. s \in Seq(Read \cup Write) /\ s # <<>> /\ ThreadTypes
  BY <1>1 DEF IInv, ThreadTypes, Execute
<1>3. pipe' = [pipe EXCEPT ![w] = Tail(@)]
  BY DEF Execute
<1>4. pipe'[w] = Tail(s) /\ \A x \in Workers \ {w} : pipe'[x] = pipe[x]
  BY <1>1, <1>2, <1>3 DEF ThreadTypes
<1>5. /\ Len(s) \in Nat /\ DOMAIN s = 1..Len(s) /\ Head(s) = s[1]
      /\ \A i \in DOMAIN s : i # 1 => i - 1 \in DOMAIN Tail(s) /\ Tail(s)[i - 1] = s[i]
  <2>1. /\ Len(s) \in Nat /\ Len(s) >= 1 /\ DOMAIN s = 1..Len(s) /\ Head(s) = s[1]
        /\ DOMAIN Tail(s) = 1..(Len(s) - 1)
        /\ \A i \in 1..(Len(s) - 1) : Tail(s)[i] = s[i + 1]
    BY <1>2
  <2>2. ASSUME NEW i \in DOMAIN s, i # 1
        PROVE  i - 1 \in DOMAIN Tail(s) /\ Tail(s)[i - 1] = s[i]
    <3>1. i - 1 \in 1..(Len(s) - 1) /\ (i - 1) + 1 = i
      BY <2>1, <2>2
    <3>2. QED
      BY <2>1, <3>1
  <2>3. QED
    BY <2>1, <2>2
<1>6. SUFFICES ASSUME NEW n \in Names, IdSent(n) PROVE IdSent(n)'
  OBVIOUS
<1>7. CASE ids[n] # Nil
  BY <1>7, RedisGrows DEF IdSent
<1>8. ASSUME NEW x \in Workers, NEW i \in DOMAIN pipe[x], SetsId(pipe[x][i], n)
      PROVE  IdSent(n)'
  <2>1. CASE x = w /\ i = 1
    <3>1. SetsId(Head(pipe[w]), n)
      BY <1>1, <1>5, <1>8, <2>1
    <3>2. QED
      BY <3>1, RedisGrows DEF IdSent
  <2>2. CASE x = w /\ i # 1
    <3>1. i - 1 \in DOMAIN pipe'[w] /\ pipe'[w][i - 1] = pipe[w][i]
      BY <1>1, <1>4, <1>5, <1>8, <2>2
    <3>2. \E j \in DOMAIN pipe'[w] : SetsId(pipe'[w][j], n)
      BY <1>8, <2>2, <3>1
    <3>3. QED
      BY <3>2 DEF IdSent, OnItsWay, SetsId
  <2>3. CASE x # w
    BY <1>4, <1>8, <2>3 DEF IdSent, OnItsWay, SetsId
  <2>4. QED
    BY <2>1, <2>2, <2>3
<1>9. QED
  BY <1>6, <1>7, <1>8 DEF IdSent, OnItsWay

(* The reply to thread w's own command.                                    *)
LEMMA ReplyFound ==
    ASSUME InOrderOrNoZero, IInv, SafeInv, NEW w \in Workers, Execute(w),
           Head(pipe[w]) \in Read
    PROVE  Found(w)'
<1>1. PICK s, c : s = pipe[w] /\ c = Head(s)
  OBVIOUS
<1>2. /\ RedisTypes /\ ThreadTypes /\ KnownDescribed /\ ThreadOK(w)
      /\ s \in Seq(Read \cup Write) /\ s # <<>> /\ c \in Read
  BY <1>1 DEF IInv, SafeInv, ThreadTypes, Execute
<1>3. /\ UNCHANGED <<vars, running, awaits, left, answer>>
      /\ UNCHANGED <<ids, described>>
  BY <1>1, <1>2, ReadExecuted DEF Execute
<1>4. PICK a \in Answers(c) : reply' = [reply EXCEPT ![w] = Append(@, a)]
  BY <1>1, <1>2, ReadExecuted
<1>5. reply'[w] = Append(reply[w], a)
  BY <1>2, <1>4 DEF ThreadTypes
<1>6. reply[w] = <<>> => reply'[w] = <<a>> /\ reply'[w][1] = a /\ Len(reply'[w]) = 1
  BY <1>5
<1>7. ASSUME NEW q, EndsWith(s, q) PROVE c = q /\ s = <<q>>
  BY <1>1, <1>2, <1>7, LastIsRead
<1>8. running[w] # Idle => running[w] \in Op /\ running[w] \in ops
  BY <1>2 DEF ThreadTypes, IInv, Placed, RunningExist
<1>9. CASE awaits[w] = "done"
  BY <1>3, <1>9 DEF Found
<1>10. CASE AsksForId(w)
  <2>1. PICK n : n = running[w].cookie
    OBVIOUS
  <2>2. reply[w] = <<>> /\ EndsWith(s, GetId(n))
    BY <1>1, <1>2, <1>10, <2>1 DEF AsksForId, Asked
  <2>3. c = GetId(n) /\ s = <<GetId(n)>>
    BY <1>7, <2>2
  <2>4. reply'[w][1] = ids[n] /\ Len(reply'[w]) = 1
    BY <1>2, <1>6, <2>2, <2>3, SafeReplies
  <2>5. running[w].type = "SelectId" => ids[n] # Nil
    <3>1. SUFFICES ASSUME running[w].type = "SelectId" PROVE ids[n] # Nil
      OBVIOUS
    <3>2. 0 \in CookieIds /\ IdSent(n)
      BY <1>8, <1>10, <2>1, <3>1 DEF AsksForId, SafeInv, SelectsSent
    <3>3. \A x \in Workers : pipe[x] = <<GetId(n)>>
      BY <1>1, <2>3, <3>2 DEF InOrderOrNoZero
    <3>4. \A x \in Workers : \A i \in DOMAIN pipe[x] : pipe[x][i] = GetId(n)
      BY <3>3
    <3>5. ~OnItsWay(n)
      <4>1. ~SetsId(GetId(n), n)
        BY DEF SetsId, GetId
      <4>2. QED
        BY <3>4, <4>1 DEF OnItsWay
    <3>6. QED
      BY <3>2, <3>5 DEF IdSent
  <2>6. awaits'[w] = "id" /\ running'[w] = running[w]
    BY <1>3, <1>10 DEF AsksForId
  <2>7. QED
    BY <1>3, <2>1, <2>4, <2>5, <2>6 DEF Found
<1>11. CASE RunsScript(w)
  <2>1. PICK p : p = running[w].steamId
    OBVIOUS
  <2>2. reply[w] = <<>> /\ EndsWith(s, EvalSha(p))
    BY <1>1, <1>2, <1>11, <2>1 DEF RunsScript, Asked
  <2>3. c = EvalSha(p) /\ p \in Players
    BY <1>7, <1>8, <1>11, <2>1, <2>2, OpFields DEF RunsScript, Loads
  <2>4. a # Nil => \A i \in DOMAIN a : a[i].desc
    BY <1>2, <2>3, SafeReplies
  <2>5. reply'[w][1] = a /\ awaits'[w] = "script"
    BY <1>3, <1>6, <1>11, <2>2 DEF RunsScript
  <2>6. QED
    BY <2>4, <2>5 DEF Found
<1>12. CASE AsksForKeys(w)
  <2>1. reply[w] = <<>> /\ EndsWith(s, GetKeys)
    BY <1>1, <1>2, <1>12 DEF AsksForKeys, Asked
  <2>2. c = GetKeys
    BY <1>7, <2>1
  <2>3. \A j \in DOMAIN a : a[j] \in described
    BY <1>2, <2>2, SafeReplies
  <2>4. reply'[w][1] = a /\ awaits'[w] = "keys"
    BY <1>3, <1>6, <1>12, <2>1 DEF AsksForKeys
  <2>5. QED
    BY <1>3, <2>3, <2>4 DEF Found
<1>13. CASE AsksForKeyId(w)
  <2>1. awaits'[w] = "id" /\ running'[w].type = "SelectData"
    BY <1>3, <1>13 DEF AsksForKeyId, Loads
  <2>2. QED
    BY <2>1 DEF Found
<1>14. CASE AsksForValue(w)
  <2>1. PICK p, n : p = running[w].steamId /\ n = left[w][1]
    OBVIOUS
  <2>2. n \in described
    <3>1. 1 \in DOMAIN left[w]
      BY <1>14 DEF AsksForValue, SlowPath, KeyLists
    <3>2. QED
      BY <2>1, <3>1 DEF SafeInv, KeysDescribed
  <2>3. awaits'[w] = "value"
    BY <1>3, <1>14 DEF AsksForValue
  <2>4. Len(reply'[w]) = 2 => reply'[w][2]
    <3>1. CASE reply[w] = <<>>
      BY <1>6, <3>1
    <3>2. ASSUME NEW v, pipe[w] = <<GetDesc(n)>>, reply[w] = <<v>> PROVE reply'[w][2]
      <4>1. c = GetDesc(n)
        BY <1>1, <3>2
      <4>2. a
        BY <1>2, <2>2, <4>1, SafeReplies
      <4>3. reply'[w] = <<v, a>>
        BY <1>5, <3>2, TwoReplies
      <4>4. QED
        BY <4>2, <4>3
    <3>3. ValueAsked(w, p, n)
      BY <1>14, <2>1 DEF AsksForValue
    <3>4. QED
      BY <1>1, <1>2, <3>1, <3>2, <3>3 DEF ValueAsked
  <2>5. QED
    BY <2>3, <2>4 DEF Found
<1>15. QED
  BY <1>2, <1>9, <1>10, <1>11, <1>12, <1>13, <1>14 DEF ThreadOK, Resting, Answered

LEMMA ExecuteSafe ==
    ASSUME InOrderOrNoZero, IInv, SafeInv, NEW w \in Workers, Execute(w)
    PROVE  SafeInv'
<1>1. /\ UNCHANGED <<vars, running, awaits, left, answer, resultQueue, crashed>>
      /\ pipe' = [pipe EXCEPT ![w] = Tail(@)] /\ pipe[w] # <<>>
  BY DEF Execute
<1>2. ThreadTypes /\ TypeOK /\ GameTypes /\ pipe[w] \in Seq(Read \cup Write)
  BY DEF IInv, ThreadTypes, ServedInv
<1>3. /\ pipe'[w] = Tail(pipe[w])
      /\ \A x \in Workers \ {w} : pipe'[x] = pipe[x]
  BY <1>1, <1>2 DEF ThreadTypes
<1>4. /\ described \subseteq described' /\ KnownDescribed'
      /\ \A n : Describes(Head(pipe[w]), n) => n \in described'
      /\ \A n \in Names : ids[n] # Nil => ids'[n] # Nil
  BY RedisGrows
<1>5. KeysDescribed' /\ ~crashed'
  BY <1>1, <1>4 DEF SafeInv, KeysDescribed
<1>6. \A n \in Names : IdSent(n) => IdSent(n)'
  BY IdSentGrows
<1>7. ASSUME NEW x \in Workers PROVE DescribedFirst(pipe[x], described)'
  <2>1. DescribedFirst(pipe[x], described)
    BY DEF SafeInv
  <2>2. CASE x = w
    <3>1. DescribedFirst(Tail(pipe[w]), described')
      BY <1>1, <1>2, <1>4, <2>1, <2>2, DescribedTail
    <3>2. QED
      BY <1>3, <2>2, <3>1 DEF DescribedFirst
  <2>3. CASE x # w
    <3>1. DescribedFirst(pipe[x], described')
      BY <1>4, <2>1, DescribedMore
    <3>2. QED
      BY <1>3, <2>3, <3>1 DEF DescribedFirst
  <2>4. QED
    BY <2>2, <2>3
<1>8. \A o \in Op : o.type \in {"InsertCookie", "SelectId"} => o.cookie \in Names
  BY OpFields
<1>9. ASSUME NEW x \in Workers, reply'[x] = reply[x] PROVE Found(x)'
  <2>1. Found(x)
    BY DEF SafeInv
  <2>2. running[x] # Idle => running[x] \in Op
    BY <1>2 DEF ThreadTypes
  <2>3. Told(x)' = Told(x) /\ awaits'[x] = awaits[x] /\ running'[x] = running[x]
    BY <1>1, <1>9 DEF Told
  <2>4. Told(x) => running[x] # Idle
    BY DEF Told
  <2>5. QED
    BY <1>4, <1>8, <1>9, <2>1, <2>2, <2>3, <2>4 DEF Found
<1>10. \A x \in Workers : Found(x)'
  <2>1. \A x \in Workers \ {w} : reply'[x] = reply[x]
    BY <1>2 DEF Execute, ThreadTypes
  <2>2. CASE Head(pipe[w]) \in Read
    BY <1>9, <2>1, <2>2, ReplyFound
  <2>3. CASE Head(pipe[w]) \in Write
    <3>1. reply' = reply
      BY <2>3, WriteExecuted DEF IInv
    <3>2. QED
      BY <1>9, <3>1
  <2>4. QED
    BY <1>1, <1>2, <2>2, <2>3, HeadAndTail
<1>11. SelectsSent'
  <2>1. \A o \in ops : o \in Op
    BY <1>2 DEF TypeOK
  <2>2. ops' = ops
    BY <1>1 DEF vars
  <2>3. QED
    BY <1>6, <1>8, <2>1, <2>2 DEF SafeInv, SelectsSent
<1>12. InsertedSent'
  <2>1. \A x \in Workers : running[x] # Idle => running[x] \in Op
    BY <1>2 DEF ThreadTypes
  <2>2. QED
    BY <1>1, <1>6, <1>8, <2>1 DEF SafeInv, InsertedSent
<1>13. ResultsSent'
  <2>1. ASSUME NEW x \in Workers, NEW i \in DOMAIN resultQueue[x]
        PROVE  resultQueue[x][i].op \in Op
    <3>1. resultQueue[x] \in Seq(Result)
      BY <1>2 DEF GameTypes
    <3>2. resultQueue[x][i] \in Result
      BY <3>1
    <3>3. QED
      BY <3>2 DEF Result
  <2>2. QED
    BY <1>1, <1>6, <1>8, <2>1 DEF SafeInv, ResultsSent
<1>14. QED
  BY <1>4, <1>5, <1>7, <1>10, <1>11, <1>12, <1>13 DEF SafeInv

-----------------------------------------------------------------------------
(* The threads go on: what a thread does to itself and to Redis's future.  *)
LEMMA SentOfCookie ==
    ASSUME NEW x \in Workers, NEW n, n = running'[x].cookie, IdSent(n)'
    PROVE  IdSent(running[x].cookie)'
BY DEF IdSent, OnItsWay, SetsId

LEMMA WholeStep ==
    ASSUME IInv, SafeInv, NEW w \in Workers,
           UNCHANGED <<vars, ids, described, resultQueue>>, ~crashed',
           \A n : IdSent(n) => IdSent(n)',
           \A x \in Workers \ {w} :
              /\ running'[x] = running[x] /\ awaits'[x] = awaits[x] /\ left'[x] = left[x]
              /\ pipe'[x] = pipe[x] /\ reply'[x] = reply[x],
           DescribedFirst(pipe[w], described)', reply'[w] = <<>>,
           \A j \in DOMAIN left'[w] : left'[w][j] \in described,
           running'[w] # Idle /\ running'[w].type = "InsertCookie" /\ awaits'[w] = "done" =>
              IdSent(running[w].cookie)'
    PROVE  SafeInv'
<1>1. KnownDescribed'
  BY DEF SafeInv, KnownDescribed
<1>2. KeysDescribed'
  BY DEF SafeInv, KeysDescribed
<1>3. ASSUME NEW x \in Workers PROVE DescribedFirst(pipe[x], described)' /\ Found(x)'
  <2>1. CASE x = w
    BY <2>1 DEF Found, Told
  <2>2. CASE x # w
    <3>1. DescribedFirst(pipe[x], described) /\ Found(x)
      BY DEF SafeInv
    <3>2. DescribedFirst(pipe[x], described)'
      BY <2>2, <3>1 DEF DescribedFirst
    <3>3. Found(x)'
      BY <2>2, <3>1 DEF Found, Told
    <3>4. QED
      BY <3>2, <3>3
  <2>3. QED
    BY <2>1, <2>2
<1>4. SelectsSent'
  BY DEF SafeInv, SelectsSent, vars
<1>5. ResultsSent'
  BY DEF SafeInv, ResultsSent
<1>6. InsertedSent'
  <2>1. InsertedSent
    BY DEF SafeInv
  <2>2. ASSUME NEW x \in Workers,
               running'[x] # Idle, running'[x].type = "InsertCookie", awaits'[x] = "done"
        PROVE  IdSent(running[x].cookie)'
    <3>1. CASE x = w
      BY <2>2, <3>1
    <3>2. CASE x # w
      <4>1. PICK n : n = running[x].cookie /\ n = running'[x].cookie
        BY <3>2
      <4>2. IdSent(n)
        BY <2>1, <2>2, <3>2, <4>1 DEF InsertedSent
      <4>3. IdSent(n)'
        BY <4>2
      <4>4. QED
        BY <4>1, <4>3, SentOfCookie
    <3>3. QED
      BY <3>1, <3>2
  <2>3. QED
    BY <2>2 DEF InsertedSent
<1>7. QED
  BY <1>1, <1>2, <1>3, <1>4, <1>5, <1>6 DEF SafeInv

(* What a thread sends, its connection being empty.                        *)
LEMMA SendsAlone ==
    ASSUME ThreadTypes, NEW w \in Workers, pipe[w] = <<>>, ids' = ids,
           NEW cs \in Seq(Read \cup Write), NEW what, Send(w, cs, what)
    PROVE  /\ pipe'[w] = cs /\ awaits'[w] = what /\ reply'[w] = <<>>
           /\ \A x \in Workers \ {w} :
                 pipe'[x] = pipe[x] /\ awaits'[x] = awaits[x] /\ reply'[x] = reply[x]
           /\ \A n : IdSent(n) => IdSent(n)'
<1>1. /\ pipe'[w] = pipe[w] \o cs /\ awaits'[w] = what /\ reply'[w] = <<>>
      /\ \A x \in Workers \ {w} :
            pipe'[x] = pipe[x] /\ awaits'[x] = awaits[x] /\ reply'[x] = reply[x]
  BY DEF ThreadTypes, Send
<1>2. pipe'[w] = cs
  BY <1>1
<1>3. \A n : IdSent(n) => IdSent(n)'
  BY <1>1, LongerPipes
<1>4. QED
  BY <1>1, <1>2, <1>3

LEMMA SmallSends ==
    /\ \A D : DescribedFirst(<<>>, D)
    /\ \A c, D : SetsNoId(c) => DescribedFirst(<<c>>, D)
    /\ \A c, d, D : SetsNoId(c) /\ SetsNoId(d) => DescribedFirst(<<c, d>>, D)
<1>1. ASSUME NEW s, \A i \in DOMAIN s : SetsNoId(s[i]), NEW D PROVE DescribedFirst(s, D)
  BY <1>1 DEF DescribedFirst, SetsNoId
<1>2. /\ DOMAIN <<>> = {} /\ \A c : \A i \in DOMAIN <<c>> : <<c>>[i] = c
      /\ \A c, d : \A i \in DOMAIN <<c, d>> : <<c, d>>[i] = c \/ <<c, d>>[i] = d
  OBVIOUS
<1>3. QED
  BY <1>1, <1>2

LEMMA InsertCookieSafe ==
    ASSUME IInv, SafeInv, NEW w \in Workers, running[w] # Idle, InsertCookieThread(w),
           UNCHANGED <<vars, running, ids, described, resultQueue>>
    PROVE  SafeInv'
<1>1. ThreadTypes /\ GameTypes /\ ThreadOK(w)
  BY DEF IInv
<1>2. AsksForId(w) /\ reply[w] # <<>> /\ running[w].type = "InsertCookie" /\ awaits[w] = "id"
  BY <1>1 DEF InsertCookieThread, ThreadOK, Resting, Answered, AsksForId, RunsScript,
              AsksForKeys, AsksForKeyId, AsksForValue, Loads
<1>3. PICK n, id : n = running[w].cookie /\ id = reply[w][1]
  OBVIOUS
<1>4. pipe[w] = <<>> /\ id \in IdReplies
  BY <1>2, <1>3 DEF AsksForId, Asked
<1>5. n \in Names /\ hash[n] \in CookieIds
  <2>1. running[w] \in Op
    BY <1>1 DEF ThreadTypes
  <2>2. n \in Names
    BY <1>2, <1>3, <2>1, OpFields
  <2>3. QED
    BY <1>1, <2>2 DEF GameTypes
<1>6. AddToList(n) \in Write /\ SetDesc(n) \in Write /\ SetId(n, hash[n]) \in Write
  BY <1>5, Commands
<1>7. /\ UNCHANGED <<left, crashed>>
      /\ \/ id # Nil /\ Send(w, <<AddToList(n)>>, "done")
         \/ id = Nil /\ Send(w, <<AddToList(n), SetDesc(n), SetId(n, hash[n])>>, "done")
  BY <1>3 DEF InsertCookieThread
<1>8. \A j \in DOMAIN left'[w] : left'[w][j] \in described
  BY <1>7 DEF SafeInv, KeysDescribed
<1>9. ASSUME NEW cs \in Seq(Read \cup Write), Send(w, cs, "done"),
             DescribedFirst(cs, described),
             ids[n] # Nil \/ \E i \in DOMAIN cs : SetsId(cs[i], n)
      PROVE  SafeInv'
  <2>1. /\ pipe'[w] = cs /\ reply'[w] = <<>>
        /\ \A x \in Workers \ {w} :
              pipe'[x] = pipe[x] /\ awaits'[x] = awaits[x] /\ reply'[x] = reply[x]
        /\ \A m : IdSent(m) => IdSent(m)'
    BY <1>1, <1>4, <1>9, SendsAlone
  <2>2. DescribedFirst(pipe[w], described)'
    BY <1>9, <2>1 DEF DescribedFirst
  <2>3. ids'[n] # Nil \/ \E i \in DOMAIN pipe'[w] : SetsId(pipe'[w][i], n)
    BY <1>9, <2>1
  <2>4. IdSent(running[w].cookie)'
    BY <1>3, <2>3 DEF IdSent, OnItsWay, SetsId
  <2>5. QED
    BY <1>7, <1>8, <2>1, <2>2, <2>4, WholeStep DEF SafeInv
<1>10. CASE id # Nil /\ Send(w, <<AddToList(n)>>, "done")
  <2>1. ids[n] # Nil
    BY <1>2, <1>3, <1>10 DEF SafeInv, Found, Told, AsksForId
  <2>2. <<AddToList(n)>> \in Seq(Read \cup Write)
    BY <1>6, WritesSent
  <2>3. DescribedFirst(<<AddToList(n)>>, described)
    <3>1. SetsNoId(AddToList(n))
      BY DEF SetsNoId, AddToList
    <3>2. QED
      BY <3>1, SmallSends
  <2>4. QED
    BY <1>9, <1>10, <2>1, <2>2, <2>3
<1>11. CASE id = Nil /\ Send(w, <<AddToList(n), SetDesc(n), SetId(n, hash[n])>>, "done")
  <2>1. PICK a, d, i : a = AddToList(n) /\ d = SetDesc(n) /\ i = SetId(n, hash[n])
    OBVIOUS
  <2>2. SetsNoId(a) /\ SetsNoId(d) /\ Describes(d, n) /\ SetsId(i, n)
    BY <2>1 DEF SetsNoId, Describes, SetsId, AddToList, SetDesc, SetId
  <2>3. DescribedFirst(<<a, d, i>>, described)
    <3>1. PICK t : t = <<a, d, i>>
      OBVIOUS
    <3>2. /\ \A k \in DOMAIN t : t[k] = a \/ t[k] = d \/ (k = 3 /\ t[k] = i)
          /\ t[2] = d /\ 2 \in 1 .. 3 - 1
      BY <3>1
    <3>3. \A k \in DOMAIN t : ~SetsNoId(t[k]) => k = 3 /\ t[k] = i
      BY <2>2, <3>2
    <3>4. i.name = n
      BY <2>2 DEF SetsId
    <3>5. \E j \in 1 .. 3 - 1 : Describes(t[j], n)
      BY <2>2, <3>2
    <3>6. DescribedFirst(t, described)
      BY <3>3, <3>4, <3>5 DEF DescribedFirst, SetsNoId
    <3>7. QED
      BY <3>1, <3>6
  <2>4. <<a, d, i>> \in Seq(Read \cup Write)
    BY <1>6, <2>1, WritesSent
  <2>5. \E k \in DOMAIN <<a, d, i>> : SetsId(<<a, d, i>>[k], n)
    <3>1. 3 \in DOMAIN <<a, d, i>> /\ <<a, d, i>>[3] = i
      OBVIOUS
    <3>2. QED
      BY <2>2, <3>1
  <2>6. Send(w, <<a, d, i>>, "done")
    BY <1>11, <2>1
  <2>7. QED
    BY <1>9, <2>3, <2>4, <2>5, <2>6
<1>12. QED
  BY <1>7, <1>10, <1>11

(* Nothing to go on with is never met.                                     *)
LEMMA SelectIdSafe ==
    ASSUME IInv, SafeInv, NEW w \in Workers, running[w] # Idle, SelectIdThread(w),
           UNCHANGED <<vars, running, ids, described, resultQueue>>
    PROVE  SafeInv'
<1>1. ThreadTypes /\ ThreadOK(w)
  BY DEF IInv
<1>2. AsksForId(w) /\ reply[w] # <<>> /\ running[w].type = "SelectId" /\ awaits[w] = "id"
  BY <1>1 DEF SelectIdThread, ThreadOK, Resting, Answered, AsksForId, RunsScript, AsksForKeys,
              AsksForKeyId, AsksForValue, Loads
<1>3. pipe[w] = <<>>
  BY <1>2 DEF AsksForId, Asked
<1>4. reply[w][1] # Nil
  BY <1>2 DEF SafeInv, Found, Told
<1>5. Send(w, <<>>, "done") /\ UNCHANGED <<crashed, left>>
  BY <1>4 DEF SelectIdThread
<1>6. <<>> \in Seq(Read \cup Write) /\ DescribedFirst(<<>>, described)
  BY SentFirst, SmallSends
<1>7. /\ pipe'[w] = <<>> /\ reply'[w] = <<>>
      /\ \A x \in Workers \ {w} :
            pipe'[x] = pipe[x] /\ awaits'[x] = awaits[x] /\ reply'[x] = reply[x]
      /\ \A n : IdSent(n) => IdSent(n)'
  BY <1>1, <1>3, <1>5, <1>6, SendsAlone
<1>8. DescribedFirst(pipe[w], described)'
  BY <1>6, <1>7 DEF DescribedFirst
<1>9. \A j \in DOMAIN left'[w] : left'[w][j] \in described
  BY <1>5 DEF SafeInv, KeysDescribed
<1>10. QED
  BY <1>2, <1>5, <1>7, <1>8, <1>9, WholeStep DEF SafeInv

(* A load goes on with commands that set no id.                            *)
LEMMA LoadSafe ==
    ASSUME IInv, SafeInv, NEW w \in Workers, Loads(w), pipe[w] = <<>>,
           UNCHANGED <<vars, running, ids, described, resultQueue>>, ~crashed',
           NEW cs \in Seq(Read \cup Write), NEW what, Send(w, cs, what),
           \A D : DescribedFirst(cs, D),
           \A x \in Workers \ {w} : left'[x] = left[x],
           \A j \in DOMAIN left'[w] : left'[w][j] \in described
    PROVE  SafeInv'
<1>1. ThreadTypes
  BY DEF IInv
<1>2. /\ pipe'[w] = cs /\ reply'[w] = <<>>
      /\ \A x \in Workers \ {w} :
            pipe'[x] = pipe[x] /\ awaits'[x] = awaits[x] /\ reply'[x] = reply[x]
      /\ \A n : IdSent(n) => IdSent(n)'
  BY <1>1, SendsAlone
<1>3. DescribedFirst(pipe[w], described)'
  BY <1>2 DEF DescribedFirst
<1>4. running'[w].type # "InsertCookie"
  BY DEF Loads
<1>5. QED
  BY <1>2, <1>3, <1>4, WholeStep

LEMMA ScriptReplySafe ==
    ASSUME IInv, SafeInv, NEW w \in Workers, running[w] # Idle, ScriptReply(w),
           UNCHANGED <<vars, running, ids, described, resultQueue>>
    PROVE  SafeInv'
<1>1. ThreadTypes /\ ThreadOK(w)
  BY DEF IInv
<1>2. RunsScript(w) /\ reply[w] # <<>> /\ awaits[w] = "script" /\ left' = left
  BY <1>1 DEF ScriptReply, ThreadOK, Resting, Answered, AsksForId, RunsScript, AsksForKeys,
              AsksForKeyId, AsksForValue, Loads
<1>3. pipe[w] = <<>> /\ Loads(w)
  BY <1>2 DEF RunsScript, Asked
<1>4. reply[w][1] # Nil => \A i \in DOMAIN reply[w][1] : reply[w][1][i].desc
  BY <1>2 DEF SafeInv, Found, Told
<1>5. crashed' = crashed /\ (Send(w, <<GetKeys>>, "keys") \/ Send(w, <<>>, "done"))
  BY <1>4 DEF ScriptReply
<1>6. /\ <<GetKeys>> \in Seq(Read \cup Write) /\ <<>> \in Seq(Read \cup Write)
      /\ \A D : DescribedFirst(<<GetKeys>>, D) /\ DescribedFirst(<<>>, D)
  <2>1. GetKeys \in Read /\ SetsNoId(GetKeys)
    BY Commands DEF SetsNoId, GetKeys
  <2>2. <<GetKeys>> \in Seq(Read \cup Write)
    BY <2>1, SentFirst
  <2>3. QED
    BY <2>1, <2>2, SentFirst, SmallSends
<1>7. \A j \in DOMAIN left'[w] : left'[w][j] \in described
  BY <1>2 DEF SafeInv, KeysDescribed
<1>8. ~crashed'
  BY <1>5 DEF SafeInv
<1>9. QED
  BY <1>2, <1>3, <1>5, <1>6, <1>7, <1>8, LoadSafe

LEMMA NextKeySafe ==
    ASSUME IInv, SafeInv, NEW w \in Workers, Loads(w), pipe[w] = <<>>,
           UNCHANGED <<vars, running, ids, described, resultQueue>>, ~crashed',
           NEW keys \in KeyLists, NextKey(w, keys),
           \A j \in DOMAIN keys : keys[j] \in described
    PROVE  SafeInv'
<1>1. ThreadTypes
  BY DEF IInv
<1>2. left'[w] = keys /\ \A x \in Workers \ {w} : left'[x] = left[x]
  BY <1>1 DEF ThreadTypes, NextKey
<1>3. \A j \in DOMAIN left'[w] : left'[w][j] \in described
  BY <1>2
<1>4. CASE keys = <<>>
  <2>1. Send(w, <<>>, "done")
    BY <1>4 DEF NextKey
  <2>2. <<>> \in Seq(Read \cup Write) /\ \A D : DescribedFirst(<<>>, D)
    BY SentFirst, SmallSends
  <2>3. QED
    BY <1>2, <1>3, <2>1, <2>2, LoadSafe
<1>5. CASE keys # <<>>
  <2>1. Send(w, <<GetId(keys[1])>>, "id")
    BY <1>5 DEF NextKey
  <2>2. GetId(keys[1]) \in Read /\ SetsNoId(GetId(keys[1]))
    <3>1. keys[1] \in Names
      BY <1>5 DEF KeyLists
    <3>2. QED
      BY <3>1, Commands DEF SetsNoId, GetId
  <2>3. <<GetId(keys[1])>> \in Seq(Read \cup Write)
    BY <2>2, SentFirst
  <2>4. \A D : DescribedFirst(<<GetId(keys[1])>>, D)
    BY <2>2, SmallSends
  <2>5. QED
    BY <1>2, <1>3, <2>1, <2>3, <2>4, LoadSafe
<1>6. QED
  BY <1>4, <1>5

LEMMA KeysReplySafe ==
    ASSUME IInv, SafeInv, NEW w \in Workers, running[w] # Idle, KeysReply(w),
           UNCHANGED <<vars, running, ids, described, resultQueue>>
    PROVE  SafeInv'
<1>1. ThreadTypes /\ ThreadOK(w)
  BY DEF IInv
<1>2. AsksForKeys(w) /\ reply[w] # <<>> /\ awaits[w] = "keys"
  BY <1>1 DEF KeysReply, ThreadOK, Resting, Answered, AsksForId, RunsScript, AsksForKeys,
              AsksForKeyId, AsksForValue, Loads
<1>3. PICK keys : keys = reply[w][1]
  OBVIOUS
<1>4. pipe[w] = <<>> /\ Loads(w) /\ keys \in KeyLists
  BY <1>2, <1>3 DEF AsksForKeys, Asked
<1>5. \A j \in DOMAIN keys : keys[j] \in described
  BY <1>2, <1>3 DEF SafeInv, Found, Told, AsksForKeys, Loads
<1>6. NextKey(w, keys) /\ ~crashed'
  BY <1>3 DEF KeysReply, SafeInv
<1>7. QED
  BY <1>4, <1>5, <1>6, NextKeySafe

LEMMA KeyIdReplySafe ==
    ASSUME IInv, SafeInv, NEW w \in Workers, running[w] # Idle, KeyIdReply(w),
           UNCHANGED <<vars, running, ids, described, resultQueue>>
    PROVE  SafeInv'
<1>1. ThreadTypes /\ ThreadOK(w)
  BY DEF IInv
<1>2. AsksForKeyId(w) /\ reply[w] # <<>>
  BY <1>1 DEF KeyIdReply, ThreadOK, Resting, Answered, AsksForId, RunsScript, AsksForKeys,
              AsksForKeyId, AsksForValue, Loads
<1>3. PICK p, id, n : p = running[w].steamId /\ id = reply[w][1] /\ n = left[w][1]
  OBVIOUS
<1>4. /\ pipe[w] = <<>> /\ id \in IdReplies /\ Loads(w)
      /\ left[w] \in KeyLists /\ left[w] # <<>>
  BY <1>2, <1>3 DEF AsksForKeyId, Asked, SlowPath
<1>5. \A j \in DOMAIN left[w] : left[w][j] \in described
  BY DEF SafeInv, KeysDescribed
<1>6. ~crashed'
  BY DEF KeyIdReply, SafeInv
<1>7. CASE NextKey(w, Tail(left[w]))
  BY <1>4, <1>5, <1>6, <1>7, TailOfKeys, NextKeySafe
<1>8. CASE id # Nil /\ Send(w, <<GetValue(p, id), GetDesc(n)>>, "value") /\ UNCHANGED left
  <2>1. p \in Players /\ n \in Names /\ id \in CookieIds
    <3>1. running[w] \in Op /\ running[w].type = "SelectData"
      BY <1>1, <1>4 DEF ThreadTypes, Loads
    <3>2. n \in Names
      BY <1>3, <1>4 DEF KeyLists
    <3>3. QED
      BY <1>3, <1>4, <1>8, <3>1, <3>2, OpFields DEF IdReplies
  <2>2. PICK c, d : c = GetValue(p, id) /\ d = GetDesc(n)
    OBVIOUS
  <2>3. c \in Read /\ d \in Read
    BY <2>1, <2>2, Commands
  <2>4. SetsNoId(c) /\ SetsNoId(d)
    BY <2>2 DEF SetsNoId, GetValue, GetDesc
  <2>5. <<c, d>> \in Seq(Read \cup Write)
    BY <1>4, <2>3, SentFirst
  <2>6. \A D : DescribedFirst(<<c, d>>, D)
    BY <2>4, SmallSends
  <2>7. Send(w, <<c, d>>, "value")
    BY <1>8, <2>2
  <2>8. \A j \in DOMAIN left'[w] : left'[w][j] \in described
    BY <1>5, <1>8
  <2>9. QED
    BY <1>4, <1>6, <1>8, <2>5, <2>6, <2>7, <2>8, LoadSafe
<1>9. QED
  BY <1>3, <1>7, <1>8 DEF KeyIdReply

LEMMA ValueReplySafe ==
    ASSUME IInv, SafeInv, NEW w \in Workers, running[w] # Idle, ValueReply(w),
           UNCHANGED <<vars, running, ids, described, resultQueue>>
    PROVE  SafeInv'
<1>1. ThreadTypes /\ ThreadOK(w)
  BY DEF IInv
<1>2. AsksForValue(w) /\ Len(reply[w]) = 2 /\ awaits[w] = "value"
  BY <1>1 DEF ValueReply, ThreadOK, Resting, Answered, AsksForId, RunsScript, AsksForKeys,
              AsksForKeyId, AsksForValue, Loads
<1>3. /\ pipe[w] = <<>> /\ reply[w] # <<>> /\ Loads(w)
      /\ left[w] \in KeyLists /\ left[w] # <<>>
  <2>1. PICK p, n : ValueAsked(w, p, n)
    BY <1>2 DEF AsksForValue
  <2>2. reply[w] # <<>> /\ \A v : reply[w] # <<v>>
    BY <1>2
  <2>3. pipe[w] = <<>>
    BY <2>1, <2>2 DEF ValueAsked
  <2>4. QED
    BY <1>2, <2>2, <2>3 DEF AsksForValue, SlowPath
<1>4. reply[w][2]
  BY <1>2, <1>3 DEF SafeInv, Found, Told
<1>5. NextKey(w, Tail(left[w])) /\ ~crashed'
  BY <1>4 DEF ValueReply, SafeInv
<1>6. \A j \in DOMAIN left[w] : left[w][j] \in described
  BY DEF SafeInv, KeysDescribed
<1>7. QED
  BY <1>3, <1>5, <1>6, TailOfKeys, NextKeySafe

LEMMA ContinueSafe ==
    ASSUME IInv, SafeInv, NEW w \in Workers, Continue(w)
    PROVE  SafeInv'
<1>1. /\ running[w] # Idle
      /\ UNCHANGED <<vars, running, ids, described, resultQueue>>
  BY DEF Continue, redisVars
<1>2. QED
  BY <1>1, InsertCookieSafe, SelectIdSafe, ScriptReplySafe, KeysReplySafe, KeyIdReplySafe,
     ValueReplySafe DEF Continue

-----------------------------------------------------------------------------
(* A thread is done, and its id is sent.                                   *)
LEMMA PutResultSafe ==
    ASSUME IInv, SafeInv, NEW w \in Workers, PutResult(w)
    PROVE  SafeInv'
<1> DEFINE r == [op |-> running[w], id |-> answer[w].id, rows |-> answer[w].rows]
<1>1. /\ resultQueue \in [Workers -> Seq(Result)] /\ ThreadTypes
  BY DEF IInv, GameTypes
<1>2. /\ running[w] # Idle /\ awaits[w] = "done"
      /\ resultQueue' = [resultQueue EXCEPT ![w] = Append(@, r)]
      /\ running' = [running EXCEPT ![w] = Idle]
      /\ UNCHANGED <<vars, awaits, left, pipe, reply, crashed, redisVars>>
  BY DEF PutResult
<1>3. UNCHANGED <<ids, described, ops>>
  BY <1>2 DEF redisVars, vars
<1>4. r \in Result
  BY <1>1, <1>2 DEF ThreadTypes, Result
<1>5. running'[w] = Idle /\ \A x \in Workers \ {w} : running'[x] = running[x]
  BY <1>1, <1>2 DEF ThreadTypes
<1>6. \A n : IdSent(n) = IdSent(n)'
  BY <1>2, <1>3 DEF IdSent, OnItsWay
<1>7. r.op.type = "InsertCookie" => IdSent(r.op.cookie)
  BY <1>2 DEF SafeInv, InsertedSent
<1> HIDE DEF r
<1>8. ResultsSent'
  <2>1. ResultsSent
    BY DEF SafeInv
  <2>2. \A x \in Workers : \A i \in DOMAIN resultQueue'[x] :
           \/ i \in DOMAIN resultQueue[x] /\ resultQueue'[x][i] = resultQueue[x][i]
           \/ resultQueue'[x][i] = r
    BY <1>1, <1>2, <1>4
  <2>3. QED
    BY <1>6, <1>7, <2>1, <2>2 DEF ResultsSent
<1>9. SelectsSent' /\ InsertedSent'
  BY <1>2, <1>3, <1>5, <1>6 DEF SafeInv, SelectsSent, InsertedSent
<1>10. KnownDescribed' /\ KeysDescribed' /\ ~crashed'
  BY <1>2, <1>3 DEF SafeInv, KnownDescribed, KeysDescribed
<1>11. ASSUME NEW x \in Workers PROVE DescribedFirst(pipe[x], described)' /\ Found(x)'
  <2>1. DescribedFirst(pipe[x], described) /\ Found(x)
    BY DEF SafeInv
  <2>2. DescribedFirst(pipe[x], described)'
    BY <1>2, <1>3, <2>1 DEF DescribedFirst
  <2>3. Found(x)'
    BY <1>2, <1>3, <1>5, <2>1 DEF Found, Told
  <2>4. QED
    BY <2>2, <2>3
<1>12. QED
  BY <1>8, <1>9, <1>10, <1>11 DEF SafeInv

-----------------------------------------------------------------------------
LEMMA NextSafe ==
    ASSUME InOrderOrNoZero, IInv, SafeInv, [PipelineNext]_allVars
    PROVE  SafeInv'
<1>1. CASE UNCHANGED allVars
  <2>1. UNCHANGED <<vars, resultQueue, crashed, running, awaits, left, pipe, reply, ids, described>>
    BY <1>1 DEF allVars, pipelineVars, threadVars, redisVars
  <2>2. ops' = ops
    BY <2>1 DEF vars
  <2>3. \A n : IdSent(n) = IdSent(n)'
    BY <2>1 DEF IdSent, OnItsWay
  <2>4. SelectsSent' /\ InsertedSent' /\ ResultsSent'
    BY <2>1, <2>2, <2>3 DEF SafeInv, SelectsSent, InsertedSent, ResultsSent
  <2>5. QED
    BY <2>1, <2>4 DEF SafeInv, KnownDescribed, KeysDescribed, DescribedFirst, Found, Told
<1>2. CASE GameStep \/ \E w \in Workers : RunFrameStep(w)
  BY <1>2, GameSafe
<1>3. ASSUME NEW w \in Workers, Take(w) \/ Execute(w) \/ Continue(w) \/ PutResult(w)
      PROVE  SafeInv'
  BY <1>3, TakeSafe, ExecuteSafe, ContinueSafe, PutResultSafe
<1>4. QED
  BY <1>1, <1>2, <1>3 DEF PipelineNext

(* No exception leaves a query thread, with one thread whatever the ids,   *)
(* and with any number of threads when no name hashes to 0.                *)
THEOREM NoTermination ==
    ASSUME InOrderOrNoZero
    PROVE  PipelineSpec => []NeverTerminates
<1>1. SafeInv => NeverTerminates
  BY DEF SafeInv, NeverTerminates
<1>2. QED
  BY <1>1, InitSafe, NextSafe, PipelineInvariant, PTL DEF PipelineSpec
=============================================================================

---------------------------- MODULE CookieManager ----------------------------
(***************************************************************************)
(* The game thread's half of clientprefs-redis: the CookieManager          *)
(* (cookie.cpp), the natives that reach it (natives.cpp) and the parts of  *)
(* ClientPrefs that feed it (extension.cpp).  Everything here runs on one  *)
(* thread, so each handler is one atomic action; what makes it hard is     *)
(* that every answer from Redis comes back frames later, when the player   *)
(* who asked may have left and someone else may sit in the same slot.      *)
(*                                                                         *)
(* The query threads and Redis are left abstract: a TQueryOp stays in      *)
(* "ops" from its creation until RunFrame destroys it, RunFrame may        *)
(* complete the outstanding operations in any order, and a completion may  *)
(* carry any answer the operation allows.  QueryPipeline.tla puts the      *)
(* queue, the threads and Redis in between.                                *)
(***************************************************************************)
EXTENDS Integers, Sequences, FiniteSets

CONSTANTS
    MaxClients,       \* playerhelpers->GetMaxClients()
    Players,          \* the Steam ids that may join (bots included)
    Bots,             \* those of them for which IsFakeClient() holds
    NoPlayer,         \* an unused slot
    Names,            \* cookie names, all shorter than MAX_NAME_LENGTH
    Versions,         \* what tells two values of one player apart
    Empty,            \* the value "" of a cookie that was never set
    CookieIds,        \* the ids an InsertCookie query may come back with
    MaxSerial,        \* bound: connections during a behaviour
    Addresses,        \* bound: where operations are allocated, one per call
    EmptySlotCalls,   \* whether plugins call natives for slots nobody uses
    AuthIdEarly       \* whether the server gives out the Steam id of a player
                      \* it has not authorized yet

Slots == 1..MaxClients

(* A value names the player it was written for, so that a value that ends  *)
(* up with another player can be told apart.                               *)
Value == [by : Players, ver : Versions]

ASSUME ConstantsAssumption ==
    /\ MaxClients \in Nat \ {0}
    /\ Bots \subseteq Players
    /\ NoPlayer \notin Players
    /\ Empty \notin Value
    /\ CookieIds \subseteq Nat
    /\ MaxSerial \in Nat
    /\ Addresses # {}
    /\ EmptySlotCalls \in BOOLEAN
    /\ AuthIdEarly \in BOOLEAN

VARIABLES
    player,        \* slot -> who holds it (the server's IGamePlayer)
    serial,        \* slot -> GetSerial() of its current or last holder
    authorized,    \* slot -> IsAuthorized()
    lastSerial,    \* the last serial the server handed out
    connected,     \* CookieManager::connected
    statsLoaded,   \* CookieManager::statsLoaded
    statsPending,  \* CookieManager::statsPending
    cookies,       \* the names in cookieFinder and cookieList
    dbid,          \* name -> Cookie::dbid, -1 until Redis has answered
    clientData,    \* slot -> CookieManager::clientData, in append order
    data,          \* name -> slot -> Cookie::data: an index into
                   \* clientData[slot], 0 for NULL
    ops            \* the TQueryOp objects that exist

serverVars == <<player, serial, authorized, lastSerial>>
flagVars == <<connected, statsLoaded, statsPending>>
cookieVars == <<cookies, dbid>>
valueVars == <<clientData, data>>
vars == <<serverVars, flagVars, cookieVars, valueVars, ops>>

-----------------------------------------------------------------------------
(* TQueryOp, one record shape per querytype.  The id tells objects apart:  *)
(* an address for the call that created it, and its place in that call.    *)
OpId == Addresses \X Nat

InsertCookieOp == [id : OpId, type : {"InsertCookie"}, cookie : Names]
SelectDataOp == [id : OpId, type : {"SelectData"}, serial : Nat, steamId : Players]
InsertDataOp == [id : OpId, type : {"InsertData"}, steamId : Players,
                 cookieId : Int, value : Value \cup {Empty}]
SelectIdOp == [id : OpId, type : {"SelectId"}, cookie : Names]

Op == InsertCookieOp \cup SelectDataOp \cup InsertDataOp \cup SelectIdOp

CookieData == [parent : Names, value : Value \cup {Empty}, changed : BOOLEAN]

(* What Redis may have stored under p's id: p's own values, but anybody's  *)
(* once plugins have called natives for empty slots; or nothing.           *)
Stored(p) == {v \in Value : EmptySlotCalls \/ v.by = p} \cup {Empty}

(* What a SelectData query may answer for player p: at most one row per    *)
(* cookie.                                                                 *)
Rows(p) == [name : Names, value : Stored(p)]
Results(p) ==
    {rows \in UNION {[1..k -> Rows(p)] : k \in 0..Cardinality(Names)} :
        \A i, j \in DOMAIN rows : rows[i].name = rows[j].name => i = j}

(* new TQueryOp: memory that no existing operation uses.                   *)
Free == {a \in Addresses : \A op \in ops : op.id[1] # a}
New(k) == <<CHOOSE a \in Addresses : Free = {} \/ a \in Free, k>>

(* g_ClientPrefs.AddQueryToQueue for each of the new operations.           *)
Submit(new) ==
    /\ new # {} => Free # {}
    /\ ops' = ops \cup new

(* The same from RunFrame, which then destroys the completed operation.    *)
Replace(op, new) ==
    /\ new # {} => Free # {}
    /\ ops' = (ops \ {op}) \cup new

-----------------------------------------------------------------------------
(* CatchLateLoadClients: the slots that are neither pending nor loaded and *)
(* whose player is authorized; OnClientAuthorized ignores the bots.        *)
BugMissedPending(auth, loaded, pending) ==      \* waiting players asked for again
    {c \in Slots : /\ ~loaded[c]
                   /\ player[c] # NoPlayer /\ auth[c]
                   /\ player[c] \notin Bots}
BugMissedLoaded(auth, loaded, pending) ==       \* loaded players asked for again
    {c \in Slots : /\ ~pending[c]
                   /\ player[c] # NoPlayer /\ auth[c]
                   /\ player[c] \notin Bots}
Missed(auth, loaded, pending) ==
    {c \in Slots : /\ ~pending[c] /\ ~loaded[c]
                   /\ player[c] # NoPlayer /\ auth[c]
                   /\ player[c] \notin Bots}

(* The Query_SelectData operation OnClientAuthorized creates per slot.     *)
SelectOp(c, k) == [id |-> New(k), type |-> "SelectData",
                   serial |-> serial[c], steamId |-> player[c]]
SelectOps(S) == {SelectOp(c, c) : c \in S}

(* AttemptReconnection, which every native and handler runs first: the     *)
(* missed slots become connected and pending.                              *)
Marked(flag, S) == [c \in Slots |-> flag[c] \/ c \in S]

AttemptReconnection(new) ==
    LET missed == Missed(authorized, statsLoaded, statsPending)
    IN  /\ connected' = Marked(connected, missed)
        /\ statsPending' = Marked(statsPending, missed)
        /\ Submit(SelectOps(missed) \cup new)
        /\ UNCHANGED statsLoaded

-----------------------------------------------------------------------------
(* The server: a client takes a free slot.                                 *)
ClientConnect(c, p) ==
    /\ player[c] = NoPlayer
    /\ \A d \in Slots : player[d] # p
    /\ lastSerial < MaxSerial
    /\ lastSerial' = lastSerial + 1
    /\ player' = [player EXCEPT ![c] = p]
    /\ serial' = [serial EXCEPT ![c] = lastSerial + 1]
    /\ authorized' = [authorized EXCEPT ![c] = FALSE]
    /\ UNCHANGED <<flagVars, cookieVars, valueVars, ops>>

(* The server authorizes the client of slot c and tells its listeners:     *)
(* CookieManager::OnClientAuthorized.  Bots are ignored; for the others    *)
(* the flags are set before AttemptReconnection, so that it does not catch *)
(* the same slot again.                                                    *)
OnClientAuthorized(c) ==
    /\ player[c] # NoPlayer /\ ~authorized[c]
    /\ authorized' = [authorized EXCEPT ![c] = TRUE]
    /\ IF player[c] \in Bots
       THEN UNCHANGED <<flagVars, ops>>
       ELSE LET pending == [statsPending EXCEPT ![c] = TRUE]
                missed == Missed([authorized EXCEPT ![c] = TRUE], statsLoaded, pending)
            IN  /\ connected' = Marked([connected EXCEPT ![c] = TRUE], missed)
                /\ statsPending' = Marked(pending, missed)
                /\ Submit(SelectOps(missed) \cup {SelectOp(c, MaxClients + 1)})
                /\ UNCHANGED statsLoaded
    /\ UNCHANGED <<player, serial, lastSerial, cookieVars, valueVars>>

(* GetPlayerCompatAuthId, which has nothing to give for a player whose id  *)
(* the server keeps back.                                                  *)
HasAuthId(c) == authorized[c] \/ AuthIdEarly

(* The entries OnClientDisconnecting queues for storage rather than frees. *)
Saved(c) ==
    {i \in DOMAIN clientData[c] :
        /\ player[c] # NoPlayer /\ player[c] \notin Bots
        /\ HasAuthId(c)
        /\ clientData[c][i].changed
        /\ dbid[clientData[c][i].parent] # -1}

SaveOps(c) ==
    {[id |-> New(MaxClients + i), type |-> "InsertData",
      steamId |-> player[c],
      cookieId |-> dbid[clientData[c][i].parent],
      value |-> clientData[c][i].value] : i \in Saved(c)}

(* Forget every value held for slot c, whether it was queued or deleted.   *)
BugKeepValues(c) == UNCHANGED <<data, clientData>>    \* no clientvec.clear()
BugKeepPointers(c) ==                                 \* data[client] not reset
    /\ clientData' = [clientData EXCEPT ![c] = <<>>]
    /\ UNCHANGED data
ClearValues(c) ==
    /\ data' = [n \in Names |->
                  IF \E i \in DOMAIN clientData[c] : clientData[c][i].parent = n
                  THEN [data[n] EXCEPT ![c] = 0] ELSE data[n]]
    /\ clientData' = [clientData EXCEPT ![c] = <<>>]

(* OnClientDisconnecting, called while the leaving player still holds the  *)
(* slot and is still authorized: having cleared the flags, it runs         *)
(* AttemptReconnection, which therefore catches the leaving player itself, *)
(* marks the slot pending and queries for the old serial.  The server      *)
(* empties the slot when the handler returns.                              *)
BugKeepLoaded(c) ==               \* statsLoaded is not cleared
    /\ player[c] # NoPlayer
    /\ LET pending == [statsPending EXCEPT ![c] = FALSE]
           missed == Missed(authorized, statsLoaded, pending)
       IN  /\ connected' = Marked([connected EXCEPT ![c] = FALSE], missed)
           /\ statsPending' = Marked(pending, missed)
           /\ Submit(SelectOps(missed) \cup SaveOps(c))
    /\ ClearValues(c)
    /\ player' = [player EXCEPT ![c] = NoPlayer]
    /\ authorized' = [authorized EXCEPT ![c] = FALSE]
    /\ UNCHANGED <<statsLoaded, serial, lastSerial, cookieVars>>
OnClientDisconnecting(c) ==
    /\ player[c] # NoPlayer
    /\ LET loaded == [statsLoaded EXCEPT ![c] = FALSE]
           pending == [statsPending EXCEPT ![c] = FALSE]
           missed == Missed(authorized, loaded, pending)
       IN  /\ connected' = Marked([connected EXCEPT ![c] = FALSE], missed)
           /\ statsLoaded' = loaded
           /\ statsPending' = Marked(pending, missed)
           /\ Submit(SelectOps(missed) \cup SaveOps(c))
    /\ ClearValues(c)
    /\ player' = [player EXCEPT ![c] = NoPlayer]
    /\ authorized' = [authorized EXCEPT ![c] = FALSE]
    /\ UNCHANGED <<serial, lastSerial, cookieVars>>

-----------------------------------------------------------------------------
(* The natives.                                                            *)
InsertCookieOps(S, k) ==
    {[id |-> New(k), type |-> "InsertCookie", cookie |-> n] : n \in S}

(* RegClientCookie: CreateCookie adds an unknown cookie and asks for its   *)
(* id; for a known one it updates description and access (not modelled).   *)
BugRegisterAgain(n) ==            \* CreateCookie without its FindCookie test
    /\ AttemptReconnection(InsertCookieOps({n}, MaxClients + 1))
    /\ cookies' = cookies \cup {n}
    /\ UNCHANGED <<serverVars, dbid, valueVars>>
RegClientCookie(n) ==
    /\ AttemptReconnection(InsertCookieOps({n} \ cookies, MaxClients + 1))
    /\ cookies' = cookies \cup {n}
    /\ UNCHANGED <<serverVars, dbid, valueVars>>

(* A native checks the slot's range only; whether anyone is in it is up to *)
(* the plugins.                                                            *)
Callable(c) == EmptySlotCalls \/ player[c] # NoPlayer

(* A CookieData that a native wrote, and one that nobody wrote: read by a  *)
(* native before there was a value, or loaded.                             *)
Written(n, v) == [parent |-> n, value |-> v, changed |-> TRUE]
Unwritten(n, v) == [parent |-> n, value |-> v, changed |-> FALSE]

(* A new CookieData of slot c, and the cookie's pointer to it.             *)
AppendValue(n, c, d) ==
    /\ clientData' = [clientData EXCEPT ![c] = Append(@, d)]
    /\ data' = [data EXCEPT ![n][c] = Len(clientData[c]) + 1]

(* SetCookieValue                                                          *)
SetCookieValue(n, c, v) ==
    \/ data[n][c] = 0 /\ AppendValue(n, c, Written(n, v))
    \/ /\ data[n][c] # 0
       /\ clientData' = [clientData EXCEPT ![c][data[n][c]] = Written(@.parent, v)]
       /\ UNCHANGED data

(* The natives that only read (FindClientCookie, AreClientCookiesCached,   *)
(* GetCookieAccess, the iterators...) and OnCoreMapStart.                  *)
CheckMissed ==
    /\ AttemptReconnection({})
    /\ UNCHANGED <<serverVars, cookieVars, valueVars>>

(* SetClientCookie.  A plugin writes values meant for the player in the    *)
(* slot.                                                                   *)
SetClientCookie(n, c, v) ==
    /\ n \in cookies /\ Callable(c)
    /\ player[c] # NoPlayer => v.by = player[c]
    /\ AttemptReconnection({})
    /\ SetCookieValue(n, c, v)
    /\ UNCHANGED <<serverVars, cookieVars>>

(* AutoMenuHandler::OnMenuSelect: a player picks a value in the settings   *)
(* menu; this path does not look for missed players.                       *)
OnMenuSelect(n, c, v) ==
    /\ n \in cookies /\ player[c] # NoPlayer
    /\ v.by = player[c]
    /\ SetCookieValue(n, c, v)
    /\ UNCHANGED <<serverVars, flagVars, cookieVars, ops>>

(* GetClientCookie: GetCookieValue creates an unchanged empty value if the *)
(* slot has none.                                                          *)
GetClientCookie(n, c) ==
    /\ n \in cookies /\ Callable(c)
    /\ data[n][c] = 0
    /\ AttemptReconnection({})
    /\ AppendValue(n, c, Unwritten(n, Empty))
    /\ UNCHANGED <<serverVars, cookieVars>>

(* SetAuthIdCookie writes to the slot of p when p is on the server and     *)
(* authorized (IsAuthIdConnected), and queues an InsertData otherwise,     *)
(* with whatever id the cookie has at that moment, -1 included.            *)
SetAuthIdCookie(n, v) ==
    LET p == v.by
        holders == {c \in Slots : player[c] = p /\ authorized[c]}
    IN  /\ n \in cookies
        /\ \/ \E c \in holders :
                /\ AttemptReconnection({})
                /\ SetCookieValue(n, c, v)
           \/ /\ holders = {}
              /\ AttemptReconnection(
                    {[id |-> New(MaxClients + 1), type |-> "InsertData",
                      steamId |-> p, cookieId |-> dbid[n], value |-> v]})
              /\ UNCHANGED valueVars
        /\ UNCHANGED <<serverVars, cookieVars>>

-----------------------------------------------------------------------------
(* RunFrame: the operation op comes back, its callback runs on the game    *)
(* thread and the operation is destroyed.                                  *)

(* InsertCookieCallback: an id that is not positive is asked for again.    *)
BugSelectIdNameless(op, id) ==    \* the name is not copied into the new query
    /\ op.type = "InsertCookie"
    /\ IF id > 0
       THEN /\ dbid' = [dbid EXCEPT ![op.cookie] = id]
            /\ Replace(op, {})
       ELSE /\ Replace(op, {[id |-> New(1), type |-> "SelectId"]})
            /\ UNCHANGED dbid
    /\ UNCHANGED <<serverVars, flagVars, cookies, valueVars>>
InsertCookieCallback(op, id) ==
    /\ op.type = "InsertCookie"
    /\ IF id > 0
       THEN /\ dbid' = [dbid EXCEPT ![op.cookie] = id]
            /\ Replace(op, {})
       ELSE /\ Replace(op, {[id |-> New(1), type |-> "SelectId",
                             cookie |-> op.cookie]})
            /\ UNCHANGED dbid
    /\ UNCHANGED <<serverVars, flagVars, cookies, valueVars>>

(* SelectIdCallback stores what it is given.                               *)
SelectIdCallback(op, id) ==
    /\ op.type = "SelectId"
    /\ dbid' = [dbid EXCEPT ![op.cookie] = id]
    /\ Replace(op, {})
    /\ UNCHANGED <<serverVars, flagVars, cookies, valueVars>>

(* Query_InsertData has no callback; destroying it frees the value.        *)
InsertDataDone(op) ==
    /\ op.type = "InsertData"
    /\ Replace(op, {})
    /\ UNCHANGED <<serverVars, flagVars, cookieVars, valueVars>>

(* playerhelpers->GetClientFromSerial: the slot whose holder has serial s. *)
ClientsWithSerial(s) == {c \in Slots : player[c] # NoPlayer /\ serial[c] = s}

(* ClientConnectCallback: an answer for a serial that is gone is dropped.  *)
(* Otherwise each row becomes a new CookieData of the slot and replaces    *)
(* the cookie's pointer; an older CookieData stays in clientData.  Rows of *)
(* unknown cookies create the cookie.                                      *)
LoadRows(c, rows) ==
    /\ clientData' = [clientData EXCEPT ![c] = @ \o
            [i \in DOMAIN rows |-> Unwritten(rows[i].name, rows[i].value)]]
    /\ data' = [n \in Names |->
            IF \E i \in DOMAIN rows : rows[i].name = n
            THEN [data[n] EXCEPT ![c] =
                    Len(clientData[c]) + (CHOOSE i \in DOMAIN rows : rows[i].name = n)]
            ELSE data[n]]

ClientConnectCallback(op, rows) ==
    /\ op.type = "SelectData"
    /\ \/ /\ ClientsWithSerial(op.serial) = {}
          /\ Replace(op, {})
          /\ UNCHANGED <<flagVars, cookieVars, valueVars>>
       \/ \E c \in ClientsWithSerial(op.serial) :
          LET created == {i \in DOMAIN rows : rows[i].name \notin cookies}
          IN  /\ statsPending' = [statsPending EXCEPT ![c] = FALSE]
              /\ statsLoaded' = [statsLoaded EXCEPT ![c] = TRUE]
              /\ LoadRows(c, rows)
              /\ cookies' = cookies \cup {rows[i].name : i \in created}
              /\ Replace(op, UNION {InsertCookieOps({rows[i].name}, i) : i \in created})
              /\ UNCHANGED <<connected, dbid>>
    /\ UNCHANGED serverVars

-----------------------------------------------------------------------------
(* SDK_OnLoad: on a late load the players already on the server are caught *)
(* by CatchLateLoadClients; otherwise the server is still empty.           *)
Init ==
    /\ player \in [Slots -> Players \cup {NoPlayer}]
    /\ \A c, d \in Slots : player[c] = player[d] /\ player[c] # NoPlayer => c = d
    /\ authorized \in [Slots -> BOOLEAN]
    /\ \A c \in Slots : authorized[c] => player[c] # NoPlayer
    /\ serial = [c \in Slots |-> c]
    /\ lastSerial = MaxClients
    /\ statsLoaded = [c \in Slots |-> FALSE]
    /\ statsPending = [c \in Slots |->
            player[c] # NoPlayer /\ authorized[c] /\ player[c] \notin Bots]
    /\ connected = statsPending
    /\ ops = {[id |-> <<CHOOSE a \in Addresses : TRUE, c>>, type |-> "SelectData", serial |-> serial[c],
               steamId |-> player[c]] : c \in {d \in Slots : statsPending[d]}}
    /\ cookies = {}
    /\ dbid = [n \in Names |-> -1]
    /\ clientData = [c \in Slots |-> <<>>]
    /\ data = [n \in Names |-> [c \in Slots |-> 0]]

Server ==
    \/ \E c \in Slots, p \in Players : ClientConnect(c, p)
    \/ \E c \in Slots : OnClientAuthorized(c) \/ OnClientDisconnecting(c)

Native ==
    \/ \E n \in Names : RegClientCookie(n)
    \/ \E n \in Names, c \in Slots : GetClientCookie(n, c)
    \/ \E n \in Names, c \in Slots, v \in Value :
            SetClientCookie(n, c, v) \/ OnMenuSelect(n, c, v)
    \/ CheckMissed
    \/ \E n \in Names, v \in Value : SetAuthIdCookie(n, v)

RunFrame ==
    \E op \in ops :
        \/ \E id \in CookieIds : InsertCookieCallback(op, id)
        \/ SelectIdCallback(op, -1)
        \/ InsertDataDone(op)
        \/ op.type = "SelectData" /\ \E rows \in Results(op.steamId) :
                ClientConnectCallback(op, rows)

Next == Server \/ Native \/ RunFrame

Spec == Init /\ [][Next]_vars
-----------------------------------------------------------------------------
(***************************************************************************)
(* Properties                                                              *)
(***************************************************************************)

(* Every variable has its type.                                            *)
TypeOK ==
    /\ player \in [Slots -> Players \cup {NoPlayer}]
    /\ serial \in [Slots -> Nat]
    /\ authorized \in [Slots -> BOOLEAN]
    /\ lastSerial \in Nat
    /\ connected \in [Slots -> BOOLEAN]
    /\ statsLoaded \in [Slots -> BOOLEAN]
    /\ statsPending \in [Slots -> BOOLEAN]
    /\ cookies \subseteq Names
    /\ dbid \in [Names -> Int]
    /\ clientData \in [Slots -> Seq(CookieData)]
    /\ data \in [Names -> [Slots -> Nat]]
    /\ ops \subseteq Op

(* An authorized human is on the server in slot c.                         *)
Human(c) == player[c] # NoPlayer /\ player[c] \notin Bots
Served(c) == Human(c) /\ authorized[c]

(* The outstanding queries for the values of the player now in slot c.     *)
SelectsFor(c) == {op \in ops : op.type = "SelectData" /\ op.serial = serial[c]}

(* Every authorized human either waits for exactly one answer or has been  *)
(* loaded and waits for none: nobody is forgotten with the pending flag    *)
(* set, and no second answer can arrive to overwrite what was set since    *)
(* (AreClientCookiesPending and AreClientCookiesCached in                  *)
(* CatchLateLoadClients, the serial test in ClientConnectCallback).        *)
ServedOnce ==
    \A c \in Slots : Served(c) =>
        \/ statsPending[c] /\ ~statsLoaded[c] /\ \E op \in ops : SelectsFor(c) = {op}
        \/ ~statsPending[c] /\ statsLoaded[c] /\ SelectsFor(c) = {}

(* AreClientCookiesCached answers true for slot c only for an authorized   *)
(* human who is still there, never for one who left while the answer was   *)
(* on its way or for the next holder of the slot.                          *)
LoadedIsCurrent == \A c \in Slots : statsLoaded[c] => Served(c)

(* Cookie::data[client] is the newest CookieData of that cookie in         *)
(* clientData[client], and NULL only if there is none.  So no pointer      *)
(* outlives its CookieData, none is left behind when the slot is emptied,  *)
(* and the value a player sees is the last of the cookie that              *)
(* OnClientDisconnecting queues.                                           *)
PointerIsNewest ==
    \A n \in Names, c \in Slots :
        /\ data[n][c] # 0 => /\ data[n][c] \in DOMAIN clientData[c]
                            /\ clientData[c][data[n][c]].parent = n
        /\ \A i \in DOMAIN clientData[c] :
                clientData[c][i].parent = n => i <= data[n][c]

(* Nobody sees, or stores under their own id, a value that belongs to      *)
(* somebody else: what a slot holds was set or loaded for its current      *)
(* player, and what is queued for an id was written for that id.  It needs *)
(* plugins that leave empty slots alone, which the natives do not check.   *)
OwnValuesOnly ==
    ~EmptySlotCalls =>
        /\ \A c \in Slots : \A i \in DOMAIN clientData[c] :
                /\ player[c] # NoPlayer
                /\ clientData[c][i].value # Empty => clientData[c][i].value.by = player[c]
        /\ \A op \in ops : op.type = "InsertData" /\ op.value # Empty =>
                op.value.by = op.steamId

(* Once a player's cookies are loaded, an answer from Redis changes none   *)
(* of the slot's values: only natives and the player's departure do.       *)
LoadedValuesStable ==
    [][\A c \in Slots : statsLoaded[c] /\ ops \ ops' # {} =>
            /\ clientData'[c] = clientData[c]
            /\ \A n \in Names : data'[n][c] = data[n][c]]_vars

(* A cookie's id, once known, never changes, so that values written at     *)
(* different times go to the same key.                                     *)
IdStable == [][\A n \in Names : dbid[n] > 0 => dbid'[n] = dbid[n]]_vars
=============================================================================

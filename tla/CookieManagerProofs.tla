------------------------ MODULE CookieManagerProofs ------------------------
(***************************************************************************)
(* Proofs about CookieManager, for every number of slots, players, cookies *)
(* and operations, in three parts:                                         *)
(*  - the variables keep their types;                                      *)
(*  - every authorized human is served exactly once (ServedOnce), and only *)
(*    present, authorized humans count as loaded (LoadedIsCurrent).        *)
(*    Neither is inductive alone: that an answer belongs to the player in  *)
(*    the slot rests on serials never being reused and on no query         *)
(*    existing for a player who is not authorized yet;                     *)
(*  - a cookie's pointer is its newest CookieData (PointerIsNewest),       *)
(*    nobody is given or stored somebody else's value (OwnValuesOnly), and *)
(*    a cookie's id never changes (IdStable).  The first is inductive with *)
(*    the types; the second rests on the serials: a query that still       *)
(*    reaches a slot was made for the player in it; the third on there     *)
(*    being at most one outstanding query for a cookie's id, and none once *)
(*    the id is known.                                                     *)
(***************************************************************************)
EXTENDS CookieManager, TLAPS

-----------------------------------------------------------------------------
(* The type invariant.                                                     *)

(* What new TQueryOp returns is an object.                                 *)
LEMMA NewType == ASSUME NEW k \in Nat PROVE New(k) \in OpId
BY ConstantsAssumption DEF New, OpId, Free

(* The operation OnClientAuthorized creates for a player is well formed.   *)
LEMMA SelectOpType ==
    ASSUME TypeOK, NEW c \in Slots, player[c] # NoPlayer, NEW k \in Nat
    PROVE  SelectOp(c, k) \in SelectDataOp
BY NewType DEF TypeOK, SelectOp, SelectDataOp

(* So are those CatchLateLoadClients creates.                              *)
LEMMA SelectOpsType ==
    ASSUME TypeOK, NEW auth, NEW loaded, NEW pending
    PROVE  SelectOps(Missed(auth, loaded, pending)) \subseteq SelectDataOp
<1>1. Slots \subseteq Nat
  BY ConstantsAssumption DEF Slots
<1>2. \A c \in Missed(auth, loaded, pending) : c \in Slots /\ player[c] # NoPlayer
  BY DEF Missed
<1>3. QED
  BY <1>1, <1>2, SelectOpType DEF SelectOps

(* A test for missed players, with or without new operations.              *)
LEMMA AttemptReconnectionType ==
    ASSUME TypeOK, NEW new, new \subseteq Op, AttemptReconnection(new)
    PROVE  /\ connected' \in [Slots -> BOOLEAN]
           /\ statsLoaded' \in [Slots -> BOOLEAN]
           /\ statsPending' \in [Slots -> BOOLEAN]
           /\ ops' \subseteq Op
<1>1. SelectOps(Missed(authorized, statsLoaded, statsPending)) \subseteq Op
  BY SelectOpsType DEF Op
<1>2. QED
  BY <1>1 DEF AttemptReconnection, Submit, Marked, TypeOK

(* Appending a value keeps the types.                                      *)
LEMMA AppendValueType ==
    ASSUME TypeOK, NEW c \in Slots, NEW n \in Names, NEW d \in CookieData,
           AppendValue(n, c, d)
    PROVE  /\ clientData' \in [Slots -> Seq(CookieData)]
           /\ data' \in [Names -> [Slots -> Nat]]
<1>1. clientData' \in [Slots -> Seq(CookieData)]
  BY DEF TypeOK, AppendValue
<1>2. data' \in [Names -> [Slots -> Nat]]
  BY DEF TypeOK, AppendValue
<1>3. QED
  BY <1>1, <1>2

(* So does overwriting one.                                                *)
LEMMA OverwriteType ==
    ASSUME NEW D, NEW s \in Seq(D), NEW i \in Nat, NEW d,
           i \in DOMAIN s => d \in D
    PROVE  [s EXCEPT ![i] = d] \in Seq(D)
<1> DEFINE t == [s EXCEPT ![i] = d]
<1>1. /\ Len(s) \in Nat
      /\ DOMAIN t = 1..Len(s)
      /\ t = [j \in 1..Len(s) |-> t[j]]
  OBVIOUS
<1>2. \A j \in 1..Len(s) : t[j] \in D
  <2>1. TAKE j \in 1..Len(s)
  <2>2. s[j] \in D /\ j \in DOMAIN s
    OBVIOUS
  <2>3. t[j] = IF j = i THEN d ELSE s[j]
    BY <2>2
  <2>4. QED
    BY <2>2, <2>3
<1> HIDE DEF t
<1>3. t \in Seq(D)
  BY <1>1, <1>2
<1>4. QED
  BY <1>3 DEF t

LEMMA SetCookieValueType ==
    ASSUME TypeOK, NEW n \in Names, NEW c \in Slots, NEW v \in Value,
           SetCookieValue(n, c, v)
    PROVE  /\ clientData' \in [Slots -> Seq(CookieData)]
           /\ data' \in [Names -> [Slots -> Nat]]
<1>1. CASE data[n][c] = 0 /\ AppendValue(n, c, Written(n, v))
  <2>1. Written(n, v) \in CookieData
    BY DEF CookieData, Written
  <2>2. QED
    BY <1>1, <2>1, AppendValueType
<1>2. CASE /\ data[n][c] # 0
           /\ clientData' = [clientData EXCEPT ![c][data[n][c]] = Written(@.parent, v)]
           /\ UNCHANGED data
  <2> DEFINE i == data[n][c]
             d == Written(clientData[c][i].parent, v)
  <2>1. i \in Nat /\ clientData[c] \in Seq(CookieData)
    BY DEF TypeOK
  <2>2. i \in DOMAIN clientData[c] => d \in CookieData
    <3>1. HAVE i \in DOMAIN clientData[c]
    <3>2. clientData[c][i] \in CookieData
      BY <2>1, <3>1
    <3>3. QED
      BY <3>2 DEF CookieData, Written
  <2>3. [clientData[c] EXCEPT ![i] = d] \in Seq(CookieData)
    BY <2>1, <2>2, OverwriteType
  <2>4. clientData' = [clientData EXCEPT ![c] = [clientData[c] EXCEPT ![i] = d]]
    BY <1>2
  <2> HIDE DEF i, d
  <2>5. QED
    BY <1>2, <2>3, <2>4 DEF TypeOK
<1>3. QED
  BY <1>1, <1>2 DEF SetCookieValue

(* The queries that store a leaving player's values.                       *)
LEMMA SaveOpsType ==
    ASSUME TypeOK, NEW c \in Slots
    PROVE  SaveOps(c) \subseteq InsertDataOp
<1> SUFFICES ASSUME NEW i \in Saved(c)
             PROVE  [id |-> New(MaxClients + i), type |-> "InsertData",
                     steamId |-> player[c],
                     cookieId |-> dbid[clientData[c][i].parent],
                     value |-> clientData[c][i].value] \in InsertDataOp
  BY DEF SaveOps
<1>1. i \in DOMAIN clientData[c] /\ player[c] # NoPlayer
  BY DEF Saved
<1>2. clientData[c][i] \in CookieData /\ i \in Nat /\ player[c] \in Players
  BY <1>1 DEF TypeOK
<1>3. MaxClients + i \in Nat
  BY <1>2, ConstantsAssumption
<1>4. New(MaxClients + i) \in OpId
  BY <1>3, NewType
<1>5. dbid[clientData[c][i].parent] \in Int /\ clientData[c][i].value \in Value \cup {Empty}
  BY <1>2 DEF TypeOK, CookieData
<1>6. QED
  BY <1>2, <1>4, <1>5 DEF InsertDataOp

(* Emptying a slot.                                                        *)
LEMMA ClearValuesType ==
    ASSUME TypeOK, NEW c \in Slots, ClearValues(c)
    PROVE  /\ clientData' \in [Slots -> Seq(CookieData)]
           /\ data' \in [Names -> [Slots -> Nat]]
<1>1. clientData' \in [Slots -> Seq(CookieData)]
  BY DEF ClearValues, TypeOK
<1>2. ASSUME NEW n \in Names
      PROVE  [data[n] EXCEPT ![c] = 0] \in [Slots -> Nat] /\ data[n] \in [Slots -> Nat]
  BY DEF TypeOK
<1>3. data' \in [Names -> [Slots -> Nat]]
  BY <1>2 DEF ClearValues
<1>4. QED
  BY <1>1, <1>3

(* Loading the rows of an answer.                                          *)
LEMMA LoadRowsType ==
    ASSUME TypeOK, NEW c \in Slots, NEW p \in Players, NEW rows \in Results(p),
           LoadRows(c, rows)
    PROVE  /\ clientData' \in [Slots -> Seq(CookieData)]
           /\ data' \in [Names -> [Slots -> Nat]]
<1>1. PICK k \in Nat : rows \in [1..k -> Rows(p)]
  BY DEF Results
<1> DEFINE new == [i \in DOMAIN rows |-> Unwritten(rows[i].name, rows[i].value)]
<1>2. new \in Seq(CookieData)
  <2>1. \A i \in 1..k : rows[i].name \in Names /\ rows[i].value \in Value \cup {Empty}
    BY <1>1 DEF Rows, Stored
  <2>2. \A i \in 1..k : Unwritten(rows[i].name, rows[i].value) \in CookieData
    BY <2>1 DEF Unwritten, CookieData
  <2>3. DOMAIN rows = 1..k
    BY <1>1
  <2>4. new \in [1..k -> CookieData]
    BY <2>2, <2>3
  <2> HIDE DEF new
  <2>5. QED
    BY <2>4
<1>3. clientData' \in [Slots -> Seq(CookieData)]
  <2>1. clientData' = [clientData EXCEPT ![c] = @ \o new]
    BY DEF LoadRows
  <2> HIDE DEF new
  <2>2. clientData[c] \o new \in Seq(CookieData)
    BY <1>2 DEF TypeOK
  <2>3. QED
    BY <2>1, <2>2 DEF TypeOK
<1>4. ASSUME NEW n \in Names, \E i \in DOMAIN rows : rows[i].name = n
      PROVE  Len(clientData[c]) + (CHOOSE i \in DOMAIN rows : rows[i].name = n) \in Nat
  <2> DEFINE j == CHOOSE i \in DOMAIN rows : rows[i].name = n
  <2>1. j \in DOMAIN rows
    BY <1>4
  <2> HIDE DEF j
  <2>2. j \in Nat
    BY <1>1, <2>1
  <2>3. Len(clientData[c]) \in Nat
    BY DEF TypeOK
  <2>4. Len(clientData[c]) + j \in Nat
    BY <2>2, <2>3
  <2>5. QED
    BY <2>4 DEF j
<1>5. data' \in [Names -> [Slots -> Nat]]
  BY <1>4 DEF LoadRows, TypeOK
<1>6. QED
  BY <1>3, <1>5

LEMMA InitType == Init => TypeOK
<1> SUFFICES ASSUME Init PROVE TypeOK
  OBVIOUS
<1>1. Slots \subseteq Nat /\ MaxClients \in Nat
  BY ConstantsAssumption DEF Slots
<1>2. ops \subseteq Op
  <2> SUFFICES ASSUME NEW c \in Slots, statsPending[c]
               PROVE  [id |-> <<CHOOSE a \in Addresses : TRUE, c>>,
                       type |-> "SelectData", serial |-> serial[c],
                       steamId |-> player[c]] \in Op
    BY DEF Init
  <2>1. player[c] \in Players /\ serial[c] \in Nat
    BY <1>1 DEF Init
  <2>2. <<CHOOSE a \in Addresses : TRUE, c>> \in OpId
    BY <1>1, ConstantsAssumption DEF OpId
  <2>3. QED
    BY <2>1, <2>2 DEF Op, SelectDataOp
<1>3. clientData \in [Slots -> Seq(CookieData)]
  BY DEF Init
<1>4. statsPending \in [Slots -> BOOLEAN] /\ connected \in [Slots -> BOOLEAN]
  BY DEF Init
<1>5. QED
  BY <1>1, <1>2, <1>3, <1>4 DEF Init, TypeOK

(* The type invariant is preserved by every step.                          *)
LEMMA NextType == TypeOK /\ [Next]_vars => TypeOK'
<1> SUFFICES ASSUME TypeOK, [Next]_vars PROVE TypeOK'
  OBVIOUS
<1>1. Slots \subseteq Nat /\ MaxClients \in Nat /\ CookieIds \subseteq Int
  BY ConstantsAssumption DEF Slots
<1>2. ASSUME NEW c \in Slots, NEW p \in Players, ClientConnect(c, p)
      PROVE  TypeOK'
  BY <1>2 DEF ClientConnect, TypeOK, flagVars, cookieVars, valueVars
<1>3. ASSUME NEW c \in Slots, OnClientAuthorized(c)
      PROVE  TypeOK'
  <2> USE <1>3 DEF OnClientAuthorized, cookieVars, valueVars
  <2>1. authorized' \in [Slots -> BOOLEAN]
    BY DEF TypeOK
  <2>2. CASE player[c] \in Bots
    BY <2>1, <2>2 DEF TypeOK, flagVars
  <2>3. CASE player[c] \notin Bots
    <3> DEFINE pending == [statsPending EXCEPT ![c] = TRUE]
               missed == Missed([authorized EXCEPT ![c] = TRUE], statsLoaded, pending)
    <3>1. SelectOps(missed) \subseteq Op
      BY SelectOpsType DEF Op
    <3>2. SelectOp(c, MaxClients + 1) \in Op
      BY <1>1, SelectOpType DEF Op
    <3>3. /\ connected' = Marked([connected EXCEPT ![c] = TRUE], missed)
          /\ statsPending' = Marked(pending, missed)
          /\ Submit(SelectOps(missed) \cup {SelectOp(c, MaxClients + 1)})
          /\ statsLoaded' = statsLoaded
      BY <2>3
    <3> HIDE DEF missed
    <3>4. ops' \subseteq Op
      BY <3>1, <3>2, <3>3 DEF Submit, TypeOK
    <3>5. connected' \in [Slots -> BOOLEAN] /\ statsPending' \in [Slots -> BOOLEAN]
      BY <3>3 DEF Marked, TypeOK
    <3>6. QED
      BY <2>1, <3>3, <3>4, <3>5 DEF TypeOK
  <2>4. QED
    BY <2>2, <2>3
<1>4. ASSUME NEW c \in Slots, OnClientDisconnecting(c)
      PROVE  TypeOK'
  <2> DEFINE loaded == [statsLoaded EXCEPT ![c] = FALSE]
             pending == [statsPending EXCEPT ![c] = FALSE]
             missed == Missed(authorized, loaded, pending)
  <2>1. SelectOps(missed) \subseteq Op /\ SaveOps(c) \subseteq Op
    BY SelectOpsType, SaveOpsType DEF Op
  <2>2. /\ connected' = Marked([connected EXCEPT ![c] = FALSE], missed)
        /\ statsLoaded' = loaded
        /\ statsPending' = Marked(pending, missed)
        /\ Submit(SelectOps(missed) \cup SaveOps(c))
    BY <1>4 DEF OnClientDisconnecting
  <2> HIDE DEF missed
  <2>3. ops' \subseteq Op
    BY <2>1, <2>2 DEF Submit, TypeOK
  <2>4. /\ connected' \in [Slots -> BOOLEAN]
        /\ statsLoaded' \in [Slots -> BOOLEAN]
        /\ statsPending' \in [Slots -> BOOLEAN]
    BY <2>2 DEF Marked, TypeOK
  <2>5. /\ clientData' \in [Slots -> Seq(CookieData)]
        /\ data' \in [Names -> [Slots -> Nat]]
    BY <1>4, ClearValuesType DEF OnClientDisconnecting
  <2>6. QED
    BY <1>4, <2>3, <2>4, <2>5 DEF OnClientDisconnecting, TypeOK, cookieVars
<1>5. ASSUME NEW n \in Names, RegClientCookie(n)
      PROVE  TypeOK'
  <2>1. InsertCookieOps({n} \ cookies, MaxClients + 1) \subseteq Op
    <3>1. New(MaxClients + 1) \in OpId
      BY <1>1, NewType
    <3>2. QED
      BY <3>1 DEF InsertCookieOps, InsertCookieOp, Op
  <2>2. QED
    BY <1>5, <2>1, AttemptReconnectionType
       DEF RegClientCookie, TypeOK, serverVars, valueVars
<1>6. ASSUME NEW n \in Names, NEW c \in Slots, GetClientCookie(n, c)
      PROVE  TypeOK'
  <2>1. Unwritten(n, Empty) \in CookieData
    BY DEF Unwritten, CookieData
  <2>2. /\ clientData' \in [Slots -> Seq(CookieData)]
        /\ data' \in [Names -> [Slots -> Nat]]
    BY <1>6, <2>1, AppendValueType DEF GetClientCookie
  <2>3. QED
    BY <1>6, <2>2, AttemptReconnectionType
       DEF GetClientCookie, TypeOK, serverVars, cookieVars
<1>7. ASSUME NEW n \in Names, NEW c \in Slots, NEW v \in Value, SetClientCookie(n, c, v)
      PROVE  TypeOK'
  BY <1>7, SetCookieValueType, AttemptReconnectionType
     DEF SetClientCookie, TypeOK, serverVars, cookieVars
<1>8. ASSUME NEW n \in Names, NEW c \in Slots, NEW v \in Value, OnMenuSelect(n, c, v)
      PROVE  TypeOK'
  BY <1>8, SetCookieValueType DEF OnMenuSelect, TypeOK, serverVars, flagVars, cookieVars
<1>9. CASE CheckMissed
  BY <1>9, AttemptReconnectionType
     DEF CheckMissed, TypeOK, serverVars, cookieVars, valueVars
<1>10. ASSUME NEW n \in Names, NEW v \in Value, SetAuthIdCookie(n, v)
       PROVE  TypeOK'
  <2>1. CASE \E c \in Slots : AttemptReconnection({}) /\ SetCookieValue(n, c, v)
    BY <1>10, <2>1, SetCookieValueType, AttemptReconnectionType
       DEF SetAuthIdCookie, TypeOK, serverVars, cookieVars
  <2> DEFINE op == [id |-> New(MaxClients + 1), type |-> "InsertData",
                    steamId |-> v.by, cookieId |-> dbid[n], value |-> v]
  <2>2. CASE AttemptReconnection({op}) /\ UNCHANGED valueVars
    <3>1. New(MaxClients + 1) \in OpId
      BY <1>1, NewType
    <3>2. dbid[n] \in Int /\ v.by \in Players
      BY DEF TypeOK, Value
    <3>3. op \in Op
      BY <3>1, <3>2 DEF Op, InsertDataOp
    <3> HIDE DEF op
    <3>4. QED
      BY <1>10, <2>2, <3>3, AttemptReconnectionType
         DEF SetAuthIdCookie, TypeOK, serverVars, cookieVars, valueVars
  <2>3. QED
    BY <1>10, <2>1, <2>2 DEF SetAuthIdCookie
<1>11. ASSUME NEW op \in ops, NEW id \in CookieIds, InsertCookieCallback(op, id)
       PROVE  TypeOK'
  <2> USE <1>11 DEF InsertCookieCallback
  <2>1. op.cookie \in Names
    BY DEF TypeOK, Op, InsertCookieOp, SelectDataOp, InsertDataOp, SelectIdOp
  <2>2. CASE id > 0
    <3>1. dbid' \in [Names -> Int]
      BY <1>1, <2>2 DEF TypeOK
    <3>2. ops' \subseteq Op
      BY <2>2 DEF Replace, TypeOK
    <3>3. QED
      BY <3>1, <3>2 DEF TypeOK, serverVars, flagVars, valueVars
  <2>3. CASE ~(id > 0)
    <3>1. New(1) \in OpId
      BY NewType
    <3>2. [id |-> New(1), type |-> "SelectId", cookie |-> op.cookie] \in Op
      BY <2>1, <3>1 DEF Op, SelectIdOp
    <3>3. ops' \subseteq Op
      BY <2>3, <3>2 DEF Replace, TypeOK
    <3>4. QED
      BY <2>3, <3>3 DEF TypeOK, serverVars, flagVars, valueVars
  <2>4. QED
    BY <2>2, <2>3
<1>12. ASSUME NEW op \in ops, SelectIdCallback(op, -1)
       PROVE  TypeOK'
  <2>1. -1 \in Int
    OBVIOUS
  <2>2. dbid' \in [Names -> Int]
    BY <1>12, <2>1 DEF SelectIdCallback, TypeOK
  <2>3. ops' \subseteq Op
    BY <1>12 DEF SelectIdCallback, Replace, TypeOK
  <2>4. QED
    BY <1>12, <2>2, <2>3 DEF SelectIdCallback, TypeOK, serverVars, flagVars, valueVars
<1>13. ASSUME NEW op \in ops, InsertDataDone(op)
       PROVE  TypeOK'
  BY <1>13 DEF InsertDataDone, Replace, TypeOK, serverVars, flagVars, cookieVars, valueVars
<1>14. ASSUME NEW op \in ops, op.type = "SelectData",
              NEW rows \in Results(op.steamId), ClientConnectCallback(op, rows)
       PROVE  TypeOK'
  <2>1. op.steamId \in Players
    BY <1>14 DEF TypeOK, Op, InsertCookieOp, SelectDataOp, InsertDataOp, SelectIdOp
  <2>2. CASE Replace(op, {}) /\ UNCHANGED <<flagVars, cookieVars, valueVars>>
    BY <1>14, <2>2
       DEF ClientConnectCallback, Replace, TypeOK, serverVars, flagVars, cookieVars, valueVars
  <2> DEFINE created == {i \in DOMAIN rows : rows[i].name \notin cookies}
             new == UNION {InsertCookieOps({rows[i].name}, i) : i \in created}
  <2>3. ASSUME NEW c \in Slots,
               /\ statsPending' = [statsPending EXCEPT ![c] = FALSE]
               /\ statsLoaded' = [statsLoaded EXCEPT ![c] = TRUE]
               /\ LoadRows(c, rows)
               /\ cookies' = cookies \cup {rows[i].name : i \in created}
               /\ Replace(op, new)
               /\ UNCHANGED <<connected, dbid>>
        PROVE  TypeOK'
    <3>1. \A i \in DOMAIN rows : i \in Nat /\ rows[i].name \in Names
      <4>1. PICK k \in Nat : rows \in [1..k -> Rows(op.steamId)]
        BY DEF Results
      <4>2. QED
        BY <4>1 DEF Rows, Stored
    <3>2. \A i \in created : InsertCookieOps({rows[i].name}, i) \subseteq Op
      BY <3>1, NewType DEF InsertCookieOps, InsertCookieOp, Op
    <3>3. new \subseteq Op
      BY <3>2
    <3>4. cookies' \subseteq Names
      BY <2>3, <3>1 DEF TypeOK
    <3> HIDE DEF new, created
    <3>5. ops' \subseteq Op
      BY <2>3, <3>3 DEF Replace, TypeOK
    <3>6. /\ clientData' \in [Slots -> Seq(CookieData)]
          /\ data' \in [Names -> [Slots -> Nat]]
      BY <2>1, <2>3, LoadRowsType
    <3>7. QED
      BY <1>14, <2>3, <3>4, <3>5, <3>6 DEF ClientConnectCallback, TypeOK, serverVars
  <2>4. QED
    BY <1>14, <2>2, <2>3 DEF ClientConnectCallback, ClientsWithSerial
<1>15. CASE UNCHANGED vars
  BY <1>15 DEF vars, TypeOK, serverVars, flagVars, cookieVars, valueVars
<1>16. QED
  BY <1>2, <1>3, <1>4, <1>5, <1>6, <1>7, <1>8, <1>9, <1>10, <1>11, <1>12, <1>13,
     <1>14, <1>15 DEF Next, Server, Native, RunFrame

(* Whatever the server, the plugins and the query threads do, no variable  *)
(* of the CookieManager leaves its type.                                   *)
THEOREM TypeCorrect == Spec => []TypeOK
BY InitType, NextType, PTL DEF Spec

-----------------------------------------------------------------------------
(* Every authorized human is served exactly once.                          *)

(* Two slots never have the same serial.                                   *)
SerialsDistinct == \A c, d \in Slots : serial[c] = serial[d] => c = d

(* No query asks for a serial that has not been handed out.                *)
QueriesKnown ==
    \A op \in ops : op.type = "SelectData" => op.serial <= lastSerial

(* What holds of each slot.                                                *)
Waiting(c) ==
    statsPending[c] /\ ~statsLoaded[c] /\ \E op \in ops : SelectsFor(c) = {op}
Loaded(c) == ~statsPending[c] /\ statsLoaded[c] /\ SelectsFor(c) = {}

SlotInv(c) ==
    /\ authorized[c] => player[c] # NoPlayer
    /\ serial[c] <= lastSerial
    /\ Served(c) => Waiting(c) \/ Loaded(c)
    /\ statsLoaded[c] => Served(c)
    /\ player[c] # NoPlayer /\ ~Served(c) => SelectsFor(c) = {}

ServedInv ==
    /\ TypeOK
    /\ SerialsDistinct
    /\ QueriesKnown
    /\ \A c \in Slots : SlotInv(c)

-----------------------------------------------------------------------------
(* A slot whose player, flags and queries a step leaves alone stays good.  *)
LEMMA SlotUntouched ==
    ASSUME NEW c \in Slots, SlotInv(c), TypeOK, TypeOK',
           lastSerial <= lastSerial',
           player'[c] = player[c], serial'[c] = serial[c],
           authorized'[c] = authorized[c],
           statsPending'[c] = statsPending[c], statsLoaded'[c] = statsLoaded[c],
           \A op : op \in SelectsFor(c)' <=> op \in SelectsFor(c)
    PROVE  SlotInv(c)'
<1>1. SelectsFor(c)' = SelectsFor(c)
  OBVIOUS
<1>2. Served(c)' <=> Served(c)
  BY DEF Served, Human
<1>3. serial[c] \in Nat /\ lastSerial \in Nat /\ lastSerial' \in Nat
  BY DEF TypeOK
<1>4. Waiting(c)' <=> Waiting(c)
  BY <1>1 DEF Waiting, SelectsFor
<1>5. Loaded(c)' <=> Loaded(c)
  BY <1>1 DEF Loaded
<1>6. QED
  BY <1>1, <1>2, <1>3, <1>4, <1>5 DEF SlotInv

(* Outside OnClientDisconnecting nobody is ever missed.                    *)
LEMMA NobodyMissed ==
    ASSUME ServedInv
    PROVE  Missed(authorized, statsLoaded, statsPending) = {}
BY DEF ServedInv, SlotInv, Missed, Served, Human, Waiting, Loaded

(* A step that only adds and removes operations of other kinds.            *)
LEMMA OtherQueries ==
    ASSUME ServedInv, TypeOK', UNCHANGED serverVars, UNCHANGED <<statsLoaded, statsPending>>,
           \A op : op.type = "SelectData" => (op \in ops' <=> op \in ops)
    PROVE  ServedInv'
<1>1. ASSUME NEW c \in Slots PROVE SlotInv(c)'
  <2>1. \A op : op \in SelectsFor(c)' <=> op \in SelectsFor(c)
    BY DEF SelectsFor, serverVars
  <2>2. lastSerial <= lastSerial'
    BY DEF serverVars, ServedInv, TypeOK
  <2>3. QED
    BY <2>1, <2>2, SlotUntouched DEF ServedInv, serverVars
<1>2. QueriesKnown'
  BY DEF ServedInv, QueriesKnown, serverVars
<1>3. SerialsDistinct'
  BY DEF ServedInv, SerialsDistinct, serverVars
<1>4. QED
  BY <1>1, <1>2, <1>3 DEF ServedInv

(* A test for missed players that finds nobody.                            *)
LEMMA AttemptReconnectionServed ==
    ASSUME ServedInv, TypeOK', UNCHANGED serverVars, NEW new,
           \A op \in new : op.type # "SelectData",
           AttemptReconnection(new)
    PROVE  ServedInv'
<1>1. Missed(authorized, statsLoaded, statsPending) = {}
  BY NobodyMissed
<1>2. SelectOps({}) = {}
  BY DEF SelectOps
<1>3. \A op : op.type = "SelectData" => (op \in ops' <=> op \in ops)
  BY <1>1, <1>2 DEF AttemptReconnection, Submit
<1>4. statsPending' = statsPending /\ statsLoaded' = statsLoaded
  BY <1>1 DEF AttemptReconnection, Marked, ServedInv, TypeOK
<1>5. QED
  BY <1>3, <1>4, OtherQueries

-----------------------------------------------------------------------------
LEMMA InitServed == Init => ServedInv
<1> SUFFICES ASSUME Init PROVE ServedInv
  OBVIOUS
<1>1. Slots \subseteq Nat /\ \A c \in Slots : c <= MaxClients
  BY ConstantsAssumption DEF Slots
<1> DEFINE first(c) == [id |-> <<CHOOSE a \in Addresses : TRUE, c>>,
                        type |-> "SelectData", serial |-> serial[c],
                        steamId |-> player[c]]
<1>2. ops = {first(c) : c \in {d \in Slots : statsPending[d]}}
  BY DEF Init
<1>3. \A c \in Slots : first(c).type = "SelectData" /\ first(c).serial = c
  BY DEF Init
<1> HIDE DEF first
<1>4. SerialsDistinct /\ QueriesKnown
  BY <1>1, <1>2, <1>3 DEF Init, SerialsDistinct, QueriesKnown
<1>5. ASSUME NEW c \in Slots PROVE SlotInv(c)
  <2>1. SelectsFor(c) = IF statsPending[c] THEN {first(c)} ELSE {}
    <3>1. serial[c] = c
      BY DEF Init
    <3>2. \A op \in ops : op.serial = c => op = first(c) /\ statsPending[c]
      BY <1>2, <1>3
    <3>3. statsPending[c] => first(c) \in ops
      BY <1>2
    <3>4. QED
      BY <1>3, <3>1, <3>2, <3>3 DEF SelectsFor
  <2>2. statsPending[c] <=> Served(c)
    BY DEF Init, Served, Human
  <2>3. statsPending[c] => first(c) \in ops
    BY <1>2
  <2>4. /\ authorized[c] => player[c] # NoPlayer
        /\ serial[c] <= lastSerial
        /\ ~statsLoaded[c]
    BY <1>1 DEF Init
  <2>5. QED
    BY <2>1, <2>2, <2>3, <2>4 DEF SlotInv, Waiting
<1>6. QED
  BY <1>4, <1>5, InitType DEF ServedInv

(* A player takes a free slot, with a serial no query knows.               *)
LEMMA ClientConnectServed ==
    ASSUME ServedInv, TypeOK', NEW c \in Slots, NEW p \in Players, ClientConnect(c, p)
    PROVE  ServedInv'
<1> USE DEF ServedInv
<1>1. /\ lastSerial \in Nat /\ lastSerial' = lastSerial + 1
      /\ serial' = [serial EXCEPT ![c] = lastSerial + 1]
      /\ player' = [player EXCEPT ![c] = p]
      /\ authorized' = [authorized EXCEPT ![c] = FALSE]
      /\ UNCHANGED <<statsLoaded, statsPending, ops>>
      /\ serial \in [Slots -> Nat] /\ player \in [Slots -> Players \cup {NoPlayer}]
      /\ authorized \in [Slots -> BOOLEAN]
  BY DEF ClientConnect, TypeOK, flagVars
<1>2. \A d \in Slots : serial[d] <= lastSerial
  BY DEF SlotInv
<1>3. SerialsDistinct'
  BY <1>1, <1>2 DEF SerialsDistinct
<1>4. QueriesKnown'
  <2> SUFFICES ASSUME NEW op \in ops, op.type = "SelectData"
               PROVE  op.serial <= lastSerial + 1
    BY <1>1 DEF QueriesKnown
  <2>1. op.serial <= lastSerial
    BY DEF QueriesKnown
  <2>2. op.serial \in Nat
    BY DEF TypeOK, Op, InsertCookieOp, SelectDataOp, InsertDataOp, SelectIdOp
  <2>3. QED
    BY <1>1, <2>1, <2>2
<1>5. SlotInv(c)'
  <2>1. SelectsFor(c)' = {}
    <3> SUFFICES ASSUME NEW op \in ops, op.type = "SelectData", op.serial = lastSerial + 1
                 PROVE  FALSE
      BY <1>1 DEF SelectsFor
    <3>1. QED
      BY <1>1 DEF QueriesKnown
  <2>2. ~statsLoaded[c]
    BY DEF SlotInv, Served, Human, ClientConnect
  <2>3. ~Served(c)'
    BY <1>1 DEF Served
  <2>4. QED
    BY <1>1, <2>1, <2>2, <2>3 DEF SlotInv
<1>6. ASSUME NEW d \in Slots \ {c} PROVE SlotInv(d)'
  <2>1. /\ player'[d] = player[d] /\ serial'[d] = serial[d]
        /\ authorized'[d] = authorized[d]
        /\ statsPending'[d] = statsPending[d] /\ statsLoaded'[d] = statsLoaded[d]
        /\ lastSerial <= lastSerial'
        /\ SlotInv(d)
    BY <1>1
  <2>2. \A op : op \in SelectsFor(d)' <=> op \in SelectsFor(d)
    BY <1>1, <2>1 DEF SelectsFor
  <2>3. QED
    BY <2>1, <2>2, SlotUntouched
<1>7. QED
  BY <1>3, <1>4, <1>5, <1>6

(* A human is authorized: exactly one query is created.                    *)
LEMMA OnClientAuthorizedServed ==
    ASSUME ServedInv, TypeOK', NEW c \in Slots, OnClientAuthorized(c)
    PROVE  ServedInv'
<1> USE DEF ServedInv
<1>1. /\ player[c] # NoPlayer /\ ~authorized[c]
      /\ authorized' = [authorized EXCEPT ![c] = TRUE]
      /\ UNCHANGED <<player, serial, lastSerial>>
      /\ authorized \in [Slots -> BOOLEAN]
      /\ lastSerial \in Nat /\ serial \in [Slots -> Nat]
  BY DEF OnClientAuthorized, TypeOK
<1>2. SelectsFor(c) = {} /\ ~statsLoaded[c]
  BY <1>1 DEF SlotInv, Served
<1>3. SerialsDistinct'
  BY <1>1 DEF SerialsDistinct
<1>4. CASE player[c] \in Bots
  <2>1. UNCHANGED <<statsLoaded, statsPending, ops>>
    BY <1>4 DEF OnClientAuthorized, flagVars
  <2>2. QueriesKnown'
    BY <1>1, <2>1 DEF QueriesKnown
  <2>3. SlotInv(c)'
    BY <1>1, <1>2, <1>4, <2>1 DEF SlotInv, Served, Human, SelectsFor
  <2>4. ASSUME NEW d \in Slots \ {c} PROVE SlotInv(d)'
    <3>1. /\ player'[d] = player[d] /\ serial'[d] = serial[d]
          /\ authorized'[d] = authorized[d]
          /\ statsPending'[d] = statsPending[d] /\ statsLoaded'[d] = statsLoaded[d]
          /\ lastSerial <= lastSerial'
          /\ SlotInv(d)
      BY <1>1, <2>1
    <3>2. \A op : op \in SelectsFor(d)' <=> op \in SelectsFor(d)
      BY <1>1, <2>1 DEF SelectsFor
    <3>3. QED
      BY <3>1, <3>2, SlotUntouched
  <2>5. QED
    BY <1>3, <2>2, <2>3, <2>4
<1>5. CASE player[c] \notin Bots
  <2> DEFINE pending == [statsPending EXCEPT ![c] = TRUE]
             auth == [authorized EXCEPT ![c] = TRUE]
             new == SelectOp(c, MaxClients + 1)
  <2>1. Missed(auth, statsLoaded, pending) = {}
    <3> SUFFICES ASSUME NEW d \in Slots, d # c, ~statsPending[d], ~statsLoaded[d],
                        player[d] # NoPlayer, authorized[d], player[d] \notin Bots
                 PROVE  FALSE
      BY <1>1 DEF Missed, TypeOK
    <3>1. QED
      BY DEF SlotInv, Served, Human, Waiting, Loaded
  <2>2. SelectOps({}) = {} /\ \A f : f \in [Slots -> BOOLEAN] => Marked(f, {}) = f
    BY DEF SelectOps, Marked
  <2>3. statsPending' = pending /\ statsLoaded' = statsLoaded /\ ops' = ops \cup {new}
    <3>1. /\ statsPending' = Marked(pending, Missed(auth, statsLoaded, pending))
          /\ Submit(SelectOps(Missed(auth, statsLoaded, pending)) \cup {new})
          /\ statsLoaded' = statsLoaded
      BY <1>5 DEF OnClientAuthorized
    <3>2. pending \in [Slots -> BOOLEAN]
      BY DEF TypeOK
    <3> HIDE DEF auth, pending, new
    <3>3. statsPending' = pending
      BY <2>1, <2>2, <3>1, <3>2
    <3>4. ops' = ops \cup {new}
      BY <2>1, <2>2, <3>1 DEF Submit
    <3>5. QED
      BY <3>1, <3>3, <3>4
  <2>4. new.type = "SelectData" /\ new.serial = serial[c]
    BY DEF SelectOp
  <2> HIDE DEF new
  <2>5. QueriesKnown'
    BY <1>1, <2>3, <2>4 DEF QueriesKnown, SlotInv
  <2>6. SelectsFor(c)' = {new}
    BY <1>1, <1>2, <2>3, <2>4 DEF SelectsFor
  <2>7. SlotInv(c)'
    <3>1. new \in ops' /\ statsPending'[c] /\ ~statsLoaded'[c]
      BY <1>2, <2>3 DEF TypeOK
    <3>2. Waiting(c)'
      BY <2>6, <3>1 DEF Waiting
    <3>3. Served(c)' /\ serial'[c] <= lastSerial' /\ player'[c] # NoPlayer
      BY <1>1, <1>5 DEF Served, Human, SlotInv
    <3>4. QED
      BY <3>1, <3>2, <3>3 DEF SlotInv
  <2>8. ASSUME NEW d \in Slots \ {c} PROVE SlotInv(d)'
    <3>1. serial[d] # serial[c]
      BY DEF SerialsDistinct
    <3>2. \A op : op \in SelectsFor(d)' <=> op \in SelectsFor(d)
      BY <1>1, <2>3, <2>4, <3>1 DEF SelectsFor
    <3>3. /\ player'[d] = player[d] /\ serial'[d] = serial[d]
          /\ authorized'[d] = authorized[d]
          /\ statsPending'[d] = statsPending[d] /\ statsLoaded'[d] = statsLoaded[d]
          /\ lastSerial <= lastSerial'
          /\ SlotInv(d)
      BY <1>1, <2>3 DEF TypeOK
    <3>4. QED
      BY <3>2, <3>3, SlotUntouched
  <2>9. QED
    BY <1>3, <2>5, <2>7, <2>8
<1>6. QED
  BY <1>4, <1>5

(* A player leaves: the queries made on the way carry the old serial.      *)
LEMMA OnClientDisconnectingServed ==
    ASSUME ServedInv, TypeOK', NEW c \in Slots, OnClientDisconnecting(c)
    PROVE  ServedInv'
<1> DEFINE loaded == [statsLoaded EXCEPT ![c] = FALSE]
           pending == [statsPending EXCEPT ![c] = FALSE]
           missed == Missed(authorized, loaded, pending)
           new == SelectOps(missed) \cup SaveOps(c)
<1>1. /\ statsLoaded' = loaded
      /\ statsPending' = Marked(pending, missed)
      /\ ops' = ops \cup new
      /\ player' = [player EXCEPT ![c] = NoPlayer]
      /\ authorized' = [authorized EXCEPT ![c] = FALSE]
      /\ UNCHANGED <<serial, lastSerial>>
  BY DEF OnClientDisconnecting, Submit
<1>2. /\ TypeOK /\ player \in [Slots -> Players \cup {NoPlayer}]
      /\ authorized \in [Slots -> BOOLEAN] /\ statsLoaded \in [Slots -> BOOLEAN]
      /\ statsPending \in [Slots -> BOOLEAN]
      /\ lastSerial \in Nat /\ serial \in [Slots -> Nat]
  BY DEF ServedInv, TypeOK
<1>3. missed \subseteq {c}
  <2> SUFFICES ASSUME NEW d \in Slots, d # c, ~statsPending[d], ~statsLoaded[d],
                      player[d] # NoPlayer, authorized[d], player[d] \notin Bots
               PROVE  FALSE
    BY <1>2 DEF Missed
  <2>1. QED
    BY DEF ServedInv, SlotInv, Served, Human, Waiting, Loaded
<1>4. \A op \in new : op.type = "SelectData" => op.serial = serial[c]
  <2>1. \A op \in SelectOps(missed) : op.serial = serial[c]
    <3>1. \A d : SelectOp(d, d).serial = serial[d]
      BY DEF SelectOp
    <3> HIDE DEF missed
    <3>2. QED
      BY <1>3, <3>1 DEF SelectOps
  <2>2. \A op \in SaveOps(c) : op.type = "InsertData"
    BY DEF SaveOps
  <2>3. QED
    BY <2>1, <2>2
<1> HIDE DEF new
<1>5. SerialsDistinct'
  BY <1>1 DEF ServedInv, SerialsDistinct
<1>6. QueriesKnown'
  BY <1>1, <1>4 DEF ServedInv, QueriesKnown, SlotInv
<1>7. SlotInv(c)'
  <2>1. player'[c] = NoPlayer /\ ~authorized'[c] /\ ~statsLoaded'[c]
    BY <1>1, <1>2
  <2>2. serial'[c] <= lastSerial'
    BY <1>1 DEF ServedInv, SlotInv
  <2>3. QED
    BY <2>1, <2>2 DEF SlotInv, Served, Human
<1>8. ASSUME NEW d \in Slots \ {c} PROVE SlotInv(d)'
  <2>1. serial[d] # serial[c]
    BY DEF ServedInv, SerialsDistinct
  <2>2. \A op : op \in SelectsFor(d)' <=> op \in SelectsFor(d)
    BY <1>1, <1>4, <2>1 DEF SelectsFor
  <2> HIDE DEF missed
  <2>3. statsPending'[d] = statsPending[d]
    BY <1>1, <1>2, <1>3 DEF Marked
  <2>4. /\ player'[d] = player[d] /\ serial'[d] = serial[d]
        /\ authorized'[d] = authorized[d] /\ statsLoaded'[d] = statsLoaded[d]
        /\ lastSerial <= lastSerial'
        /\ SlotInv(d)
    BY <1>1, <1>2 DEF ServedInv
  <2>5. QED
    BY <1>2, <2>2, <2>3, <2>4, SlotUntouched
<1>9. QED
  BY <1>5, <1>6, <1>7, <1>8 DEF ServedInv

(* The answer to a query: the only one of its player, or nobody's.         *)
LEMMA ClientConnectCallbackServed ==
    ASSUME ServedInv, TypeOK', NEW op \in ops, NEW rows, ClientConnectCallback(op, rows)
    PROVE  ServedInv'
<1>1. op.type = "SelectData" /\ UNCHANGED serverVars
  BY DEF ClientConnectCallback
<1>2. TypeOK /\ SerialsDistinct /\ \A d \in Slots : SlotInv(d)
  BY DEF ServedInv
<1>3. SerialsDistinct'
  BY <1>1, <1>2 DEF SerialsDistinct, serverVars
<1>4. ASSUME \A o : o.type = "SelectData" => (o \in ops' <=> o \in ops /\ o # op)
      PROVE  /\ QueriesKnown'
             /\ \A d \in Slots : serial[d] # op.serial =>
                    \A o : o \in SelectsFor(d)' <=> o \in SelectsFor(d)
             /\ \A d \in Slots : \A o : o \in SelectsFor(d)' => o \in SelectsFor(d) \ {op}
  <2>1. QueriesKnown'
    BY <1>1, <1>4 DEF ServedInv, QueriesKnown, serverVars
  <2>2. ASSUME NEW d \in Slots, NEW o
        PROVE  o \in SelectsFor(d)' <=> o \in SelectsFor(d) /\ o # op
    BY <1>1, <1>4 DEF SelectsFor, serverVars
  <2>3. \A d \in Slots : serial[d] # op.serial => op \notin SelectsFor(d)
    BY DEF SelectsFor
  <2>4. QED
    BY <2>1, <2>2, <2>3
<1>5. CASE ClientsWithSerial(op.serial) = {} /\ Replace(op, {}) /\ UNCHANGED flagVars
  <2>1. \A o : o.type = "SelectData" => (o \in ops' <=> o \in ops /\ o # op)
    BY <1>5 DEF Replace
  <2>2. ASSUME NEW d \in Slots PROVE SlotInv(d)'
    <3>1. CASE serial[d] # op.serial
      <4>1. \A o : o \in SelectsFor(d)' <=> o \in SelectsFor(d)
        BY <1>4, <2>1, <3>1
      <4>2. /\ player'[d] = player[d] /\ serial'[d] = serial[d]
            /\ authorized'[d] = authorized[d]
            /\ statsPending'[d] = statsPending[d] /\ statsLoaded'[d] = statsLoaded[d]
            /\ lastSerial <= lastSerial'
        BY <1>1, <1>2, <1>5 DEF serverVars, flagVars, TypeOK
      <4>3. QED
        BY <1>2, <4>1, <4>2, SlotUntouched
    <3>2. CASE serial[d] = op.serial
      <4>1. player[d] = NoPlayer
        BY <1>5, <3>2 DEF ClientsWithSerial
      <4>2. ~Served(d) /\ ~statsLoaded[d] /\ ~authorized[d] /\ serial[d] <= lastSerial
        BY <1>2, <4>1 DEF SlotInv, Served, Human
      <4>3. QED
        BY <1>1, <1>5, <4>1, <4>2 DEF SlotInv, Served, Human, serverVars, flagVars
    <3>3. QED
      BY <3>1, <3>2
  <2>3. QueriesKnown'
    BY <1>4, <2>1
  <2>4. QED
    BY <1>3, <2>2, <2>3 DEF ServedInv
<1>6. ASSUME NEW c \in ClientsWithSerial(op.serial),
             \A o : o.type = "SelectData" => (o \in ops' <=> o \in ops /\ o # op),
             statsPending' = [statsPending EXCEPT ![c] = FALSE],
             statsLoaded' = [statsLoaded EXCEPT ![c] = TRUE]
      PROVE  ServedInv'
  <2>1. c \in Slots /\ player[c] # NoPlayer /\ serial[c] = op.serial
    BY DEF ClientsWithSerial
  <2>2. op \in SelectsFor(c)
    BY <1>1, <2>1 DEF SelectsFor
  <2>3. Served(c) /\ SelectsFor(c) = {op}
    BY <1>2, <2>1, <2>2 DEF SlotInv, Waiting, Loaded
  <2>4. SlotInv(c)'
    <3>1. SelectsFor(c)' = {}
      BY <1>4, <1>6, <2>1, <2>3
    <3>2. ~statsPending'[c] /\ statsLoaded'[c]
      BY <1>2, <1>6, <2>1 DEF TypeOK
    <3>3. Served(c)' /\ player'[c] # NoPlayer /\ serial'[c] <= lastSerial'
      BY <1>1, <1>2, <2>1, <2>3 DEF Served, Human, serverVars, SlotInv
    <3>4. QED
      BY <3>1, <3>2, <3>3 DEF SlotInv, Loaded
  <2>5. ASSUME NEW d \in Slots \ {c} PROVE SlotInv(d)'
    <3>1. serial[d] # op.serial
      BY <1>2, <2>1 DEF SerialsDistinct
    <3>2. \A o : o \in SelectsFor(d)' <=> o \in SelectsFor(d)
      BY <1>4, <1>6, <3>1
    <3>3. /\ player'[d] = player[d] /\ serial'[d] = serial[d]
          /\ authorized'[d] = authorized[d]
          /\ statsPending'[d] = statsPending[d] /\ statsLoaded'[d] = statsLoaded[d]
          /\ lastSerial <= lastSerial'
      BY <1>1, <1>2, <1>6 DEF serverVars, TypeOK
    <3>4. QED
      BY <1>2, <3>2, <3>3, SlotUntouched
  <2>6. QueriesKnown'
    BY <1>4, <1>6
  <2>7. QED
    BY <1>3, <2>4, <2>5, <2>6 DEF ServedInv
<1> DEFINE created == {i \in DOMAIN rows : rows[i].name \notin cookies}
           added == UNION {InsertCookieOps({rows[i].name}, i) : i \in created}
<1>7. \A o \in added : o.type = "InsertCookie"
  BY DEF InsertCookieOps
<1>8. CASE \E c \in ClientsWithSerial(op.serial) :
              /\ statsPending' = [statsPending EXCEPT ![c] = FALSE]
              /\ statsLoaded' = [statsLoaded EXCEPT ![c] = TRUE]
              /\ Replace(op, added)
  <2> HIDE DEF added
  <2>1. \A o : o.type = "SelectData" => (o \in ops' <=> o \in ops /\ o # op)
    BY <1>7, <1>8 DEF Replace
  <2>2. QED
    BY <1>6, <1>8, <2>1
<1>9. QED
  BY <1>5, <1>8 DEF ClientConnectCallback

-----------------------------------------------------------------------------
LEMMA NextServed == ServedInv /\ TypeOK' /\ [Next]_vars => ServedInv'
<1> SUFFICES ASSUME ServedInv, TypeOK', [Next]_vars PROVE ServedInv'
  OBVIOUS
<1>1. ASSUME NEW c \in Slots, NEW p \in Players, ClientConnect(c, p) PROVE ServedInv'
  BY <1>1, ClientConnectServed
<1>2. ASSUME NEW c \in Slots, OnClientAuthorized(c) PROVE ServedInv'
  BY <1>2, OnClientAuthorizedServed
<1>3. ASSUME NEW c \in Slots, OnClientDisconnecting(c) PROVE ServedInv'
  BY <1>3, OnClientDisconnectingServed
<1>4. ASSUME NEW n \in Names, RegClientCookie(n) PROVE ServedInv'
  <2>1. \A op \in InsertCookieOps({n} \ cookies, MaxClients + 1) : op.type # "SelectData"
    BY DEF InsertCookieOps
  <2>2. QED
    BY <1>4, <2>1, AttemptReconnectionServed DEF RegClientCookie
<1>5. ASSUME NEW n \in Names, NEW c \in Slots, GetClientCookie(n, c) PROVE ServedInv'
  BY <1>5, AttemptReconnectionServed DEF GetClientCookie
<1>6. ASSUME NEW n \in Names, NEW c \in Slots, NEW v \in Value, SetClientCookie(n, c, v)
      PROVE  ServedInv'
  BY <1>6, AttemptReconnectionServed DEF SetClientCookie
<1>7. ASSUME NEW n \in Names, NEW c \in Slots, NEW v \in Value, OnMenuSelect(n, c, v)
      PROVE  ServedInv'
  <2>1. UNCHANGED serverVars /\ UNCHANGED <<statsLoaded, statsPending, ops>>
    BY <1>7 DEF OnMenuSelect, flagVars
  <2>2. QED
    BY <2>1, OtherQueries
<1>8. CASE CheckMissed
  BY <1>8, AttemptReconnectionServed DEF CheckMissed
<1>9. ASSUME NEW n \in Names, NEW v \in Value, SetAuthIdCookie(n, v) PROVE ServedInv'
  <2> DEFINE op == [id |-> New(MaxClients + 1), type |-> "InsertData",
                    steamId |-> v.by, cookieId |-> dbid[n], value |-> v]
  <2>1. op.type # "SelectData"
    OBVIOUS
  <2>2. UNCHANGED serverVars /\ (AttemptReconnection({}) \/ AttemptReconnection({op}))
    BY <1>9 DEF SetAuthIdCookie
  <2> HIDE DEF op
  <2>3. QED
    BY <2>1, <2>2, AttemptReconnectionServed
<1>10. ASSUME NEW op \in ops, NEW id \in CookieIds, InsertCookieCallback(op, id)
       PROVE  ServedInv'
  <2> DEFINE next == [id |-> New(1), type |-> "SelectId", cookie |-> op.cookie]
  <2>1. op.type # "SelectData" /\ next.type # "SelectData"
    BY <1>10 DEF InsertCookieCallback
  <2>2. /\ UNCHANGED serverVars /\ UNCHANGED <<statsLoaded, statsPending>>
        /\ ops' = (ops \ {op}) \/ ops' = (ops \ {op}) \cup {next}
    BY <1>10 DEF InsertCookieCallback, Replace, flagVars
  <2> HIDE DEF next
  <2>3. \A o : o.type = "SelectData" => (o \in ops' <=> o \in ops)
    BY <2>1, <2>2
  <2>4. QED
    BY <2>2, <2>3, OtherQueries
<1>11. ASSUME NEW op \in ops, SelectIdCallback(op, -1) \/ InsertDataDone(op)
       PROVE  ServedInv'
  <2>1. /\ op.type # "SelectData"
        /\ UNCHANGED serverVars /\ UNCHANGED <<statsLoaded, statsPending>>
        /\ ops' = ops \ {op}
    BY <1>11 DEF SelectIdCallback, InsertDataDone, Replace, flagVars
  <2>2. \A o : o.type = "SelectData" => (o \in ops' <=> o \in ops)
    BY <2>1
  <2>3. QED
    BY <2>1, <2>2, OtherQueries
<1>12. ASSUME NEW op \in ops, NEW rows, ClientConnectCallback(op, rows) PROVE ServedInv'
  BY <1>12, ClientConnectCallbackServed
<1>13. CASE UNCHANGED vars
  <2>1. UNCHANGED serverVars /\ UNCHANGED <<statsLoaded, statsPending, ops>>
    BY <1>13 DEF vars, flagVars
  <2>2. QED
    BY <2>1, OtherQueries
<1>14. QED
  BY <1>1, <1>2, <1>3, <1>4, <1>5, <1>6, <1>7, <1>8, <1>9, <1>10, <1>11, <1>12, <1>13
     DEF Next, Server, Native, RunFrame

(* The inductive invariant holds throughout.                               *)
THEOREM ServedInvariant == Spec => []ServedInv
<1>1. Init => ServedInv
  BY InitServed
<1>2. ServedInv /\ TypeOK' /\ [Next]_vars => ServedInv'
  BY NextServed
<1>3. QED
  BY <1>1, <1>2, TypeCorrect, PTL DEF Spec

(* Every authorized human is waiting for exactly one answer or loaded and  *)
(* waiting for none, however many players come, go and swap slots while    *)
(* answers are on their way.                                               *)
THEOREM PlayersServedOnce == Spec => []ServedOnce
<1>1. ServedInv => ServedOnce
  BY DEF ServedInv, SlotInv, Waiting, Loaded, ServedOnce
<1>2. QED
  BY <1>1, ServedInvariant, PTL

(* AreClientCookiesCached is never true of an empty slot, of a bot, or of  *)
(* a player who took over the slot of a loaded one.                        *)
THEOREM LoadedPlayersCurrent == Spec => []LoadedIsCurrent
<1>1. ServedInv => LoadedIsCurrent
  BY DEF ServedInv, SlotInv, LoadedIsCurrent
<1>2. QED
  BY <1>1, ServedInvariant, PTL

-----------------------------------------------------------------------------
(* An answer that reaches a slot whose player is loaded does not exist, and*)
(* the other completions touch no value.                                   *)
StableStep ==
    \A c \in Slots : statsLoaded[c] /\ ops \ ops' # {} =>
        /\ clientData'[c] = clientData[c]
        /\ \A n \in Names : data'[n][c] = data[n][c]

LEMMA AnswerStable ==
    ASSUME ServedInv, NEW op \in ops, NEW rows, ClientConnectCallback(op, rows)
    PROVE  StableStep
<1>1. clientData \in [Slots -> Seq(CookieData)] /\ data \in [Names -> [Slots -> Nat]]
  BY DEF ServedInv, TypeOK
<1>2. CASE UNCHANGED valueVars
  BY <1>2 DEF StableStep, valueVars
<1>3. ASSUME NEW c \in ClientsWithSerial(op.serial), LoadRows(c, rows)
      PROVE  StableStep
  <2>1. c \in Slots /\ player[c] # NoPlayer /\ op \in SelectsFor(c)
    BY DEF ClientsWithSerial, SelectsFor, ClientConnectCallback
  <2>2. ~statsLoaded[c]
    BY <2>1 DEF ServedInv, SlotInv, Waiting, Loaded
  <2>3. \A d \in Slots \ {c} : clientData'[d] = clientData[d]
    BY <1>1, <1>3 DEF LoadRows
  <2>4. ASSUME NEW n \in Names, NEW d \in Slots \ {c} PROVE data'[n][d] = data[n][d]
    <3> DEFINE k == CHOOSE i \in DOMAIN rows : rows[i].name = n
    <3>1. \/ data'[n] = data[n]
          \/ data'[n] = [data[n] EXCEPT ![c] = Len(clientData[c]) + k]
      BY <1>3 DEF LoadRows
    <3> HIDE DEF k
    <3>2. data[n] \in [Slots -> Nat]
      BY <1>1
    <3>3. QED
      BY <3>1, <3>2
  <2>5. QED
    BY <2>2, <2>3, <2>4 DEF StableStep
<1>4. QED
  BY <1>2, <1>3 DEF ClientConnectCallback

(* Once loaded, a player's values change only by what the game does.       *)
THEOREM LoadedStable == Spec => LoadedValuesStable
<1>1. ASSUME ServedInv, [Next]_vars PROVE [StableStep]_vars
  <2>1. ASSUME NEW op \in ops, NEW rows, ClientConnectCallback(op, rows) PROVE StableStep
    BY <1>1, <2>1, AnswerStable
  <2>2. ASSUME NEW op \in ops, NEW id,
               \/ InsertCookieCallback(op, id)
               \/ SelectIdCallback(op, id)
               \/ InsertDataDone(op)
        PROVE  StableStep
    BY <2>2 DEF InsertCookieCallback, SelectIdCallback, InsertDataDone, valueVars, StableStep
  <2>3. CASE Server \/ Native
    <3>1. ops \subseteq ops'
      BY <2>3 DEF Server, Native, ClientConnect, OnClientAuthorized, OnClientDisconnecting,
             RegClientCookie, GetClientCookie, SetClientCookie, OnMenuSelect, CheckMissed,
             SetAuthIdCookie, AttemptReconnection, Submit
    <3>2. QED
      BY <3>1 DEF StableStep
  <2>4. QED
    BY <1>1, <2>1, <2>2, <2>3 DEF Next, RunFrame
<1>2. QED
  BY <1>1, ServedInvariant, PTL DEF Spec, StableStep, LoadedValuesStable

-----------------------------------------------------------------------------
(* Pointers.                                                               *)

PointsToNewest(n, c) ==
    /\ data[n][c] # 0 => /\ data[n][c] \in DOMAIN clientData[c]
                         /\ clientData[c][data[n][c]].parent = n
    /\ \A i \in DOMAIN clientData[c] :
            clientData[c][i].parent = n => i <= data[n][c]

(* A slot whose values and pointers stay keeps its newest ones.            *)
LEMMA PointerUntouched ==
    ASSUME NEW n \in Names, NEW c \in Slots, PointsToNewest(n, c),
           clientData'[c] = clientData[c], data'[n][c] = data[n][c]
    PROVE  PointsToNewest(n, c)'
BY DEF PointsToNewest

(* A new CookieData of a cookie that had none, or an older one: it is the  *)
(* last of its slot.                                                       *)
LEMMA AppendValuePointer ==
    ASSUME TypeOK, PointerIsNewest, NEW n \in Names, NEW c \in Slots,
           NEW d \in CookieData, d.parent = n, AppendValue(n, c, d)
    PROVE  PointerIsNewest'
<1> DEFINE s == clientData[c]
<1>1. /\ s \in Seq(CookieData)
      /\ clientData'[c] = Append(s, d)
      /\ \A e \in Slots \ {c} : clientData'[e] = clientData[e]
      /\ data'[n][c] = Len(s) + 1
      /\ \A e \in Slots \ {c} : data'[n][e] = data[n][e]
      /\ \A m \in Names \ {n} : data'[m] = data[m]
  BY DEF TypeOK, AppendValue
<1>2. /\ Len(s) \in Nat /\ DOMAIN s = 1..Len(s)
      /\ DOMAIN Append(s, d) = 1..(Len(s) + 1)
      /\ \A i \in 1..Len(s) : Append(s, d)[i] = s[i]
      /\ Append(s, d)[Len(s) + 1] = d
  BY <1>1
<1> HIDE DEF s
<1>3. ASSUME NEW m \in Names, NEW e \in Slots PROVE PointsToNewest(m, e)'
  <2>1. PointsToNewest(m, e) /\ data[m][e] \in Nat
    BY DEF PointerIsNewest, PointsToNewest, TypeOK
  <2>2. CASE e # c
    BY <1>1, <2>1, <2>2, PointerUntouched
  <2>3. CASE e = c /\ m = n
    BY <1>1, <1>2, <2>3 DEF PointsToNewest
  <2>4. CASE e = c /\ m # n
    <3>1. data'[m][c] = data[m][c]
      BY <1>1, <2>4
    <3>2. data[m][c] # 0 => data[m][c] \in 1..Len(s) /\ s[data[m][c]].parent = m
      BY <1>2, <2>1, <2>4 DEF PointsToNewest, s
    <3>3. \A i \in 1..Len(s) : s[i].parent = m => i <= data[m][c]
      BY <1>2, <2>1, <2>4 DEF PointsToNewest, s
    <3>4. QED
      BY <1>1, <1>2, <2>4, <3>1, <3>2, <3>3 DEF PointsToNewest
  <2>5. QED
    BY <2>2, <2>3, <2>4
<1>4. QED
  BY <1>3 DEF PointerIsNewest, PointsToNewest

(* SetCookieValue appends, or overwrites the newest value in place.        *)
LEMMA SetCookieValuePointer ==
    ASSUME TypeOK, PointerIsNewest, NEW n \in Names, NEW c \in Slots, NEW v \in Value,
           SetCookieValue(n, c, v)
    PROVE  PointerIsNewest'
<1>1. CASE data[n][c] = 0 /\ AppendValue(n, c, Written(n, v))
  <2>1. Written(n, v) \in CookieData /\ Written(n, v).parent = n
    BY DEF CookieData, Written
  <2>2. QED
    BY <1>1, <2>1, AppendValuePointer
<1>2. CASE /\ data[n][c] # 0
           /\ clientData' = [clientData EXCEPT ![c][data[n][c]] = Written(@.parent, v)]
           /\ UNCHANGED data
  <2> DEFINE k == data[n][c]
             s == clientData[c]
  <2>1. /\ s \in Seq(CookieData) /\ k \in DOMAIN s
        /\ clientData'[c] = [s EXCEPT ![k] = Written(s[k].parent, v)]
        /\ \A e \in Slots \ {c} : clientData'[e] = clientData[e]
    BY <1>2 DEF TypeOK, PointerIsNewest
  <2>2. /\ DOMAIN clientData'[c] = DOMAIN s
        /\ \A i \in DOMAIN s : clientData'[c][i].parent = s[i].parent
    BY <2>1 DEF Written
  <2>3. ASSUME NEW m \in Names, NEW e \in Slots PROVE PointsToNewest(m, e)'
    <3>1. PointsToNewest(m, e)
      BY DEF PointerIsNewest, PointsToNewest
    <3>2. CASE e # c
      BY <1>2, <2>1, <3>1, <3>2, PointerUntouched
    <3>3. CASE e = c
      BY <1>2, <2>2, <3>1, <3>3 DEF PointsToNewest
    <3>4. QED
      BY <3>2, <3>3
  <2>4. QED
    BY <2>3 DEF PointerIsNewest, PointsToNewest
<1>3. QED
  BY <1>1, <1>2 DEF SetCookieValue

(* An emptied slot has no pointers left.                                   *)
LEMMA ClearValuesPointer ==
    ASSUME TypeOK, PointerIsNewest, NEW c \in Slots, ClearValues(c)
    PROVE  PointerIsNewest'
<1>1. /\ clientData'[c] = <<>>
      /\ \A e \in Slots \ {c} : clientData'[e] = clientData[e]
  BY DEF TypeOK, ClearValues
<1>2. ASSUME NEW m \in Names, NEW e \in Slots PROVE PointsToNewest(m, e)'
  <2>1. PointsToNewest(m, e) /\ data[m] \in [Slots -> Nat]
    BY DEF PointerIsNewest, PointsToNewest, TypeOK
  <2>2. data'[m] = IF \E i \in DOMAIN clientData[c] : clientData[c][i].parent = m
                   THEN [data[m] EXCEPT ![c] = 0] ELSE data[m]
    BY DEF ClearValues
  <2>3. CASE e # c
    <3>1. data'[m][e] = data[m][e]
      BY <2>1, <2>2, <2>3
    <3>2. QED
      BY <1>1, <2>1, <2>3, <3>1, PointerUntouched
  <2>4. CASE e = c
    <3>1. data'[m][c] = 0
      BY <2>1, <2>2, <2>4 DEF PointsToNewest
    <3>2. QED
      BY <1>1, <2>4, <3>1 DEF PointsToNewest
  <2>5. QED
    BY <2>3, <2>4
<1>3. QED
  BY <1>2 DEF PointerIsNewest, PointsToNewest

(* What is in one sequence after another.                                  *)
LEMMA Concatenation ==
    ASSUME NEW S, NEW s \in Seq(S), NEW t \in Seq(S)
    PROVE  /\ DOMAIN (s \o t) = 1..(Len(s) + Len(t))
           /\ \A i \in 1..(Len(s) + Len(t)) :
                 (s \o t)[i] = IF i <= Len(s) THEN s[i] ELSE t[i - Len(s)]
OBVIOUS

(* The rows of an answer follow what the slot had, one per cookie.         *)
LEMMA LoadRowsPointer ==
    ASSUME TypeOK, PointerIsNewest, NEW c \in Slots, NEW p \in Players,
           NEW rows \in Results(p), LoadRows(c, rows)
    PROVE  PointerIsNewest'
<1> DEFINE s == clientData[c]
           new == [i \in DOMAIN rows |-> Unwritten(rows[i].name, rows[i].value)]
<1>1. PICK k \in Nat : rows \in [1..k -> Rows(p)]
  BY DEF Results
<1>2. \A i, j \in 1..k : rows[i].name = rows[j].name => i = j
  BY <1>1 DEF Results
<1>3. /\ s \in Seq(CookieData)
      /\ clientData'[c] = s \o new
      /\ \A e \in Slots \ {c} : clientData'[e] = clientData[e]
  BY DEF TypeOK, LoadRows
<1>4. /\ Len(s) \in Nat /\ DOMAIN s = 1..Len(s)
      /\ DOMAIN (s \o new) = 1..(Len(s) + k)
      /\ \A i \in 1..Len(s) : (s \o new)[i] = s[i]
      /\ \A i \in 1..k : (s \o new)[Len(s) + i].parent = rows[i].name
  <2>1. /\ new \in Seq({new[i] : i \in 1..k}) /\ Len(new) = k
        /\ \A i \in 1..k : new[i].parent = rows[i].name
    <3>1. DOMAIN rows = 1..k
      BY <1>1
    <3>2. new = [i \in 1..k |-> Unwritten(rows[i].name, rows[i].value)]
      BY <3>1
    <3>3. \A i \in 1..k : new[i].parent = rows[i].name
      BY <3>2 DEF Unwritten
    <3> HIDE DEF new
    <3>4. new \in [1..k -> {new[i] : i \in 1..k}]
      BY <3>2
    <3>5. QED
      BY <3>3, <3>4
  <2> HIDE DEF new
  <2> DEFINE D == CookieData \cup {new[i] : i \in 1..k}
  <2>2. s \in Seq(D) /\ new \in Seq(D)
    BY <1>3, <2>1
  <2>3. Len(s) \in Nat /\ DOMAIN s = 1..Len(s)
    BY <1>3
  <2> HIDE DEF s, D
  <2>4. /\ DOMAIN (s \o new) = 1..(Len(s) + k)
        /\ \A i \in 1..(Len(s) + k) :
              (s \o new)[i] = IF i <= Len(s) THEN s[i] ELSE new[i - Len(s)]
    BY <2>1, <2>2, Concatenation
  <2>5. \A i \in 1..k : (s \o new)[Len(s) + i] = new[i]
    BY <2>3, <2>4
  <2>6. QED
    BY <2>1, <2>3, <2>4, <2>5
<1> HIDE DEF s, new
<1>5. ASSUME NEW m \in Names, NEW e \in Slots PROVE PointsToNewest(m, e)'
  <2> DEFINE j == CHOOSE i \in DOMAIN rows : rows[i].name = m
  <2>1. PointsToNewest(m, e) /\ data[m] \in [Slots -> Nat]
    BY DEF PointerIsNewest, PointsToNewest, TypeOK
  <2>2. data'[m] = IF \E i \in DOMAIN rows : rows[i].name = m
                   THEN [data[m] EXCEPT ![c] = Len(s) + j] ELSE data[m]
    BY DEF LoadRows, s
  <2>3. DOMAIN rows = 1..k
    BY <1>1
  <2>4. (\E i \in 1..k : rows[i].name = m) => j \in 1..k /\ rows[j].name = m
    BY <2>3
  <2> HIDE DEF j
  <2>5. CASE e # c
    <3>1. data'[m][e] = data[m][e]
      BY <2>1, <2>2, <2>5
    <3>2. QED
      BY <1>3, <2>1, <2>5, <3>1, PointerUntouched
  <2>6. CASE e = c /\ \E i \in 1..k : rows[i].name = m
    <3>1. data'[m][c] = Len(s) + j /\ j \in 1..k /\ rows[j].name = m
      BY <2>1, <2>2, <2>3, <2>4, <2>6
    <3>2. Len(s) + j \in 1..(Len(s) + k) /\ Len(s) + j # 0
      BY <1>4, <3>1
    <3>3. clientData'[c][Len(s) + j].parent = m
      BY <1>3, <1>4, <3>1
    <3>4. ASSUME NEW i \in 1..(Len(s) + k), (s \o new)[i].parent = m
          PROVE  i <= Len(s) + j
      <4>1. CASE i <= Len(s)
        BY <1>4, <3>1, <4>1
      <4>2. CASE ~(i <= Len(s))
        <5>1. i - Len(s) \in 1..k /\ i = Len(s) + (i - Len(s))
          BY <1>4, <4>2
        <5>2. rows[i - Len(s)].name = m
          BY <1>4, <3>4, <5>1
        <5>3. i - Len(s) = j
          BY <1>2, <3>1, <5>1, <5>2
        <5>4. QED
          BY <1>4, <5>1, <5>3
      <4>3. QED
        BY <4>1, <4>2
    <3>5. QED
      BY <1>3, <1>4, <2>6, <3>1, <3>2, <3>3, <3>4 DEF PointsToNewest
  <2>7. CASE e = c /\ ~\E i \in 1..k : rows[i].name = m
    <3>1. data'[m][c] = data[m][c] /\ data[m][c] \in Nat
      BY <2>1, <2>2, <2>3, <2>7
    <3>2. data[m][c] # 0 => data[m][c] \in 1..Len(s) /\ s[data[m][c]].parent = m
      BY <1>4, <2>1, <2>7 DEF PointsToNewest, s
    <3>3. \A i \in 1..Len(s) : s[i].parent = m => i <= data[m][c]
      BY <1>4, <2>1, <2>7 DEF PointsToNewest, s
    <3>4. ASSUME NEW i \in 1..(Len(s) + k), (s \o new)[i].parent = m
          PROVE  i \in 1..Len(s)
      <4>1. CASE ~(i <= Len(s))
        <5>1. i - Len(s) \in 1..k /\ i = Len(s) + (i - Len(s))
          BY <1>4, <4>1
        <5>2. QED
          BY <1>4, <2>7, <3>4, <5>1
      <4>2. QED
        BY <1>4, <4>1
    <3>5. /\ data'[m][c] # 0 => /\ data'[m][c] \in DOMAIN (s \o new)
                                /\ (s \o new)[data'[m][c]].parent = m
          /\ \A i \in DOMAIN (s \o new) :
                (s \o new)[i].parent = m => i <= data'[m][c]
      BY <1>4, <3>1, <3>2, <3>3, <3>4
    <3>6. QED
      BY <1>3, <2>7, <3>5 DEF PointsToNewest
  <2>8. QED
    BY <2>5, <2>6, <2>7
<1>6. QED
  BY <1>5 DEF PointerIsNewest, PointsToNewest

(* Steps that leave the values alone.                                      *)
LEMMA ValuesUntouched ==
    ASSUME PointerIsNewest, UNCHANGED valueVars
    PROVE  PointerIsNewest'
BY DEF PointerIsNewest, valueVars

LEMMA InitPointer == Init => PointerIsNewest
BY DEF Init, PointerIsNewest

(* Every step keeps the pointers on the newest values.                     *)
LEMMA NextPointer == TypeOK /\ PointerIsNewest /\ [Next]_vars => PointerIsNewest'
<1> SUFFICES ASSUME TypeOK, PointerIsNewest, [Next]_vars PROVE PointerIsNewest'
  OBVIOUS
<1>1. CASE UNCHANGED valueVars
  BY <1>1, ValuesUntouched
<1>2. ASSUME NEW c \in Slots, OnClientDisconnecting(c) PROVE PointerIsNewest'
  BY <1>2, ClearValuesPointer DEF OnClientDisconnecting
<1>3. ASSUME NEW n \in Names, NEW c \in Slots, GetClientCookie(n, c) PROVE PointerIsNewest'
  <2>1. Unwritten(n, Empty) \in CookieData /\ Unwritten(n, Empty).parent = n
    BY DEF Unwritten, CookieData
  <2>2. QED
    BY <1>3, <2>1, AppendValuePointer DEF GetClientCookie
<1>4. ASSUME NEW n \in Names, NEW c \in Slots, NEW v \in Value, SetCookieValue(n, c, v)
      PROVE  PointerIsNewest'
  BY <1>4, SetCookieValuePointer
<1>5. ASSUME NEW op \in ops, op.type = "SelectData",
             NEW rows \in Results(op.steamId), ClientConnectCallback(op, rows)
      PROVE  PointerIsNewest'
  <2>1. op.steamId \in Players
    BY <1>5 DEF TypeOK, Op, InsertCookieOp, SelectDataOp, InsertDataOp, SelectIdOp
  <2>2. ASSUME NEW c \in Slots, LoadRows(c, rows) PROVE PointerIsNewest'
    BY <2>1, <2>2, LoadRowsPointer
  <2>3. QED
    BY <1>1, <1>5, <2>2 DEF ClientConnectCallback, ClientsWithSerial, valueVars
<1>6. CASE Server
  BY <1>1, <1>2, <1>6 DEF Server, ClientConnect, OnClientAuthorized, valueVars
<1>7. CASE Native
  BY <1>1, <1>3, <1>4, <1>7
     DEF Native, RegClientCookie, SetClientCookie, OnMenuSelect, CheckMissed, SetAuthIdCookie
<1>8. CASE RunFrame
  BY <1>1, <1>5, <1>8
     DEF RunFrame, InsertCookieCallback, SelectIdCallback, InsertDataDone
<1>9. QED
  BY <1>1, <1>6, <1>7, <1>8 DEF Next, vars

(* No pointer outlives its CookieData or is left behind when a slot is     *)
(* emptied, and what a player sees is the newest value of a cookie, the    *)
(* one that is stored last when the player leaves (cookie.cpp:131-260).    *)
THEOREM PointersNewest == Spec => []PointerIsNewest
BY InitPointer, NextPointer, TypeCorrect, PTL DEF Spec

-----------------------------------------------------------------------------
(* Whose values they are.                                                  *)

(* A query that still reaches somebody was made for them.                  *)
AnswersOwn ==
    \A op \in ops, c \in Slots :
        op.type = "SelectData" /\ player[c] # NoPlayer /\ op.serial = serial[c] =>
            op.steamId = player[c]

SlotOwn(c) ==
    \A i \in DOMAIN clientData[c] :
        /\ player[c] # NoPlayer
        /\ clientData[c][i].value # Empty => clientData[c][i].value.by = player[c]

QueuedOwn(op) ==
    op.type = "InsertData" /\ op.value # Empty => op.value.by = op.steamId

OwnInv == AnswersOwn /\ OwnValuesOnly

(* What queues nothing but its own.                                        *)
LEMMA QueueOwn ==
    ASSUME OwnInv, NEW new, ops' \subseteq ops \cup new,
           ~EmptySlotCalls => \A op \in new : QueuedOwn(op),
           ~EmptySlotCalls => \A c \in Slots : SlotOwn(c)'
    PROVE  OwnValuesOnly'
<1>1. ~EmptySlotCalls => \A op \in ops' : QueuedOwn(op)
  BY DEF OwnInv, OwnValuesOnly, QueuedOwn
<1>2. QED
  BY <1>1 DEF OwnValuesOnly, QueuedOwn, SlotOwn

LEMMA SlotsOwn ==
    ASSUME OwnInv, ~EmptySlotCalls
    PROVE  /\ \A c \in Slots : SlotOwn(c)
           /\ \A op \in ops : QueuedOwn(op)
BY DEF OwnInv, OwnValuesOnly, SlotOwn, QueuedOwn

(* The queries of a test for missed players are for the players they find. *)
LEMMA SelectOpsOwn ==
    ASSUME NEW S
    PROVE  \A op \in SelectOps(S) :
               /\ op.type = "SelectData" /\ QueuedOwn(op)
               /\ \E c \in S : op.serial = serial[c] /\ op.steamId = player[c]
BY DEF SelectOps, SelectOp, QueuedOwn

(* A value appended for the player who is there.                           *)
LEMMA AppendValueOwn ==
    ASSUME TypeOK, OwnInv, ~EmptySlotCalls, NEW n \in Names, NEW c \in Slots,
           NEW d \in CookieData, player[c] # NoPlayer,
           d.value # Empty => d.value.by = player[c],
           AppendValue(n, c, d), UNCHANGED player
    PROVE  \A e \in Slots : SlotOwn(e)'
<1> DEFINE s == clientData[c]
<1>1. /\ s \in Seq(CookieData)
      /\ clientData'[c] = Append(s, d)
      /\ \A e \in Slots \ {c} : clientData'[e] = clientData[e]
  BY DEF TypeOK, AppendValue
<1>2. /\ Len(s) \in Nat /\ DOMAIN s = 1..Len(s)
      /\ DOMAIN Append(s, d) = 1..(Len(s) + 1)
      /\ \A i \in 1..Len(s) : Append(s, d)[i] = s[i]
      /\ Append(s, d)[Len(s) + 1] = d
  BY <1>1
<1>3. \A e \in Slots : SlotOwn(e)
  BY SlotsOwn
<1>4. SlotOwn(c)'
  <2> SUFFICES ASSUME NEW i \in 1..(Len(s) + 1),
                      Append(s, d)[i].value # Empty
               PROVE  Append(s, d)[i].value.by = player[c]
    BY <1>1, <1>2 DEF SlotOwn
  <2>1. CASE i = Len(s) + 1
    BY <1>2, <2>1
  <2>2. CASE i \in 1..Len(s)
    BY <1>2, <1>3, <2>2 DEF SlotOwn
  <2>3. QED
    BY <1>2, <2>1, <2>2
<1> HIDE DEF s
<1>5. QED
  BY <1>1, <1>3, <1>4 DEF SlotOwn

(* A value set for the player who is there.                                *)
LEMMA SetCookieValueOwn ==
    ASSUME TypeOK, OwnInv, ~EmptySlotCalls, NEW n \in Names, NEW c \in Slots,
           NEW v \in Value, player[c] # NoPlayer, v.by = player[c],
           SetCookieValue(n, c, v), UNCHANGED player
    PROVE  \A e \in Slots : SlotOwn(e)'
<1>1. CASE data[n][c] = 0 /\ AppendValue(n, c, Written(n, v))
  <2>1. Written(n, v) \in CookieData /\ Written(n, v).value = v
    BY DEF CookieData, Written
  <2>2. QED
    BY <1>1, <2>1, AppendValueOwn
<1>2. CASE /\ data[n][c] # 0
           /\ clientData' = [clientData EXCEPT ![c][data[n][c]] = Written(@.parent, v)]
  <2> DEFINE k == data[n][c]
             s == clientData[c]
  <2>1. /\ s \in Seq(CookieData)
        /\ clientData'[c] = [s EXCEPT ![k] = Written(s[k].parent, v)]
        /\ \A e \in Slots \ {c} : clientData'[e] = clientData[e]
    BY <1>2 DEF TypeOK
  <2>2. /\ DOMAIN clientData'[c] = DOMAIN s
        /\ \A i \in DOMAIN s :
              clientData'[c][i].value = v \/ clientData'[c][i] = s[i]
    BY <2>1 DEF Written
  <2>3. \A e \in Slots : SlotOwn(e)
    BY SlotsOwn
  <2> HIDE DEF s
  <2>4. SlotOwn(c)'
    BY <2>2, <2>3 DEF SlotOwn, s
  <2>5. QED
    BY <2>1, <2>3, <2>4 DEF SlotOwn
<1>3. QED
  BY <1>1, <1>2 DEF SetCookieValue

(* What a slot is loaded with was stored for its player.                   *)
LEMMA LoadRowsOwn ==
    ASSUME TypeOK, OwnInv, ~EmptySlotCalls, NEW c \in Slots, player[c] # NoPlayer,
           NEW rows \in Results(player[c]), LoadRows(c, rows), UNCHANGED player
    PROVE  \A e \in Slots : SlotOwn(e)'
<1> DEFINE s == clientData[c]
           new == [i \in DOMAIN rows |-> Unwritten(rows[i].name, rows[i].value)]
<1>1. PICK k \in Nat : rows \in [1..k -> Rows(player[c])]
  BY DEF Results
<1>2. /\ s \in Seq(CookieData)
      /\ clientData'[c] = s \o new
      /\ \A e \in Slots \ {c} : clientData'[e] = clientData[e]
  BY DEF TypeOK, LoadRows
<1>3. /\ new \in Seq(CookieData) /\ Len(new) = k
      /\ \A i \in 1..k : new[i].value # Empty => new[i].value.by = player[c]
  <2>1. \A i \in 1..k : /\ rows[i].name \in Names /\ rows[i].value \in Value \cup {Empty}
                        /\ rows[i].value # Empty => rows[i].value.by = player[c]
    BY <1>1 DEF Rows, Stored
  <2>2. DOMAIN rows = 1..k
    BY <1>1
  <2>3. new = [i \in 1..k |-> Unwritten(rows[i].name, rows[i].value)]
    BY <2>2
  <2>4. ASSUME NEW i \in 1..k
        PROVE  /\ Unwritten(rows[i].name, rows[i].value) \in CookieData
               /\ Unwritten(rows[i].name, rows[i].value).value = rows[i].value
    <3>1. rows[i].name \in Names /\ rows[i].value \in Value \cup {Empty}
      BY <2>1
    <3>2. QED
      BY <3>1 DEF Unwritten, CookieData
  <2> HIDE DEF new
  <2>5. \A i \in 1..k : new[i] \in CookieData /\ new[i].value = rows[i].value
    BY <2>3, <2>4
  <2>6. new \in [1..k -> CookieData]
    BY <2>3, <2>5
  <2>7. new \in Seq(CookieData) /\ Len(new) = k
    BY <2>6
  <2>8. \A i \in 1..k : new[i].value # Empty => new[i].value.by = player[c]
    BY <2>1, <2>5
  <2>9. QED
    BY <2>7, <2>8
<1>4. \A e \in Slots : SlotOwn(e)
  BY SlotsOwn
<1> HIDE DEF s, new
<1>5. SlotOwn(c)'
  <2> SUFFICES ASSUME NEW i \in DOMAIN (s \o new), (s \o new)[i].value # Empty
               PROVE  (s \o new)[i].value.by = player[c]
    BY <1>2 DEF SlotOwn
  <2>1. /\ i \in 1..(Len(s) + k) /\ Len(s) \in Nat
        /\ (s \o new)[i] = IF i <= Len(s) THEN s[i] ELSE new[i - Len(s)]
    BY <1>2, <1>3, Concatenation
  <2>2. CASE i <= Len(s)
    <3>1. i \in DOMAIN clientData[c] /\ clientData[c][i] = (s \o new)[i]
      BY <1>2, <2>1, <2>2 DEF s
    <3>2. QED
      BY <1>4, <3>1 DEF SlotOwn
  <2>3. CASE ~(i <= Len(s))
    <3>1. i - Len(s) \in 1..k
      BY <2>1, <2>3
    <3>2. QED
      BY <1>3, <2>1, <2>3, <3>1
  <2>4. QED
    BY <2>2, <2>3
<1>6. QED
  BY <1>2, <1>4, <1>5 DEF SlotOwn

(* What is saved when a player leaves.                                     *)
LEMMA SaveOpsOwn ==
    ASSUME OwnInv, ~EmptySlotCalls, NEW c \in Slots
    PROVE  \A op \in SaveOps(c) : op.type = "InsertData" /\ QueuedOwn(op)
<1>1. SlotOwn(c)
  BY SlotsOwn
<1>2. QED
  BY <1>1 DEF SaveOps, Saved, SlotOwn, QueuedOwn

(* Steps that queue nothing.                                               *)
LEMMA NothingQueued ==
    ASSUME OwnInv, ops' \subseteq ops, ~EmptySlotCalls => \A c \in Slots : SlotOwn(c)'
    PROVE  OwnValuesOnly'
BY DEF OwnInv, OwnValuesOnly, SlotOwn

(* Steps that leave the players and the queries for their values alone.    *)
LEMMA AnswersUntouched ==
    ASSUME AnswersOwn, UNCHANGED <<player, serial>>,
           \A op \in ops' : op.type = "SelectData" => op \in ops
    PROVE  AnswersOwn'
BY DEF AnswersOwn

(* A test for missed players asks for each what it is to ask.              *)
LEMMA AttemptReconnectionOwn ==
    ASSUME ServedInv, OwnInv, UNCHANGED serverVars, NEW new,
           \A op \in new : op.type # "SelectData", AttemptReconnection(new),
           ~EmptySlotCalls => \A op \in new : QueuedOwn(op),
           ~EmptySlotCalls => \A c \in Slots : SlotOwn(c)'
    PROVE  OwnInv'
<1>1. SelectOps(Missed(authorized, statsLoaded, statsPending)) = {}
  BY NobodyMissed DEF SelectOps
<1>2. ops' = ops \cup new
  BY <1>1 DEF AttemptReconnection, Submit
<1>3. AnswersOwn'
  BY <1>2, AnswersUntouched DEF OwnInv, serverVars
<1>4. QED
  BY <1>2, <1>3, QueueOwn DEF OwnInv

LEMMA InitOwn == Init => OwnInv
<1> SUFFICES ASSUME Init PROVE OwnInv
  OBVIOUS
<1> DEFINE first(c) == [id |-> <<CHOOSE a \in Addresses : TRUE, c>>,
                        type |-> "SelectData", serial |-> serial[c],
                        steamId |-> player[c]]
<1>1. \A op \in ops : \E c \in Slots : op = first(c)
  BY DEF Init
<1>2. \A c \in Slots : /\ first(c).type = "SelectData" /\ first(c).serial = serial[c]
                       /\ first(c).steamId = player[c] /\ serial[c] = c
  BY DEF Init
<1> HIDE DEF first
<1>3. AnswersOwn
  BY <1>1, <1>2 DEF AnswersOwn
<1>4. \A op \in ops : op.type = "SelectData"
  BY <1>1, <1>2
<1>5. \A c \in Slots : DOMAIN clientData[c] = {}
  BY DEF Init
<1>6. OwnValuesOnly
  BY <1>4, <1>5 DEF OwnValuesOnly
<1>7. QED
  BY <1>3, <1>6 DEF OwnInv

(* Somebody new has a serial nobody has asked for.                         *)
LEMMA ClientConnectOwn ==
    ASSUME ServedInv, OwnInv, NEW c \in Slots, NEW p \in Players, ClientConnect(c, p)
    PROVE  OwnInv'
<1>1. /\ player' = [player EXCEPT ![c] = p] /\ player[c] = NoPlayer
      /\ serial' = [serial EXCEPT ![c] = lastSerial + 1]
      /\ ops' = ops /\ clientData' = clientData
      /\ player \in [Slots -> Players \cup {NoPlayer}] /\ serial \in [Slots -> Nat]
      /\ lastSerial \in Nat
  BY DEF ClientConnect, valueVars, ServedInv, TypeOK
<1>2. \A op \in ops : op.type = "SelectData" => op.serial <= lastSerial
  BY DEF ServedInv, QueriesKnown
<1>3. AnswersOwn'
  <2> SUFFICES ASSUME NEW op \in ops, NEW d \in Slots, op.type = "SelectData",
                      player'[d] # NoPlayer, op.serial = serial'[d]
               PROVE  op.steamId = player'[d]
    BY <1>1 DEF AnswersOwn
  <2>1. d # c
    BY <1>1, <1>2
  <2>2. QED
    BY <1>1, <2>1 DEF OwnInv, AnswersOwn
<1>4. ASSUME ~EmptySlotCalls PROVE \A d \in Slots : SlotOwn(d)'
  <2>1. \A d \in Slots : SlotOwn(d)
    BY <1>4, SlotsOwn
  <2>2. QED
    BY <1>1, <2>1 DEF SlotOwn
<1>5. QED
  BY <1>1, <1>3, <1>4, NothingQueued DEF OwnInv

(* A player is authorized: the query is for that player.                   *)
LEMMA OnClientAuthorizedOwn ==
    ASSUME TypeOK, OwnInv, SerialsDistinct, NEW c \in Slots, OnClientAuthorized(c)
    PROVE  OwnInv'
<1>1. UNCHANGED <<player, serial, clientData>>
  BY DEF OnClientAuthorized, valueVars
<1>2. PICK S \in SUBSET Slots, k \in Nat :
          ops' = ops \/ ops' = ops \cup SelectOps(S) \cup {SelectOp(c, k)}
  <2>1. MaxClients + 1 \in Nat
    BY ConstantsAssumption
  <2>2. Missed([authorized EXCEPT ![c] = TRUE], statsLoaded,
               [statsPending EXCEPT ![c] = TRUE]) \in SUBSET Slots
    BY DEF Missed
  <2>3. QED
    BY <2>1, <2>2 DEF OnClientAuthorized, Submit
<1> DEFINE new == SelectOps(S) \cup {SelectOp(c, k)}
<1>3. \A op \in new : /\ op.type = "SelectData" /\ QueuedOwn(op)
                      /\ \E d \in Slots : op.serial = serial[d] /\ op.steamId = player[d]
  BY SelectOpsOwn DEF SelectOp, QueuedOwn
<1>4. ops' \subseteq ops \cup new
  BY <1>2
<1> HIDE DEF new
<1>5. AnswersOwn'
  BY <1>1, <1>3, <1>4 DEF OwnInv, AnswersOwn, SerialsDistinct
<1>6. ~EmptySlotCalls => \A d \in Slots : SlotOwn(d)'
  BY <1>1, SlotsOwn DEF SlotOwn
<1>7. QED
  BY <1>3, <1>4, <1>5, <1>6, QueueOwn DEF OwnInv

(* A player leaves: nothing is left in the slot.                           *)
LEMMA OnClientDisconnectingOwn ==
    ASSUME TypeOK, OwnInv, SerialsDistinct, NEW c \in Slots, OnClientDisconnecting(c)
    PROVE  OwnInv'
<1>1. /\ player' = [player EXCEPT ![c] = NoPlayer]
      /\ clientData' = [clientData EXCEPT ![c] = <<>>]
      /\ player \in [Slots -> Players \cup {NoPlayer}]
      /\ clientData \in [Slots -> Seq(CookieData)]
      /\ serial' = serial
  BY DEF OnClientDisconnecting, ClearValues, TypeOK
<1>2. PICK S \in SUBSET Slots : ops' = ops \cup SelectOps(S) \cup SaveOps(c)
  BY DEF OnClientDisconnecting, Submit, Missed
<1>3. AnswersOwn'
  <2>1. \A op \in SaveOps(c) : op.type # "SelectData"
    BY DEF SaveOps
  <2>2. \A op \in SelectOps(S) :
            \E d \in Slots : op.serial = serial[d] /\ op.steamId = player[d]
    BY SelectOpsOwn
  <2>3. \A op \in ops', d \in Slots :
            op.type = "SelectData" /\ player[d] # NoPlayer /\ op.serial = serial[d] =>
                op.steamId = player[d]
    BY <1>2, <2>1, <2>2 DEF OwnInv, AnswersOwn, SerialsDistinct
  <2>4. QED
    BY <1>1, <2>3 DEF AnswersOwn
<1>4. ASSUME ~EmptySlotCalls
      PROVE  /\ \A d \in Slots : SlotOwn(d)'
             /\ \A op \in SelectOps(S) \cup SaveOps(c) : QueuedOwn(op)
  <2>1. \A d \in Slots : SlotOwn(d)
    BY <1>4, SlotsOwn
  <2>2. DOMAIN clientData'[c] = {}
    BY <1>1
  <2>3. \A d \in Slots : SlotOwn(d)'
    BY <1>1, <2>1, <2>2 DEF SlotOwn
  <2>4. QED
    BY <1>4, <2>3, SelectOpsOwn, SaveOpsOwn
<1>5. QED
  BY <1>2, <1>3, <1>4, QueueOwn DEF OwnInv

(* An answer reaches the player it was asked for, or nobody.               *)
LEMMA ClientConnectCallbackOwn ==
    ASSUME TypeOK, OwnInv, NEW op \in ops, NEW rows \in Results(op.steamId),
           ClientConnectCallback(op, rows)
    PROVE  OwnInv'
<1>1. op.type = "SelectData" /\ UNCHANGED <<player, serial>>
  BY DEF ClientConnectCallback, serverVars
<1> DEFINE created == {i \in DOMAIN rows : rows[i].name \notin cookies}
           new == UNION {InsertCookieOps({rows[i].name}, i) : i \in created}
<1>2. /\ ops' \subseteq ops \cup new
      /\ \A o \in new : o.type = "InsertCookie"
  BY DEF ClientConnectCallback, Replace, InsertCookieOps
<1> HIDE DEF new
<1>3. AnswersOwn'
  BY <1>1, <1>2, AnswersUntouched DEF OwnInv
<1>4. ASSUME ~EmptySlotCalls PROVE \A c \in Slots : SlotOwn(c)'
  <2>1. CASE UNCHANGED valueVars
    BY <1>1, <1>4, <2>1, SlotsOwn DEF SlotOwn, valueVars
  <2>2. ASSUME NEW c \in ClientsWithSerial(op.serial), LoadRows(c, rows)
        PROVE  \A d \in Slots : SlotOwn(d)'
    <3>1. c \in Slots /\ player[c] # NoPlayer /\ op.steamId = player[c]
      BY <1>1 DEF ClientsWithSerial, OwnInv, AnswersOwn
    <3>2. QED
      BY <1>1, <1>4, <2>2, <3>1, LoadRowsOwn
  <2>3. QED
    BY <2>1, <2>2 DEF ClientConnectCallback
<1>5. QED
  BY <1>2, <1>3, <1>4, QueueOwn DEF OwnInv, QueuedOwn

(* The step of a handler that keeps the queries for values.                *)
LEMMA NextOwn == ServedInv /\ OwnInv /\ [Next]_vars => OwnInv'
<1> SUFFICES ASSUME ServedInv, OwnInv, [Next]_vars PROVE OwnInv'
  OBVIOUS
<1>1. TypeOK /\ SerialsDistinct
  BY DEF ServedInv
<1>2. ASSUME UNCHANGED player, UNCHANGED clientData, ~EmptySlotCalls
      PROVE  \A c \in Slots : SlotOwn(c)'
  BY <1>2, SlotsOwn DEF SlotOwn
<1>3. CASE Server
  BY <1>1, <1>3, ClientConnectOwn, OnClientAuthorizedOwn, OnClientDisconnectingOwn DEF Server
<1>4. ASSUME NEW n \in Names, RegClientCookie(n) PROVE OwnInv'
  <2>1. \A op \in InsertCookieOps({n} \ cookies, MaxClients + 1) :
            op.type = "InsertCookie"
    BY DEF InsertCookieOps
  <2>2. QED
    BY <1>2, <1>4, <2>1, AttemptReconnectionOwn
       DEF RegClientCookie, QueuedOwn, serverVars, valueVars
<1>5. ASSUME NEW n \in Names, NEW c \in Slots, GetClientCookie(n, c) PROVE OwnInv'
  <2>1. Unwritten(n, Empty) \in CookieData /\ Unwritten(n, Empty).value = Empty
    BY DEF Unwritten, CookieData
  <2>2. ~EmptySlotCalls => \A e \in Slots : SlotOwn(e)'
    BY <1>1, <1>5, <2>1, AppendValueOwn DEF GetClientCookie, Callable, serverVars
  <2>3. QED
    BY <1>5, <2>2, AttemptReconnectionOwn DEF GetClientCookie
<1>6. ASSUME NEW n \in Names, NEW c \in Slots, NEW v \in Value, SetClientCookie(n, c, v)
      PROVE  OwnInv'
  <2>1. ~EmptySlotCalls => \A e \in Slots : SlotOwn(e)'
    BY <1>1, <1>6, SetCookieValueOwn DEF SetClientCookie, Callable, serverVars
  <2>2. QED
    BY <1>6, <2>1, AttemptReconnectionOwn DEF SetClientCookie
<1>7. ASSUME NEW n \in Names, NEW c \in Slots, NEW v \in Value, OnMenuSelect(n, c, v)
      PROVE  OwnInv'
  <2>1. ~EmptySlotCalls => \A e \in Slots : SlotOwn(e)'
    BY <1>1, <1>7, SetCookieValueOwn DEF OnMenuSelect, serverVars
  <2>2. UNCHANGED <<player, serial>> /\ ops' = ops
    BY <1>7 DEF OnMenuSelect, serverVars
  <2>3. AnswersOwn'
    BY <2>2, AnswersUntouched DEF OwnInv
  <2>4. QED
    BY <2>1, <2>2, <2>3, NothingQueued DEF OwnInv
<1>8. CASE CheckMissed
  BY <1>2, <1>8, AttemptReconnectionOwn DEF CheckMissed, serverVars, valueVars
<1>9. ASSUME NEW n \in Names, NEW v \in Value, SetAuthIdCookie(n, v) PROVE OwnInv'
  <2> DEFINE op == [id |-> New(MaxClients + 1), type |-> "InsertData",
                    steamId |-> v.by, cookieId |-> dbid[n], value |-> v]
  <2>1. ASSUME NEW c \in Slots, player[c] = v.by, AttemptReconnection({}),
               SetCookieValue(n, c, v)
        PROVE  OwnInv'
    <3>1. v.by # NoPlayer
      BY ConstantsAssumption DEF Value
    <3>2. ~EmptySlotCalls => \A e \in Slots : SlotOwn(e)'
      BY <1>1, <1>9, <2>1, <3>1, SetCookieValueOwn DEF SetAuthIdCookie, serverVars
    <3>3. QED
      BY <1>9, <2>1, <3>2, AttemptReconnectionOwn DEF SetAuthIdCookie
  <2>2. CASE AttemptReconnection({op}) /\ UNCHANGED valueVars
    <3>1. op.type = "InsertData" /\ QueuedOwn(op)
      BY DEF QueuedOwn
    <3> HIDE DEF op
    <3>2. QED
      BY <1>2, <1>9, <2>2, <3>1, AttemptReconnectionOwn
         DEF SetAuthIdCookie, serverVars, valueVars
  <2>3. QED
    BY <1>9, <2>1, <2>2 DEF SetAuthIdCookie
<1>10. ASSUME NEW op \in ops, NEW id \in CookieIds, InsertCookieCallback(op, id)
       PROVE  OwnInv'
  <2> DEFINE next == [id |-> New(1), type |-> "SelectId", cookie |-> op.cookie]
  <2>1. next.type = "SelectId"
    OBVIOUS
  <2>2. UNCHANGED <<player, serial, clientData>> /\ ops' \subseteq ops \cup {next}
    BY <1>10 DEF InsertCookieCallback, Replace, serverVars, valueVars
  <2> HIDE DEF next
  <2>3. QED
    BY <1>2, <2>1, <2>2, AnswersUntouched, QueueOwn DEF OwnInv, QueuedOwn
<1>11. ASSUME NEW op \in ops, SelectIdCallback(op, -1) \/ InsertDataDone(op)
       PROVE  OwnInv'
  <2>1. UNCHANGED <<player, serial, clientData>> /\ ops' \subseteq ops
    BY <1>11 DEF SelectIdCallback, InsertDataDone, Replace, serverVars, valueVars
  <2>2. AnswersOwn'
    BY <2>1, AnswersUntouched DEF OwnInv
  <2>3. QED
    BY <1>2, <2>1, <2>2, NothingQueued DEF OwnInv
<1>12. ASSUME NEW op \in ops, op.type = "SelectData",
              NEW rows \in Results(op.steamId), ClientConnectCallback(op, rows)
       PROVE  OwnInv'
  BY <1>1, <1>12, ClientConnectCallbackOwn
<1>13. CASE UNCHANGED vars
  <2>1. UNCHANGED <<player, serial, clientData>> /\ ops' \subseteq ops
    BY <1>13 DEF vars, serverVars, valueVars
  <2>2. AnswersOwn'
    BY <2>1, AnswersUntouched DEF OwnInv
  <2>3. QED
    BY <1>2, <2>1, <2>2, NothingQueued DEF OwnInv
<1>14. CASE Native
  BY <1>4, <1>5, <1>6, <1>7, <1>8, <1>9, <1>14 DEF Native
<1>15. CASE RunFrame
  BY <1>10, <1>11, <1>12, <1>15 DEF RunFrame
<1>16. QED
  BY <1>3, <1>13, <1>14, <1>15 DEF Next

(* Nobody sees, and nothing stores under their id, what was set or stored  *)
(* for somebody else, however late answers come and whoever has taken over *)
(* a slot since (extension.cpp:163-188, cookie.cpp:200-260).               *)
THEOREM ValuesOwn == Spec => []OwnValuesOnly
<1>1. Init => OwnInv
  BY InitOwn
<1>2. ServedInv /\ OwnInv /\ [Next]_vars => OwnInv'
  BY NextOwn
<1>3. OwnInv => OwnValuesOnly
  BY DEF OwnInv
<1>4. QED
  BY <1>1, <1>2, <1>3, ServedInvariant, PTL DEF Spec

-----------------------------------------------------------------------------
(* Ids.                                                                    *)

(* The outstanding queries for the id of cookie n.                         *)
IdQueries(n) ==
    {op \in ops : op.type \in {"InsertCookie", "SelectId"} /\ op.cookie = n}

(* A cookie's id is asked for once at a time, and not once it is known.    *)
IdsAskedOnce ==
    \A n \in Names :
        /\ \A a, b \in IdQueries(n) : a = b
        /\ IdQueries(n) # {} => n \in cookies /\ dbid[n] <= 0
        /\ n \notin cookies => dbid[n] <= 0

IsIdQuery(op) == op.type \in {"InsertCookie", "SelectId"}

(* Steps that leave the ids and the queries for ids alone.                 *)
LEMMA IdsUntouched ==
    ASSUME IdsAskedOnce, UNCHANGED cookieVars,
           \A op \in ops' : IsIdQuery(op) => op \in ops
    PROVE  IdsAskedOnce'
BY DEF IdsAskedOnce, IdQueries, IsIdQuery, cookieVars

LEMMA AttemptReconnectionIds ==
    ASSUME IdsAskedOnce, UNCHANGED cookieVars, NEW new,
           \A op \in new : ~IsIdQuery(op), AttemptReconnection(new)
    PROVE  IdsAskedOnce'
<1>1. \A S : \A op \in SelectOps(S) : ~IsIdQuery(op)
  BY DEF SelectOps, SelectOp, IsIdQuery
<1>2. QED
  BY <1>1, IdsUntouched DEF AttemptReconnection, Submit

(* Cookies that were not known become known and are asked for, each by one *)
(* query; one more query may be done with.                                 *)
LEMMA CookiesCreated ==
    ASSUME IdsAskedOnce, UNCHANGED dbid, NEW new, NEW S, cookies' = cookies \cup S,
           \A op \in ops' : IsIdQuery(op) => op \in ops \cup new,
           \A op \in new : IsIdQuery(op) => op.cookie \in S \ cookies,
           \A a, b \in new : IsIdQuery(a) /\ IsIdQuery(b) /\ a.cookie = b.cookie => a = b
    PROVE  IdsAskedOnce'
<1> SUFFICES ASSUME NEW n \in Names
             PROVE  /\ \A a, b \in IdQueries(n)' : a = b
                    /\ IdQueries(n)' # {} => n \in cookies' /\ dbid'[n] <= 0
                    /\ n \notin cookies' => dbid'[n] <= 0
  BY DEF IdsAskedOnce
<1>1. /\ \A a, b \in IdQueries(n) : a = b
      /\ IdQueries(n) # {} => n \in cookies /\ dbid[n] <= 0
      /\ n \notin cookies => dbid[n] <= 0
  BY DEF IdsAskedOnce
<1>2. \A op \in IdQueries(n)' :
          /\ IsIdQuery(op) /\ op.cookie = n
          /\ op \in IdQueries(n) \/ (op \in new /\ n \in S \ cookies)
  BY DEF IdQueries, IsIdQuery
<1>3. CASE n \in cookies
  BY <1>1, <1>2, <1>3
<1>4. CASE n \notin cookies
  BY <1>1, <1>2, <1>4
<1>5. QED
  BY <1>3, <1>4

LEMMA RegClientCookieIds ==
    ASSUME IdsAskedOnce, NEW n \in Names, RegClientCookie(n)
    PROVE  IdsAskedOnce'
<1> DEFINE new == InsertCookieOps({n} \ cookies, MaxClients + 1)
<1>1. \A op \in new : op.cookie = n /\ n \notin cookies
  BY DEF InsertCookieOps
<1>2. \A a, b \in new : a = b
  BY DEF InsertCookieOps
<1>3. \A S : \A op \in SelectOps(S) : ~IsIdQuery(op)
  BY DEF SelectOps, SelectOp, IsIdQuery
<1>4. /\ cookies' = cookies \cup {n} /\ dbid' = dbid
      /\ \A op \in ops' : IsIdQuery(op) => op \in ops \cup new
  BY <1>3 DEF RegClientCookie, AttemptReconnection, Submit
<1> HIDE DEF new
<1>5. QED
  BY <1>1, <1>2, <1>4, CookiesCreated

(* The rows of an answer create the cookies that are not known.            *)
LEMMA ClientConnectCallbackIds ==
    ASSUME TypeOK, IdsAskedOnce, NEW op \in ops, NEW p, NEW rows \in Results(p),
           ClientConnectCallback(op, rows)
    PROVE  IdsAskedOnce'
<1> DEFINE created == {i \in DOMAIN rows : rows[i].name \notin cookies}
           S == {rows[i].name : i \in created}
           new == UNION {InsertCookieOps({rows[i].name}, i) : i \in created}
<1>1. CASE Replace(op, {}) /\ UNCHANGED cookieVars
  BY <1>1, IdsUntouched DEF Replace
<1>2. CASE cookies' = cookies \cup S /\ Replace(op, new) /\ UNCHANGED dbid
  <2>1. \A i, j \in DOMAIN rows : rows[i].name = rows[j].name => i = j
    BY DEF Results
  <2>2. \A o \in new : \E i \in created :
            o = [id |-> New(i), type |-> "InsertCookie", cookie |-> rows[i].name]
    BY DEF InsertCookieOps
  <2>3. ASSUME NEW o \in new PROVE o.cookie \in S \ cookies
    <3>1. PICK i \in created :
              o = [id |-> New(i), type |-> "InsertCookie", cookie |-> rows[i].name]
      BY <2>2
    <3>2. o.cookie = rows[i].name
      BY <3>1
    <3>3. QED
      BY <3>2
  <2>4. ASSUME NEW a \in new, NEW b \in new, a.cookie = b.cookie PROVE a = b
    <3>1. PICK i \in created :
              a = [id |-> New(i), type |-> "InsertCookie", cookie |-> rows[i].name]
      BY <2>2
    <3>2. PICK j \in created :
              b = [id |-> New(j), type |-> "InsertCookie", cookie |-> rows[j].name]
      BY <2>2
    <3>3. rows[i].name = rows[j].name
      BY <2>4, <3>1, <3>2
    <3>4. i = j
      BY <2>1, <3>3
    <3>5. QED
      BY <3>1, <3>2, <3>4
  <2> HIDE DEF new, S
  <2>5. \A o \in ops' : IsIdQuery(o) => o \in ops \cup new
    BY <1>2 DEF Replace
  <2>6. QED
    BY <1>2, <2>3, <2>4, <2>5, CookiesCreated
<1>3. QED
  BY <1>1, <1>2 DEF ClientConnectCallback, cookieVars

(* The answer to the one query for a cookie's id, or its replacement.      *)
LEMMA IdAnswered ==
    ASSUME TypeOK, IdsAskedOnce, NEW op \in ops, IsIdQuery(op), UNCHANGED cookies,
           \/ \E id \in Int : /\ dbid' = [dbid EXCEPT ![op.cookie] = id]
                              /\ ops' = ops \ {op}
           \/ /\ dbid' = dbid
              /\ \E o : o.cookie = op.cookie /\ ops' = (ops \ {op}) \cup {o}
    PROVE  IdsAskedOnce'
<1> DEFINE m == op.cookie
<1>1. op \in IdQueries(m)
  BY DEF IdQueries, IsIdQuery
<1>2. m \in Names
  BY DEF TypeOK, IsIdQuery, Op, InsertCookieOp, SelectDataOp, InsertDataOp, SelectIdOp
<1>3. IdQueries(m) = {op} /\ m \in cookies /\ dbid[m] <= 0
  BY <1>1, <1>2 DEF IdsAskedOnce
<1>4. ASSUME NEW n \in Names
      PROVE  /\ \A a, b \in IdQueries(n)' : a = b
             /\ IdQueries(n)' # {} => n \in cookies' /\ dbid'[n] <= 0
             /\ n \notin cookies' => dbid'[n] <= 0
  <2>1. CASE n = m
    <3>1. CASE ops' = ops \ {op}
      <4>1. IdQueries(m)' = {}
        BY <1>3, <3>1 DEF IdQueries
      <4>2. QED
        BY <1>3, <2>1, <4>1
    <3>2. ASSUME NEW o, dbid' = dbid, ops' = (ops \ {op}) \cup {o}
          PROVE  IdQueries(m)' \subseteq {o} /\ dbid'[m] <= 0
      BY <1>3, <3>2 DEF IdQueries
    <3>3. QED
      BY <1>3, <2>1, <3>1, <3>2
  <2>2. CASE n # m
    <3>1. \A a \in IdQueries(n)' : a \in IdQueries(n)
      BY <2>2 DEF IdQueries
    <3>2. dbid'[n] = dbid[n]
      BY <2>2 DEF TypeOK
    <3>3. QED
      BY <3>1, <3>2 DEF IdsAskedOnce
  <2>3. QED
    BY <2>1, <2>2
<1>5. QED
  BY <1>4 DEF IdsAskedOnce

LEMMA InitIds == Init => IdsAskedOnce
<1> SUFFICES ASSUME Init PROVE IdsAskedOnce
  OBVIOUS
<1>1. \A op \in ops : op.type = "SelectData"
  BY DEF Init
<1>2. \A n \in Names : dbid[n] <= 0
  BY DEF Init
<1>3. QED
  BY <1>1, <1>2 DEF IdsAskedOnce, IdQueries

LEMMA NextIds == TypeOK /\ IdsAskedOnce /\ [Next]_vars => IdsAskedOnce'
<1> SUFFICES ASSUME TypeOK, IdsAskedOnce, [Next]_vars PROVE IdsAskedOnce'
  OBVIOUS
<1>1. \A S : \A op \in SelectOps(S) : ~IsIdQuery(op)
  BY DEF SelectOps, SelectOp, IsIdQuery
<1>2. \A c : \A op \in SaveOps(c) : ~IsIdQuery(op)
  BY DEF SaveOps, IsIdQuery
<1>3. CASE Server
  <2>1. \A c, k : ~IsIdQuery(SelectOp(c, k))
    BY DEF SelectOp, IsIdQuery
  <2>2. UNCHANGED cookieVars /\ \A op \in ops' : IsIdQuery(op) => op \in ops
    <3>1. ASSUME NEW c \in Slots, NEW p \in Players, ClientConnect(c, p)
          PROVE  UNCHANGED cookieVars /\ \A op \in ops' : IsIdQuery(op) => op \in ops
      BY <3>1 DEF ClientConnect
    <3>2. ASSUME NEW c \in Slots, OnClientAuthorized(c)
          PROVE  UNCHANGED cookieVars /\ \A op \in ops' : IsIdQuery(op) => op \in ops
      BY <1>1, <2>1, <3>2 DEF OnClientAuthorized, Submit
    <3>3. ASSUME NEW c \in Slots, OnClientDisconnecting(c)
          PROVE  UNCHANGED cookieVars /\ \A op \in ops' : IsIdQuery(op) => op \in ops
      BY <1>1, <1>2, <3>3 DEF OnClientDisconnecting, Submit
    <3>4. QED
      BY <1>3, <3>1, <3>2, <3>3 DEF Server
  <2>3. QED
    BY <2>2, IdsUntouched
<1>4. ASSUME NEW n \in Names, RegClientCookie(n) PROVE IdsAskedOnce'
  BY <1>4, RegClientCookieIds
<1>5. ASSUME UNCHANGED cookieVars, AttemptReconnection({}) PROVE IdsAskedOnce'
  BY <1>5, AttemptReconnectionIds
<1>6. ASSUME NEW n \in Names, NEW c \in Slots, NEW v \in Value, OnMenuSelect(n, c, v)
      PROVE  IdsAskedOnce'
  BY <1>6, IdsUntouched DEF OnMenuSelect
<1>7. ASSUME NEW n \in Names, NEW v \in Value, SetAuthIdCookie(n, v)
      PROVE  IdsAskedOnce'
  <2> DEFINE op == [id |-> New(MaxClients + 1), type |-> "InsertData",
                    steamId |-> v.by, cookieId |-> dbid[n], value |-> v]
  <2>1. ~IsIdQuery(op)
    BY DEF IsIdQuery
  <2>2. UNCHANGED cookieVars /\ (AttemptReconnection({}) \/ AttemptReconnection({op}))
    BY <1>7 DEF SetAuthIdCookie
  <2> HIDE DEF op
  <2>3. QED
    BY <2>1, <2>2, AttemptReconnectionIds
<1>8. CASE Native
  BY <1>4, <1>5, <1>6, <1>7, <1>8
     DEF Native, GetClientCookie, SetClientCookie, CheckMissed
<1>9. ASSUME NEW op \in ops, NEW id \in CookieIds, InsertCookieCallback(op, id)
      PROVE  IdsAskedOnce'
  <2> DEFINE next == [id |-> New(1), type |-> "SelectId", cookie |-> op.cookie]
  <2>1. IsIdQuery(op) /\ id \in Int /\ next.cookie = op.cookie
    BY <1>9, ConstantsAssumption DEF InsertCookieCallback, IsIdQuery
  <2>2. /\ UNCHANGED cookies
        /\ \/ dbid' = [dbid EXCEPT ![op.cookie] = id] /\ ops' = ops \ {op}
           \/ dbid' = dbid /\ ops' = (ops \ {op}) \cup {next}
    BY <1>9 DEF InsertCookieCallback, Replace
  <2> HIDE DEF next
  <2>3. QED
    BY <2>1, <2>2, IdAnswered
<1>10. ASSUME NEW op \in ops, SelectIdCallback(op, -1) PROVE IdsAskedOnce'
  <2>1. /\ IsIdQuery(op) /\ -1 \in Int /\ UNCHANGED cookies
        /\ dbid' = [dbid EXCEPT ![op.cookie] = -1] /\ ops' = ops \ {op}
    BY <1>10 DEF SelectIdCallback, Replace, IsIdQuery
  <2>2. QED
    BY <2>1, IdAnswered
<1>11. ASSUME NEW op \in ops, InsertDataDone(op) PROVE IdsAskedOnce'
  BY <1>11, IdsUntouched DEF InsertDataDone, Replace
<1>12. ASSUME NEW op \in ops, NEW rows \in Results(op.steamId),
              ClientConnectCallback(op, rows)
       PROVE  IdsAskedOnce'
  BY <1>12, ClientConnectCallbackIds
<1>13. CASE RunFrame
  BY <1>9, <1>10, <1>11, <1>12, <1>13 DEF RunFrame
<1>14. CASE UNCHANGED vars
  BY <1>14, IdsUntouched DEF vars
<1>15. QED
  BY <1>3, <1>8, <1>13, <1>14 DEF Next

(* At any time there is at most one query for a cookie's id, none for a    *)
(* cookie whose id is known, and no id for a cookie that is not known      *)
(* (cookie.cpp:66-100, extension.cpp:190-210).                             *)
THEOREM IdsAskedForOnce == Spec => []IdsAskedOnce
BY InitIds, NextIds, TypeCorrect, PTL DEF Spec

IdsStay == \A n \in Names : dbid[n] > 0 => dbid'[n] = dbid[n]

LEMMA IdsKept == ASSUME TypeOK, IdsAskedOnce, [Next]_vars PROVE IdsStay
<1>1. CASE dbid' = dbid
  BY <1>1 DEF IdsStay
<1>2. ASSUME NEW op \in ops, NEW id, IsIdQuery(op),
             dbid' = [dbid EXCEPT ![op.cookie] = id]
      PROVE  IdsStay
  <2>1. op \in IdQueries(op.cookie)
    BY <1>2 DEF IdQueries, IsIdQuery
  <2>2. op.cookie \in Names
    BY <1>2 DEF TypeOK, IsIdQuery, Op, InsertCookieOp, SelectDataOp, InsertDataOp,
                      SelectIdOp
  <2>3. dbid[op.cookie] <= 0 /\ dbid \in [Names -> Int]
    BY <2>1, <2>2 DEF IdsAskedOnce, TypeOK
  <2>4. QED
    BY <1>2, <2>2, <2>3 DEF IdsStay
<1>3. CASE RunFrame
  <2>1. ASSUME NEW op \in ops, NEW id, InsertCookieCallback(op, id)
        PROVE  IdsStay
    <3>1. IsIdQuery(op)
      BY <2>1 DEF InsertCookieCallback, IsIdQuery
    <3>2. dbid' = dbid \/ dbid' = [dbid EXCEPT ![op.cookie] = id]
      BY <2>1 DEF InsertCookieCallback
    <3>3. CASE dbid' = dbid
      BY <3>3 DEF IdsStay
    <3>4. CASE dbid' = [dbid EXCEPT ![op.cookie] = id]
      BY <1>2, <3>1, <3>4
    <3>5. QED
      BY <3>2, <3>3, <3>4
  <2>2. ASSUME NEW op \in ops, SelectIdCallback(op, -1)
        PROVE  IdsStay
    <3>1. IsIdQuery(op)
      BY <2>2 DEF SelectIdCallback, IsIdQuery
    <3>2. dbid' = [dbid EXCEPT ![op.cookie] = -1]
      BY <2>2 DEF SelectIdCallback
    <3>3. QED
      BY <1>2, <3>1, <3>2
  <2>3. QED
    BY <1>1, <1>3, <2>1, <2>2
       DEF RunFrame, InsertDataDone, ClientConnectCallback, cookieVars
<1>4. CASE Server \/ Native \/ UNCHANGED vars
  <2>1. dbid' = dbid
    BY <1>4 DEF Server, Native, ClientConnect, OnClientAuthorized, OnClientDisconnecting,
           RegClientCookie, GetClientCookie, SetClientCookie, OnMenuSelect, CheckMissed,
           SetAuthIdCookie, cookieVars, vars
  <2>2. QED
    BY <1>1, <2>1
<1>5. QED
  BY <1>3, <1>4 DEF Next

(* So a known id never changes, and values saved at different times go to  *)
(* the same key: only the answer to such a query sets an id, and there is  *)
(* none for a cookie that has one.                                         *)
THEOREM IdsStable == Spec => IdStable
<1>1. TypeOK /\ IdsAskedOnce /\ [Next]_vars => [IdsStay]_vars
  BY IdsKept
<1>2. QED
  BY <1>1, IdsAskedForOnce, TypeCorrect, PTL DEF Spec, IdsStay, IdStable
=============================================================================

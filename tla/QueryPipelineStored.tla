------------------------ MODULE QueryPipelineStored ------------------------
(***************************************************************************)
(* With one query thread, saves are neither lost nor applied out of order  *)
(* (StoredWhenQuiet), the script finds every cookie that has an id         *)
(* (ListedWhenQuiet), and so a player is loaded with what was saved last   *)
(* (LoadSeesStored).                                                       *)
(*                                                                         *)
(* A save goes from the query queue into the thread's connection and from  *)
(* there into Redis, each in order, so what was queued last for a key is   *)
(* what the key ends up with; Latest says where it is on its way.  That    *)
(* two cookies never share a key needs that no two names have the same     *)
(* hash and that a cookie's id is its name's hash wherever it is (IdsInv,  *)
(* which holds for any number of threads).  A cookie stays listed because  *)
(* its thread sent SADD and, if need be, SET before it ran the script, on  *)
(* the same connection (ListedInv).  While a player waits for a load       *)
(* nothing is saved for them, so what the thread finds for the load stays  *)
(* what was saved last until the game thread has it (LoadInv).             *)
(***************************************************************************)
EXTENDS QueryPipelineProofs, WellFoundedInduction

-----------------------------------------------------------------------------
OneThread == \A x, y \in Workers : x = y
HashesDiffer == \A h \in Hashes : \A m, n \in Names : h[m] = h[n] => m = n

(* An id is the hash of the cookie's name, in Redis, on its way there and  *)
(* back, and in the game thread.                                           *)
HashOrNone(id, n, none) == id = none \/ id = hash[n]
SetsHash(c) == c.cmd = "SET id" => c.id = hash[c.name]
RunsInsert(w) == running[w] # Idle /\ running[w].type = "InsertCookie"
IdFound(w) ==
    RunsInsert(w) =>
        /\ awaits[w] = "id" /\ reply[w] # <<>> =>
                HashOrNone(reply[w][1], running[w].cookie, Nil)
        /\ awaits[w] = "done" => answer[w].id = hash[running[w].cookie]
ReturnsHash(r) == r.op.type = "InsertCookie" => r.id = hash[r.op.cookie]

IdsInv ==
    /\ \A n \in Names : HashOrNone(dbid[n], n, -1) /\ HashOrNone(ids[n], n, Nil)
    /\ \A w \in Workers :
        /\ \A i \in DOMAIN pipe[w] : SetsHash(pipe[w][i])
        /\ IdFound(w)
        /\ \A i \in DOMAIN resultQueue[w] : ReturnsHash(resultQueue[w][i])

(* Where the value last written to a key is: queued, sent or stored.       *)
None(s, C) == \A i \in DOMAIN s : s[i] \notin C
LastOf(s, C, v) ==
    \E i \in DOMAIN s : /\ s[i] \in C /\ s[i].value = v
                        /\ \A j \in DOMAIN s : s[j] \in C => j <= i

Saves(p, k) == {o \in Op : o.type = "InsertData" /\ o.steamId = p /\ o.cookieId = k}
Sets(p, k) == {c \in Write : c.cmd = "SET value" /\ c.steamId = p /\ c.id = k}

Latest(p, k, v) ==
    \/ LastOf(queryQueue, Saves(p, k), v)
    \/ /\ None(queryQueue, Saves(p, k))
       /\ \E w \in Workers : LastOf(pipe[w], Sets(p, k), v)
    \/ /\ None(queryQueue, Saves(p, k))
       /\ \A w \in Workers : None(pipe[w], Sets(p, k))
       /\ stored[p][k] = v

StoredInv ==
    /\ DOMAIN saved = Players /\ \A p \in Players : DOMAIN saved[p] = Names
    /\ \A p \in Players, n \in Names : Kept(p, n) =>
            saved[p][n].id = hash[n] /\ Latest(p, hash[n], saved[p][n].value)

(* Cookie n is listed or will be.                                          *)
Lists(c, n) == c.cmd = "SADD" /\ c.name = n
ListSent(n) == n \in listed \/ \E w \in Workers : \E i \in DOMAIN pipe[w] : Lists(pipe[w][i], n)

(* The game thread has cookie n's id, or will have.                        *)
Registered(n) ==
    \/ dbid[n] > 0
    \/ \E w \in Workers : RunsInsert(w) /\ awaits[w] = "done" /\ running[w].cookie = n
    \/ \E w \in Workers : \E i \in DOMAIN resultQueue[w] :
            resultQueue[w][i].op.type = "InsertCookie" /\ resultQueue[w][i].op.cookie = n

ListedInv == \A n \in Names : Registered(n) => IdSent(n) /\ ListSent(n)

-----------------------------------------------------------------------------
(* Sequences.                                                              *)
LEMMA GreatestIndex ==
    ASSUME NEW L \in Nat, NEW S \in SUBSET (1..L), S # {}
    PROVE  \E m \in S : \A j \in S : j <= m
<1> DEFINE T == {L - i : i \in S}
           R == OpToRel(<, Nat)
<1>1. T \subseteq Nat /\ T # {}
  <2>1. \A i \in S : i \in 1..L /\ L - i \in Nat
    OBVIOUS
  <2>2. PICK i \in S : TRUE
    OBVIOUS
  <2>3. T \subseteq Nat
    BY <2>1
  <2>4. L - i \in T
    OBVIOUS
  <2>5. QED
    BY <2>3, <2>4
<1>2. \A x, y \in Nat : y < x => <<y, x>> \in R
  BY DEF OpToRel
<1>3. IsWellFoundedOn(R, Nat)
  BY NatLessThanWellFounded
<1> HIDE DEF T, R
<1>4. PICK x \in T : \A y \in T : ~(<<y, x>> \in R)
  BY <1>1, <1>3, WFMin
<1>5. PICK m \in S : x = L - m
  BY DEF T
<1>6. ASSUME NEW j \in S PROVE j <= m
  <2>1. L - j \in T /\ L - j \in Nat /\ x \in Nat
    BY <1>1 DEF T
  <2>2. ~(L - j < L - m)
    BY <1>2, <1>4, <1>5, <2>1
  <2>3. QED
    BY <2>2
<1>7. QED
  BY <1>6

LEMMA Joined ==
    ASSUME NEW S, NEW s \in Seq(S), NEW t \in Seq(S)
    PROVE  /\ Len(s) \in Nat /\ DOMAIN s = 1..Len(s)
           /\ Len(t) \in Nat /\ DOMAIN t = 1..Len(t)
           /\ \A i \in DOMAIN s : i \in DOMAIN (s \o t) /\ (s \o t)[i] = s[i]
           /\ \A i \in DOMAIN t :
                 Len(s) + i \in DOMAIN (s \o t) /\ (s \o t)[Len(s) + i] = t[i]
           /\ \A i \in DOMAIN (s \o t) :
                 i \in DOMAIN s \/ (i - Len(s) \in DOMAIN t /\ i > Len(s))
<1>1. /\ Len(s) \in Nat /\ DOMAIN s = 1..Len(s)
      /\ Len(t) \in Nat /\ DOMAIN t = 1..Len(t)
  OBVIOUS
<1>2. /\ DOMAIN (s \o t) = 1..(Len(s) + Len(t))
      /\ \A i \in 1..(Len(s) + Len(t)) : (s \o t)[i] = IF i <= Len(s) THEN s[i] ELSE t[i - Len(s)]
  BY <1>1, Concatenation
<1>3. QED
  BY <1>1, <1>2

LEMMA Shifted ==
    ASSUME NEW S, NEW s \in Seq(S), s # <<>>
    PROVE  /\ Head(s) = s[1] /\ 1 \in DOMAIN s /\ DOMAIN s \subseteq Nat
           /\ \A i \in DOMAIN s : i # 1 => i - 1 \in DOMAIN Tail(s) /\ Tail(s)[i - 1] = s[i]
           /\ \A i \in DOMAIN Tail(s) :
                 i + 1 \in DOMAIN s /\ i + 1 # 1 /\ Tail(s)[i] = s[i + 1]
<1>1. /\ Len(s) \in Nat /\ Len(s) >= 1 /\ DOMAIN s = 1..Len(s) /\ Head(s) = s[1]
      /\ DOMAIN Tail(s) = 1..(Len(s) - 1)
      /\ \A i \in 1..(Len(s) - 1) : Tail(s)[i] = s[i + 1]
  OBVIOUS
<1>2. ASSUME NEW i \in DOMAIN s, i # 1
      PROVE  i - 1 \in DOMAIN Tail(s) /\ Tail(s)[i - 1] = s[i]
  <2>1. i - 1 \in 1..(Len(s) - 1) /\ (i - 1) + 1 = i
    BY <1>1, <1>2
  <2>2. QED
    BY <1>1, <2>1
<1>3. ASSUME NEW i \in DOMAIN Tail(s)
      PROVE  i + 1 \in DOMAIN s /\ i + 1 # 1 /\ Tail(s)[i] = s[i + 1]
  BY <1>1
<1>4. QED
  BY <1>1, <1>2, <1>3

(* The last member of C when a sequence grows and shrinks.                 *)
LEMMA LastBehind ==
    ASSUME NEW S, NEW s \in Seq(S), NEW t \in Seq(S), NEW C, NEW v
    PROVE  /\ LastOf(t, C, v) => LastOf(s \o t, C, v)
           /\ None(t, C) /\ LastOf(s, C, v) => LastOf(s \o t, C, v)
           /\ None(t, C) /\ None(s, C) => None(s \o t, C)
<1> DEFINE q == s \o t
           L == Len(s)
<1>1. /\ L \in Nat /\ DOMAIN s = 1..L /\ DOMAIN t \subseteq Nat
      /\ \A i \in DOMAIN s : i \in DOMAIN q /\ q[i] = s[i]
      /\ \A i \in DOMAIN t : L + i \in DOMAIN q /\ q[L + i] = t[i]
      /\ \A i \in DOMAIN q : i \in DOMAIN s \/ (i - L \in DOMAIN t /\ i > L)
  BY Joined
<1>2. /\ DOMAIN q \subseteq Nat
      /\ \A i \in DOMAIN q : (i \in DOMAIN s /\ q[i] = s[i])
                             \/ (i - L \in DOMAIN t /\ i > L /\ q[i] = t[i - L])
  <2>1. ASSUME NEW i \in DOMAIN q
        PROVE  /\ i \in Nat
               /\ (i \in DOMAIN s /\ q[i] = s[i])
                  \/ (i - L \in DOMAIN t /\ i > L /\ q[i] = t[i - L])
    <3>1. i \in Nat
      BY <1>1, Concatenation
    <3>2. CASE i \in DOMAIN s
      BY <1>1, <3>1, <3>2
    <3>3. CASE i - L \in DOMAIN t /\ i > L
      <4>1. L + (i - L) = i
        BY <1>1, <3>1
      <4>2. QED
        BY <1>1, <3>1, <3>3, <4>1
    <3>4. QED
      BY <1>1, <3>2, <3>3
  <2>2. QED
    BY <2>1
<1> HIDE DEF q, L
<1>3. ASSUME LastOf(t, C, v) PROVE LastOf(q, C, v)
  <2>1. PICK i \in DOMAIN t : /\ t[i] \in C /\ t[i].value = v
                              /\ \A j \in DOMAIN t : t[j] \in C => j <= i
    BY <1>3 DEF LastOf
  <2>2. L + i \in DOMAIN q /\ q[L + i] = t[i] /\ i \in Nat
    BY <1>1
  <2>3. ASSUME NEW j \in DOMAIN q, q[j] \in C PROVE j <= L + i
    BY <1>1, <1>2, <2>1, <2>2, <2>3
  <2>4. QED
    BY <2>1, <2>2, <2>3 DEF LastOf
<1>4. ASSUME None(t, C), LastOf(s, C, v) PROVE LastOf(q, C, v)
  <2>1. PICK i \in DOMAIN s : /\ s[i] \in C /\ s[i].value = v
                              /\ \A j \in DOMAIN s : s[j] \in C => j <= i
    BY <1>4 DEF LastOf
  <2>2. ASSUME NEW j \in DOMAIN q, q[j] \in C PROVE j <= i
    BY <1>2, <1>4, <2>1, <2>2 DEF None
  <2>3. QED
    BY <1>1, <2>1, <2>2 DEF LastOf
<1>5. ASSUME None(t, C), None(s, C) PROVE None(q, C)
  BY <1>2, <1>5 DEF None
<1>6. QED
  BY <1>3, <1>4, <1>5 DEF q

LEMMA LastLess ==
    ASSUME NEW S, NEW s \in Seq(S), s # <<>>, NEW C, NEW v
    PROVE  /\ LastOf(s, C, v) =>
                 \/ LastOf(Tail(s), C, v)
                 \/ /\ None(Tail(s), C)
                    /\ Head(s) \in C /\ Head(s).value = v
           /\ None(s, C) => None(Tail(s), C) /\ Head(s) \notin C
<1>1. /\ Head(s) = s[1] /\ 1 \in DOMAIN s /\ DOMAIN s \subseteq Nat
      /\ \A i \in DOMAIN s : i # 1 => i - 1 \in DOMAIN Tail(s) /\ Tail(s)[i - 1] = s[i]
      /\ \A i \in DOMAIN Tail(s) :
            i + 1 \in DOMAIN s /\ i + 1 # 1 /\ Tail(s)[i] = s[i + 1]
  BY Shifted
<1>2. DOMAIN Tail(s) \subseteq Nat
  OBVIOUS
<1>3. ASSUME LastOf(s, C, v)
      PROVE  \/ LastOf(Tail(s), C, v)
             \/ None(Tail(s), C) /\ Head(s) \in C /\ Head(s).value = v
  <2>1. PICK i \in DOMAIN s : /\ s[i] \in C /\ s[i].value = v
                              /\ \A j \in DOMAIN s : s[j] \in C => j <= i
    BY <1>3 DEF LastOf
  <2>2. CASE i = 1
    <3>1. ASSUME NEW j \in DOMAIN Tail(s), Tail(s)[j] \in C PROVE FALSE
      <4>1. j + 1 <= 1 /\ j \in Nat /\ j + 1 # 1
        BY <1>1, <1>2, <2>1, <2>2, <3>1
      <4>2. QED
        BY <4>1
    <3>2. QED
      BY <1>1, <2>1, <2>2, <3>1 DEF None
  <2>3. CASE i # 1
    <3>1. i - 1 \in DOMAIN Tail(s) /\ Tail(s)[i - 1] = s[i] /\ i \in Nat
      BY <1>1, <2>3
    <3>2. ASSUME NEW j \in DOMAIN Tail(s), Tail(s)[j] \in C PROVE j <= i - 1
      <4>1. j + 1 <= i /\ j \in Nat
        BY <1>1, <1>2, <2>1, <3>2
      <4>2. QED
        BY <3>1, <4>1
    <3>3. QED
      BY <2>1, <3>1, <3>2 DEF LastOf
  <2>4. QED
    BY <2>2, <2>3
<1>4. ASSUME None(s, C) PROVE None(Tail(s), C) /\ Head(s) \notin C
  BY <1>1, <1>4 DEF None
<1>5. QED
  BY <1>3, <1>4

-----------------------------------------------------------------------------
(* A cookie's id is the hash of its name, wherever it is.                  *)
LEMMA GameKeepsIds ==
    ASSUME Server \/ Native
    PROVE  dbid' = dbid
<1>2. CASE Server
  BY <1>2 DEF Server, ClientConnect, OnClientAuthorized, OnClientDisconnecting, cookieVars
<1>3. CASE Native
  <2>1. ASSUME NEW n \in Names, RegClientCookie(n) PROVE dbid' = dbid
    BY <2>1 DEF RegClientCookie
  <2>2. ASSUME NEW n \in Names, NEW c \in Slots, GetClientCookie(n, c) PROVE dbid' = dbid
    BY <2>2 DEF GetClientCookie, cookieVars
  <2>3. ASSUME NEW n \in Names, NEW c \in Slots, NEW v \in Value,
               SetClientCookie(n, c, v) \/ OnMenuSelect(n, c, v)
        PROVE  dbid' = dbid
    BY <2>3 DEF SetClientCookie, OnMenuSelect, cookieVars
  <2>4. CASE CheckMissed
    BY <2>4 DEF CheckMissed, cookieVars
  <2>5. ASSUME NEW n \in Names, NEW v \in Value, SetAuthIdCookie(n, v) PROVE dbid' = dbid
    BY <2>5 DEF SetAuthIdCookie, cookieVars
  <2>6. QED
    BY <1>3, <2>1, <2>2, <2>3, <2>4, <2>5 DEF Native
<1>4. QED
  BY <1>2, <1>3

LEMMA InitHashIds ==
    ASSUME PipelineInit
    PROVE  IdsInv
<1>1. \A w \in Workers : running[w] = Idle /\ DOMAIN pipe[w] = {} /\ DOMAIN resultQueue[w] = {}
  BY DEF PipelineInit
<1>2. \A n \in Names : dbid[n] = -1 /\ (ids[n] = Nil \/ ids[n] = hash[n])
  BY DEF PipelineInit, Init
<1>3. \A n \in Names : HashOrNone(dbid[n], n, -1) /\ HashOrNone(ids[n], n, Nil)
  BY <1>2 DEF HashOrNone
<1>4. \A w \in Workers : IdFound(w)
  BY <1>1 DEF IdFound, RunsInsert
<1>5. \A w \in Workers : \A i \in DOMAIN pipe[w] : SetsHash(pipe[w][i])
  BY <1>1
<1>6. \A w \in Workers : \A i \in DOMAIN resultQueue[w] : ReturnsHash(resultQueue[w][i])
  BY <1>1
<1>7. QED
  BY <1>3, <1>4, <1>5, <1>6 DEF IdsInv

LEMMA GameIds ==
    ASSUME IdsInv, GameStep
    PROVE  IdsInv'
<1>1. UNCHANGED <<dbid, hash, running, awaits, answer, pipe, reply, resultQueue, ids>>
  BY GameStepIsGame, GameKeepsIds DEF GameStep, given, threadVars, redisVars
<1>2. QED
  BY <1>1 DEF IdsInv, HashOrNone, SetsHash, IdFound, RunsInsert, ReturnsHash

(* What a frame does to the ids.                                           *)
LEMMA FrameSetsId ==
    ASSUME IInv, NEW w \in Workers, RunFrameStep(w)
    PROVE  /\ Head(resultQueue[w]) = resultQueue[w][1] /\ 1 \in DOMAIN resultQueue[w]
           /\ LET r == Head(resultQueue[w]) IN
                 \/ dbid' = dbid
                 \/ /\ r.op.type = "InsertCookie" /\ r.id > 0
                    /\ dbid' = [dbid EXCEPT ![r.op.cookie] = r.id]
                 \/ dbid' = [dbid EXCEPT ![r.op.cookie] = -1]
<1>1. resultQueue[w] \in Seq(Result) /\ resultQueue[w] # <<>>
  BY DEF IInv, GameTypes, RunFrameStep
<1>2. PICK r : r = Head(resultQueue[w])
  OBVIOUS
<1>3. r = resultQueue[w][1] /\ 1 \in DOMAIN resultQueue[w]
  BY <1>1, <1>2
<1>4. GoodAnswer(r.op, r)
  BY <1>3 DEF IInv, ResultsGood
<1>5. \/ InsertCookieCallback(r.op, r.id)
      \/ SelectIdCallback(r.op, r.id)
      \/ InsertDataDone(r.op)
      \/ ClientConnectCallback(r.op, r.rows)
  BY <1>2 DEF RunFrameStep
<1>6. \/ dbid' = dbid
      \/ /\ r.op.type = "InsertCookie" /\ r.id > 0
         /\ dbid' = [dbid EXCEPT ![r.op.cookie] = r.id]
      \/ dbid' = [dbid EXCEPT ![r.op.cookie] = -1]
  <2>1. CASE InsertCookieCallback(r.op, r.id)
    BY <2>1 DEF InsertCookieCallback
  <2>2. CASE SelectIdCallback(r.op, r.id)
    BY <1>4, <2>2 DEF SelectIdCallback, GoodAnswer
  <2>3. CASE InsertDataDone(r.op)
    BY <2>3 DEF InsertDataDone, cookieVars
  <2>4. CASE ClientConnectCallback(r.op, r.rows)
    BY <2>4 DEF ClientConnectCallback, cookieVars
  <2>5. QED
    BY <1>5, <2>1, <2>2, <2>3, <2>4
<1>7. QED
  BY <1>2, <1>3, <1>6

(* A frame takes one thread's oldest result.                               *)
LEMMA FrameResults ==
    ASSUME GameTypes, NEW w \in Workers, RunFrameStep(w)
    PROVE  \A x \in Workers : \A j \in DOMAIN resultQueue'[x] :
              \E i \in DOMAIN resultQueue[x] : resultQueue'[x][j] = resultQueue[x][i]
<1>1. resultQueue \in [Workers -> Seq(Result)] /\ resultQueue[w] \in Seq(Result)
  BY DEF GameTypes
<1>2. resultQueue[w] # <<>> /\ resultQueue' = [resultQueue EXCEPT ![w] = Tail(@)]
  BY DEF RunFrameStep
<1>3. \A j \in DOMAIN Tail(resultQueue[w]) :
         j + 1 \in DOMAIN resultQueue[w] /\ Tail(resultQueue[w])[j] = resultQueue[w][j + 1]
  BY <1>1, <1>2, Shifted
<1>4. QED
  BY <1>1, <1>2, <1>3

LEMMA FrameIds ==
    ASSUME IInv, IdsInv, NEW w \in Workers, RunFrameStep(w)
    PROVE  IdsInv'
<1>1. UNCHANGED <<hash, running, awaits, answer, pipe, reply, ids>>
  BY DEF RunFrameStep, given, threadVars, redisVars
<1>2. PICK r : r = Head(resultQueue[w])
  OBVIOUS
<1>3. /\ r = resultQueue[w][1] /\ 1 \in DOMAIN resultQueue[w]
      /\ \/ dbid' = dbid
         \/ r.op.type = "InsertCookie" /\ dbid' = [dbid EXCEPT ![r.op.cookie] = r.id]
         \/ dbid' = [dbid EXCEPT ![r.op.cookie] = -1]
  BY <1>2, FrameSetsId
<1>4. r.op.type = "InsertCookie" => r.id = hash[r.op.cookie]
  BY <1>3 DEF IdsInv, ReturnsHash
<1>5. DOMAIN dbid = Names
  BY DEF IInv, ServedInv, TypeOK
<1>6. ASSUME NEW n \in Names PROVE HashOrNone(dbid[n], n, -1)'
  <2>1. dbid[n] = -1 \/ dbid[n] = hash[n]
    BY DEF IdsInv, HashOrNone
  <2>2. dbid'[n] = -1 \/ dbid'[n] = hash[n]
    BY <1>3, <1>4, <1>5, <2>1
  <2>3. QED
    BY <1>1, <2>2 DEF HashOrNone
<1>7. ASSUME NEW x \in Workers, NEW j \in DOMAIN resultQueue'[x]
      PROVE  ReturnsHash(resultQueue[x][j])'
  <2>1. PICK i \in DOMAIN resultQueue[x] : resultQueue'[x][j] = resultQueue[x][i]
    BY FrameResults DEF IInv
  <2>2. ReturnsHash(resultQueue[x][i])
    BY DEF IdsInv
  <2>3. QED
    BY <1>1, <2>1, <2>2 DEF ReturnsHash
<1>8. \A n \in Names : HashOrNone(ids[n], n, Nil)'
  BY <1>1 DEF IdsInv, HashOrNone
<1>9. \A x \in Workers : IdFound(x)' /\ \A i \in DOMAIN pipe'[x] : SetsHash(pipe[x][i])'
  BY <1>1 DEF IdsInv, HashOrNone, SetsHash, IdFound, RunsInsert
<1>10. QED
  BY <1>6, <1>7, <1>8, <1>9 DEF IdsInv, ReturnsHash

-----------------------------------------------------------------------------
(* What the threads send and Redis executes.                               *)

(* A thread sends what its operation begins with.                          *)
LEMMA TakeSends ==
    ASSUME IInv, NEW w \in Workers, Take(w)
    PROVE  LET o == Head(queryQueue) IN
             /\ o \in Op /\ running'[w] = o /\ reply'[w] = <<>>
             /\ awaits'[w] = "done" => o.type = "InsertData"
             /\ \E c \in Read \cup Write :
                   /\ pipe'[w] = pipe[w] \o <<c>>
                   /\ IF o.type = "InsertData"
                      THEN c = SetValue(o.steamId, o.cookieId, o.value)
                      ELSE c \in Read
             /\ \A x \in Workers \ {w} :
                   /\ running'[x] = running[x] /\ pipe'[x] = pipe[x]
                   /\ awaits'[x] = awaits[x] /\ reply'[x] = reply[x]
<1>1. ThreadTypes /\ TypeOK /\ OwnInv
  BY DEF IInv, ServedInv
<1>2. PICK o : o = Head(queryQueue)
  OBVIOUS
<1>3. o \in ops /\ o \in Op
  <2>1. queryQueue \in Seq(Op) /\ queryQueue # <<>>
    BY DEF IInv, GameTypes, Take
  <2>2. o = queryQueue[1] /\ 1 \in DOMAIN queryQueue
    BY <1>2, <2>1
  <2>3. QED
    BY <2>1, <2>2 DEF IInv, Placed, QueuedExist
<1>4. running' = [running EXCEPT ![w] = o]
  BY <1>2 DEF Take
<1>5. PICK c, what :
         /\ c \in Read \cup Write
         /\ Send(w, <<c>>, what) /\ (what = "done" => o.type = "InsertData")
         /\ IF o.type = "InsertData" THEN c = SetValue(o.steamId, o.cookieId, o.value)
                                     ELSE c \in Read
  <2>1. CASE o.type \in {"InsertCookie", "SelectId"} /\ Send(w, <<GetId(o.cookie)>>, "id")
    <3>1. GetId(o.cookie) \in Read
      BY <1>3, <2>1, OpFields, Commands
    <3>2. QED
      BY <2>1, <3>1
  <2>2. CASE o.type = "SelectData" /\ Send(w, <<EvalSha(o.steamId)>>, "script")
    <3>1. EvalSha(o.steamId) \in Read
      BY <1>3, <2>2, OpFields, Commands
    <3>2. QED
      BY <2>2, <3>1
  <2>3. CASE /\ o.type = "InsertData"
             /\ Send(w, <<SetValue(o.steamId, o.cookieId, o.value)>>, "done")
    <3>1. SetValue(o.steamId, o.cookieId, o.value) \in Write
      BY <1>1, <1>3, <2>3, SavesOwn, Commands
    <3>2. QED
      BY <2>3, <3>1
  <2>4. QED
    BY <1>2, <2>1, <2>2, <2>3 DEF Take
<1>6. /\ running'[w] = o /\ pipe'[w] = pipe[w] \o <<c>>
      /\ awaits'[w] = what /\ reply'[w] = <<>>
      /\ \A x \in Workers \ {w} :
            /\ running'[x] = running[x] /\ pipe'[x] = pipe[x]
            /\ awaits'[x] = awaits[x] /\ reply'[x] = reply[x]
  BY <1>1, <1>4, <1>5 DEF Send, ThreadTypes
<1>7. QED
  BY <1>2, <1>3, <1>5, <1>6

(* A thread goes on only when all it sent has been executed; it sends the  *)
(* writes of a cookie it inserts, and otherwise only reads.                *)
OnlyReads(s) ==
    \A i \in DOMAIN s : s[i].cmd \in {"GET id", "GET desc", "GET value", "EVALSHA", "KEYS"}

LEMMA NothingSent ==
    ASSUME IInv, NEW w \in Workers, Continue(w)
    PROVE  /\ pipe[w] = <<>>
           /\ InsertCookieThread(w) <=> RunsInsert(w)
<1>1. ThreadOK(w) /\ running[w] # Idle
  BY DEF IInv, Continue
<1>2. CASE InsertCookieThread(w) \/ SelectIdThread(w)
  <2>1. AsksForId(w) /\ reply[w] # <<>>
    BY <1>1, <1>2 DEF InsertCookieThread, SelectIdThread, ThreadOK, Resting, Answered,
                      AsksForId, RunsScript, AsksForKeys, AsksForKeyId, AsksForValue, Loads
  <2>2. pipe[w] = <<>>
    BY <2>1 DEF AsksForId, Asked
  <2>3. QED
    BY <1>1, <1>2, <2>2 DEF InsertCookieThread, SelectIdThread, RunsInsert
<1>3. CASE ScriptReply(w) \/ KeysReply(w) \/ KeyIdReply(w) \/ ValueReply(w)
  <2>1. /\ Loads(w)
        /\ \/ RunsScript(w) /\ reply[w] # <<>>
           \/ AsksForKeys(w) /\ reply[w] # <<>>
           \/ AsksForKeyId(w) /\ reply[w] # <<>>
           \/ AsksForValue(w) /\ Len(reply[w]) = 2
    BY <1>1, <1>3 DEF ScriptReply, KeysReply, KeyIdReply, ValueReply, ThreadOK, Resting,
                      Answered, AsksForId, RunsScript, AsksForKeys, AsksForKeyId,
                      AsksForValue, Loads
  <2>2. ASSUME AsksForValue(w), Len(reply[w]) = 2 PROVE pipe[w] = <<>>
    <3>1. PICK p, n : ValueAsked(w, p, n)
      BY <2>2 DEF AsksForValue
    <3>2. reply[w] # <<>> /\ \A v : reply[w] # <<v>>
      BY <2>2
    <3>3. QED
      BY <3>1, <3>2 DEF ValueAsked
  <2>3. pipe[w] = <<>>
    BY <2>1, <2>2 DEF RunsScript, AsksForKeys, AsksForKeyId, Asked
  <2>4. ~RunsInsert(w)
    BY <2>1 DEF Loads, RunsInsert
  <2>5. QED
    BY <1>1, <2>3, <2>4 DEF InsertCookieThread, RunsInsert
<1>4. QED
  BY <1>2, <1>3 DEF Continue

LEMMA SmallReads ==
    /\ OnlyReads(<<>>) /\ OnlyReads(<<GetKeys>>) /\ \A n : OnlyReads(<<GetId(n)>>)
    /\ \A p, id, n : OnlyReads(<<GetValue(p, id), GetDesc(n)>>)
<1> DEFINE R == {"GET id", "GET desc", "GET value", "EVALSHA", "KEYS"}
<1>1. /\ DOMAIN <<>> = {} /\ \A c : \A i \in DOMAIN <<c>> : <<c>>[i] = c
      /\ \A c, d : \A i \in DOMAIN <<c, d>> : <<c, d>>[i] = c \/ <<c, d>>[i] = d
  OBVIOUS
<1>2. \A c : c.cmd \in R => OnlyReads(<<c>>)
  BY <1>1 DEF OnlyReads
<1>3. ASSUME NEW c, NEW d, c.cmd \in R, d.cmd \in R
      PROVE  OnlyReads(<<c, d>>)
  <2>1. PICK s : s = <<c, d>>
    OBVIOUS
  <2>2. \A i \in DOMAIN s : s[i] = c \/ s[i] = d
    BY <1>1, <2>1
  <2>3. OnlyReads(s)
    BY <1>3, <2>2 DEF OnlyReads
  <2>4. QED
    BY <2>1, <2>3
<1>4. OnlyReads(<<>>)
  BY <1>1 DEF OnlyReads
<1>5. /\ GetKeys.cmd \in R /\ \A n : GetId(n).cmd \in R /\ GetDesc(n).cmd \in R
      /\ \A p, id : GetValue(p, id).cmd \in R
  BY DEF GetKeys, GetId, GetDesc, GetValue
<1> HIDE DEF R
<1>6. QED
  BY <1>2, <1>3, <1>4, <1>5

LEMMA ReadsSent ==
    ASSUME IInv, NEW w \in Workers, Continue(w), ~RunsInsert(w)
    PROVE  OnlyReads(pipe'[w])
<1>1. pipe[w] = <<>> /\ ~InsertCookieThread(w) /\ ThreadTypes
  BY NothingSent DEF IInv
<1>2. OnlyReads(<<>>)
  BY SmallReads
<1>3. CASE pipe' = pipe
  BY <1>1, <1>2, <1>3
<1>4. ASSUME NEW cs, NEW what, Send(w, cs, what), pipe[w] \o cs = cs, OnlyReads(cs)
      PROVE  OnlyReads(pipe'[w])
  BY <1>1, <1>4 DEF Send, ThreadTypes
<1>5. /\ pipe[w] \o <<>> = <<>>
      /\ \A c : pipe[w] \o <<c>> = <<c>>
      /\ \A c, d : pipe[w] \o <<c, d>> = <<c, d>>
  BY <1>1
<1>6. ASSUME NEW what, Send(w, <<>>, what) PROVE OnlyReads(pipe'[w])
  BY <1>2, <1>4, <1>5, <1>6
<1>7. ASSUME NEW keys, NextKey(w, keys) PROVE OnlyReads(pipe'[w])
  <2>1. OnlyReads(<<GetId(keys[1])>>)
    BY SmallReads
  <2>2. CASE Send(w, <<GetId(keys[1])>>, "id")
    BY <1>4, <1>5, <2>1, <2>2
  <2>3. QED
    BY <1>6, <1>7, <2>2 DEF NextKey
<1>8. CASE SelectIdThread(w)
  BY <1>3, <1>6, <1>8 DEF SelectIdThread
<1>9. CASE ScriptReply(w)
  <2>1. OnlyReads(<<GetKeys>>)
    BY SmallReads
  <2>2. CASE Send(w, <<GetKeys>>, "keys")
    BY <1>4, <1>5, <2>1, <2>2
  <2>3. QED
    BY <1>3, <1>6, <1>9, <2>2 DEF ScriptReply
<1>10. CASE KeysReply(w)
  BY <1>7, <1>10 DEF KeysReply
<1>11. CASE KeyIdReply(w)
  <2>1. PICK c, d : /\ c = GetValue(running[w].steamId, reply[w][1])
                    /\ d = GetDesc(left[w][1])
    OBVIOUS
  <2>2. OnlyReads(<<c, d>>)
    BY <2>1, SmallReads
  <2>3. CASE Send(w, <<c, d>>, "value")
    BY <1>4, <1>5, <2>2, <2>3
  <2>4. QED
    BY <1>7, <1>11, <2>1, <2>3 DEF KeyIdReply
<1>12. CASE ValueReply(w)
  BY <1>3, <1>7, <1>12 DEF ValueReply
<1>13. QED
  BY <1>1, <1>8, <1>9, <1>10, <1>11, <1>12 DEF Continue

(* The writes of a cookie that a thread inserts.                           *)
LEMMA InsertSends ==
    ASSUME IInv, NEW w \in Workers, Continue(w), RunsInsert(w), NEW n, n = running[w].cookie
    PROVE  /\ n \in Names /\ awaits[w] = "id" /\ reply[w] # <<>>
           /\ awaits'[w] = "done" /\ reply'[w] = <<>>
           /\ \/ /\ reply[w][1] # Nil /\ pipe'[w] = <<AddToList(n)>>
                 /\ answer'[w].id = reply[w][1]
              \/ /\ reply[w][1] = Nil
                 /\ pipe'[w] = <<AddToList(n), SetDesc(n), SetId(n, hash[n])>>
                 /\ answer'[w].id = hash[n]
<1>1. pipe[w] = <<>> /\ InsertCookieThread(w) /\ ThreadTypes
  BY NothingSent DEF IInv
<1>2. running[w] \in Op /\ running[w].type = "InsertCookie"
  BY <1>1 DEF ThreadTypes, RunsInsert
<1>3. n \in Names
  BY <1>2, OpFields
<1>4. PICK a, d, i : a = AddToList(n) /\ d = SetDesc(n) /\ i = SetId(n, hash[n])
  OBVIOUS
<1>5. /\ awaits[w] = "id" /\ reply[w] # <<>>
      /\ \/ /\ reply[w][1] # Nil /\ Send(w, <<a>>, "done")
            /\ Finish(w, reply[w][1], <<>>)
         \/ /\ reply[w][1] = Nil /\ Send(w, <<a, d, i>>, "done")
            /\ Finish(w, hash[n], <<>>)
  BY <1>1, <1>4 DEF InsertCookieThread
<1>6. ASSUME NEW id, Finish(w, id, <<>>) PROVE answer'[w].id = id
  BY <1>1, <1>6 DEF Finish, ThreadTypes
<1>7. ASSUME NEW cs, Send(w, cs, "done")
      PROVE  pipe'[w] = pipe[w] \o cs /\ awaits'[w] = "done" /\ reply'[w] = <<>>
  BY <1>1, <1>7 DEF Send, ThreadTypes
<1>8. pipe[w] \o <<a>> = <<a>> /\ pipe[w] \o <<a, d, i>> = <<a, d, i>>
  BY <1>1
<1>9. CASE reply[w][1] # Nil
  BY <1>3, <1>4, <1>5, <1>6, <1>7, <1>8, <1>9
<1>10. CASE reply[w][1] = Nil
  BY <1>3, <1>4, <1>5, <1>6, <1>7, <1>8, <1>10
<1>11. QED
  BY <1>9, <1>10

(* A thread that goes on touches no other.                                 *)
LEMMA ContinueAlone ==
    ASSUME IInv, NEW w \in Workers, Continue(w)
    PROVE  OthersUntouched(w)
<1>1. /\ GameTypes /\ ThreadTypes /\ ThreadOK(w) /\ running[w] # Idle /\ running' = running
  BY DEF IInv, Continue
<1>2. QED
  BY <1>1, InsertCookieContinues, SelectIdContinues, ScriptReplyContinues,
     KeysReplyContinues, KeyIdReplyContinues, ValueReplyContinues DEF Continue

-----------------------------------------------------------------------------
(* The ids in the threads and in Redis.                                    *)
LEMMA NoIdSet ==
    /\ \A c \in Read : SetsHash(c)
    /\ \A p, k, v : SetsHash(SetValue(p, k, v))
    /\ \A n : SetsHash(AddToList(n)) /\ SetsHash(SetDesc(n)) /\ SetsHash(SetId(n, hash[n]))
<1>1. \A c \in Read : SetsHash(c)
  <2>1. \A c \in Read : c.cmd # "SET id"
    BY ReadOrWrite
  <2>2. QED
    BY <2>1 DEF SetsHash
<1>2. QED
  BY <1>1 DEF SetsHash, SetValue, AddToList, SetDesc, SetId

LEMMA TakeIds ==
    ASSUME IInv, IdsInv, NEW w \in Workers, Take(w)
    PROVE  IdsInv'
<1>1. PICK o : o = Head(queryQueue)
  OBVIOUS
<1>2. /\ UNCHANGED <<hash, answer, resultQueue, dbid, ids>> /\ ThreadTypes
  BY DEF Take, given, redisVars, vars, cookieVars, IInv
<1>3. /\ running'[w] = o /\ reply'[w] = <<>>
      /\ awaits'[w] = "done" => o.type = "InsertData"
      /\ \A x \in Workers \ {w} :
            /\ running'[x] = running[x] /\ pipe'[x] = pipe[x]
            /\ awaits'[x] = awaits[x] /\ reply'[x] = reply[x]
  BY <1>1, TakeSends
<1>4. PICK c : /\ c \in Read \cup Write /\ pipe'[w] = pipe[w] \o <<c>> /\ SetsHash(c)
  <2>1. PICK c \in Read \cup Write :
              /\ pipe'[w] = pipe[w] \o <<c>>
              /\ IF o.type = "InsertData" THEN c = SetValue(o.steamId, o.cookieId, o.value)
                                          ELSE c \in Read
    BY <1>1, TakeSends
  <2>2. SetsHash(c)
    BY <2>1, NoIdSet
  <2>3. QED
    BY <2>1, <2>2
<1>5. ASSUME NEW x \in Workers, NEW i \in DOMAIN pipe'[x] PROVE SetsHash(pipe[x][i])'
  <2>1. SetsHash(pipe'[x][i])
    <3>1. CASE x = w
      <4>1. /\ Len(pipe[w]) \in Nat /\ DOMAIN pipe[w] = 1..Len(pipe[w])
            /\ DOMAIN pipe'[w] = 1..(Len(pipe[w]) + 1)
            /\ pipe'[w][Len(pipe[w]) + 1] = c
            /\ \A j \in 1..Len(pipe[w]) : pipe'[w][j] = pipe[w][j]
        BY <1>2, <1>4, OneMore DEF ThreadTypes
      <4>2. QED
        BY <1>4, <3>1, <4>1 DEF IdsInv
    <3>2. CASE x # w
      BY <1>3, <3>2 DEF IdsInv
    <3>3. QED
      BY <3>1, <3>2
  <2>2. QED
    BY <1>2, <2>1 DEF SetsHash
<1>6. ASSUME NEW x \in Workers PROVE IdFound(x)'
  <2>1. CASE x = w
    BY <1>3, <2>1 DEF IdFound, RunsInsert
  <2>2. CASE x # w
    BY <1>2, <1>3, <2>2 DEF IdsInv, IdFound, RunsInsert, HashOrNone
  <2>3. QED
    BY <2>1, <2>2
<1>7. QED
  BY <1>2, <1>5, <1>6 DEF IdsInv, HashOrNone, ReturnsHash

(* What Redis does to the ids, and what it says of them.                   *)
LEMMA ExecuteSetsId ==
    ASSUME IInv, NEW w \in Workers, Execute(w)
    PROVE  LET c == Head(pipe[w]) IN
             /\ c = pipe[w][1] /\ 1 \in DOMAIN pipe[w]
             /\ ids' = ids \/ (c.cmd = "SET id" /\ ids' = [ids EXCEPT ![c.name] = c.id])
             /\ \A x \in Workers : x # w \/ c \in Write => reply'[x] = reply[x]
<1>1. PICK c : c = Head(pipe[w])
  OBVIOUS
<1>2. pipe[w] \in Seq(Read \cup Write) /\ pipe[w] # <<>> /\ ThreadTypes /\ RedisTypes
  BY DEF IInv, ThreadTypes, Execute
<1>3. c = pipe[w][1] /\ 1 \in DOMAIN pipe[w]
  BY <1>1, <1>2
<1>4. ids' = ids \/ (c.cmd = "SET id" /\ ids' = [ids EXCEPT ![c.name] = c.id])
  BY <1>1 DEF Execute
<1>5. \A x \in Workers \ {w} : reply'[x] = reply[x]
  BY <1>2 DEF Execute, ThreadTypes
<1>6. c \in Write => reply' = reply
  BY <1>1, <1>2, WriteExecuted
<1>7. QED
  BY <1>1, <1>3, <1>4, <1>5, <1>6

LEMMA IdReplied ==
    ASSUME IInv, NEW w \in Workers, Execute(w), Head(pipe[w]) \in Read,
           RunsInsert(w), awaits[w] = "id"
    PROVE  /\ running[w].cookie \in Names
           /\ reply'[w] # <<>> /\ reply'[w][1] = ids[running[w].cookie]
<1>1. PICK s, c : s = pipe[w] /\ c = Head(s)
  OBVIOUS
<1>2. /\ RedisTypes /\ ThreadTypes /\ ThreadOK(w)
      /\ s \in Seq(Read \cup Write) /\ s # <<>> /\ c \in Read
  BY <1>1 DEF IInv, ThreadTypes, Execute
<1>3. PICK n : n = running[w].cookie
  OBVIOUS
<1>4. n \in Names
  BY <1>2, <1>3, OpFields DEF ThreadTypes, RunsInsert
<1>5. AsksForId(w)
  BY <1>2 DEF ThreadOK, Resting, Answered, RunsScript, AsksForKeys, AsksForKeyId,
              AsksForValue, Loads, RunsInsert
<1>6. reply[w] = <<>> /\ EndsWith(s, GetId(n))
  BY <1>1, <1>2, <1>3, <1>5 DEF AsksForId, Asked
<1>7. c = GetId(n)
  BY <1>1, <1>2, <1>6, LastIsRead
<1>8. PICK a \in Answers(c) : reply' = [reply EXCEPT ![w] = Append(@, a)]
  BY <1>1, <1>2, ReadExecuted
<1>9. a = ids[n]
  BY <1>7, <1>8 DEF Answers, GetId
<1>10. reply'[w] = Append(reply[w], a)
  BY <1>2, <1>8 DEF ThreadTypes
<1>11. reply'[w] = <<a>>
  BY <1>6, <1>10
<1>12. QED
  BY <1>3, <1>4, <1>9, <1>11

LEMMA ExecuteIds ==
    ASSUME IInv, IdsInv, NEW w \in Workers, Execute(w)
    PROVE  IdsInv'
<1>1. PICK c : c = Head(pipe[w])
  OBVIOUS
<1>2. /\ UNCHANGED <<hash, running, awaits, answer, resultQueue, dbid>>
      /\ pipe' = [pipe EXCEPT ![w] = Tail(@)] /\ pipe[w] # <<>>
  BY DEF Execute, given, vars, cookieVars
<1>3. ThreadTypes /\ RedisTypes /\ pipe[w] \in Seq(Read \cup Write)
  BY DEF IInv, ThreadTypes
<1>4. /\ c = pipe[w][1] /\ 1 \in DOMAIN pipe[w]
      /\ ids' = ids \/ (c.cmd = "SET id" /\ ids' = [ids EXCEPT ![c.name] = c.id])
      /\ \A x \in Workers : x # w \/ c \in Write => reply'[x] = reply[x]
  BY <1>1, ExecuteSetsId
<1>5. \A n \in Names : HashOrNone(ids[n], n, Nil)'
  <2>1. SUFFICES ASSUME NEW n \in Names PROVE HashOrNone(ids'[n], n, Nil)
    BY <1>2 DEF HashOrNone
  <2>2. HashOrNone(ids[n], n, Nil) /\ SetsHash(c)
    BY <1>4 DEF IdsInv
  <2>3. c.cmd = "SET id" => c.id = hash[c.name]
    BY <2>2 DEF SetsHash
  <2>4. QED
    BY <1>3, <1>4, <2>2, <2>3 DEF HashOrNone, RedisTypes
<1>6. ASSUME NEW x \in Workers, NEW i \in DOMAIN pipe'[x] PROVE SetsHash(pipe[x][i])'
  <2>1. \E j \in DOMAIN pipe[x] : pipe'[x][i] = pipe[x][j]
    <3>1. CASE x = w
      <4>1. pipe'[w] = Tail(pipe[w])
        BY <1>2, <1>3 DEF ThreadTypes
      <4>2. \A j \in DOMAIN Tail(pipe[w]) :
               j + 1 \in DOMAIN pipe[w] /\ Tail(pipe[w])[j] = pipe[w][j + 1]
        BY <1>2, <1>3, Shifted
      <4>3. QED
        BY <3>1, <4>1, <4>2
    <3>2. CASE x # w
      BY <1>2, <1>3, <3>2 DEF ThreadTypes
    <3>3. QED
      BY <3>1, <3>2
  <2>2. SetsHash(pipe'[x][i])
    BY <2>1 DEF IdsInv
  <2>3. QED
    BY <1>2, <2>2 DEF SetsHash
<1>7. ASSUME NEW x \in Workers PROVE IdFound(x)'
  <2>1. IdFound(x)
    BY DEF IdsInv
  <2>2. CASE reply'[x] = reply[x]
    BY <1>2, <2>1, <2>2 DEF IdFound, RunsInsert, HashOrNone
  <2>3. CASE x = w /\ c \in Read
    <3>1. RunsInsert(w) /\ awaits[w] = "id" =>
             HashOrNone(reply'[w][1], running[w].cookie, Nil)
      BY <1>1, <2>3, IdReplied DEF IdsInv
    <3>2. QED
      BY <1>2, <2>1, <2>3, <3>1 DEF IdFound, RunsInsert, HashOrNone
  <2>4. c \in Read \cup Write
    BY <1>1, <1>2, <1>3, HeadAndTail
  <2>5. QED
    BY <1>4, <2>2, <2>3, <2>4
<1>8. QED
  BY <1>2, <1>5, <1>6, <1>7 DEF IdsInv, HashOrNone, ReturnsHash

LEMMA ContinueIds ==
    ASSUME IInv, IdsInv, NEW w \in Workers, Continue(w)
    PROVE  IdsInv'
<1>1. UNCHANGED <<hash, running, resultQueue, dbid, ids>>
  BY DEF Continue, given, vars, cookieVars, redisVars
<1>2. \A x \in Workers \ {w} :
         /\ awaits'[x] = awaits[x] /\ answer'[x] = answer[x]
         /\ pipe'[x] = pipe[x] /\ reply'[x] = reply[x]
  BY ContinueAlone DEF OthersUntouched
<1>3. PICK n : n = running[w].cookie
  OBVIOUS
<1>4. ASSUME IdFound(w)', \A i \in DOMAIN pipe'[w] : SetsHash(pipe'[w][i]) PROVE IdsInv'
  <2>1. ASSUME NEW x \in Workers PROVE IdFound(x)'
    <3>1. CASE x = w
      BY <1>4, <3>1
    <3>2. CASE x # w
      BY <1>1, <1>2, <3>2 DEF IdsInv, IdFound, RunsInsert, HashOrNone
    <3>3. QED
      BY <3>1, <3>2
  <2>2. ASSUME NEW x \in Workers, NEW i \in DOMAIN pipe'[x] PROVE SetsHash(pipe[x][i])'
    <3>1. SetsHash(pipe'[x][i])
      BY <1>2, <1>4 DEF IdsInv
    <3>2. QED
      BY <1>1, <3>1 DEF SetsHash
  <2>3. QED
    BY <1>1, <2>1, <2>2 DEF IdsInv, HashOrNone, ReturnsHash
<1>5. CASE ~RunsInsert(w)
  <2>1. IdFound(w)'
    BY <1>1, <1>5 DEF IdFound, RunsInsert
  <2>2. \A i \in DOMAIN pipe'[w] : SetsHash(pipe'[w][i])
    BY <1>5, ReadsSent DEF OnlyReads, SetsHash
  <2>3. QED
    BY <1>4, <2>1, <2>2
<1>6. CASE RunsInsert(w)
  <2>1. /\ awaits[w] = "id" /\ reply[w] # <<>>
        /\ awaits'[w] = "done" /\ reply'[w] = <<>>
        /\ \/ /\ reply[w][1] # Nil /\ pipe'[w] = <<AddToList(n)>>
              /\ answer'[w].id = reply[w][1]
           \/ /\ reply[w][1] = Nil
              /\ pipe'[w] = <<AddToList(n), SetDesc(n), SetId(n, hash[n])>>
              /\ answer'[w].id = hash[n]
    BY <1>3, <1>6, InsertSends
  <2>2. HashOrNone(reply[w][1], n, Nil)
    BY <1>3, <1>6, <2>1 DEF IdsInv, IdFound
  <2>3. answer'[w].id = hash[n]
    BY <2>1, <2>2 DEF HashOrNone
  <2>4. IdFound(w)'
    BY <1>1, <1>3, <2>1, <2>3 DEF IdFound, HashOrNone
  <2>5. \A i \in DOMAIN pipe'[w] : SetsHash(pipe'[w][i])
    <3>1. PICK a, d, e : a = AddToList(n) /\ d = SetDesc(n) /\ e = SetId(n, hash[n])
      OBVIOUS
    <3>2. SetsHash(a) /\ SetsHash(d) /\ SetsHash(e)
      BY <3>1, NoIdSet
    <3>3. /\ \A i \in DOMAIN <<a>> : <<a>>[i] = a
          /\ \A i \in DOMAIN <<a, d, e>> :
                <<a, d, e>>[i] = a \/ <<a, d, e>>[i] = d \/ <<a, d, e>>[i] = e
      OBVIOUS
    <3>4. pipe'[w] = <<a>> \/ pipe'[w] = <<a, d, e>>
      BY <2>1, <3>1
    <3>5. QED
      BY <3>2, <3>3, <3>4
  <2>6. QED
    BY <1>4, <2>4, <2>5
<1>7. QED
  BY <1>5, <1>6

LEMMA PutResultIds ==
    ASSUME IInv, IdsInv, NEW w \in Workers, PutResult(w)
    PROVE  IdsInv'
<1>1. /\ UNCHANGED <<hash, awaits, pipe, reply, dbid, ids>>
      /\ running[w] # Idle /\ awaits[w] = "done"
      /\ running' = [running EXCEPT ![w] = Idle]
  BY DEF PutResult, given, vars, cookieVars, redisVars
<1>2. PICK r : r = [op |-> running[w], id |-> answer[w].id, rows |-> answer[w].rows]
  OBVIOUS
<1>3. r.op = running[w] /\ r.id = answer[w].id
  BY <1>2
<1>4. resultQueue' = [resultQueue EXCEPT ![w] = Append(@, r)]
  BY <1>2 DEF PutResult
<1>5. GameTypes /\ ThreadTypes /\ r \in Result
  <2>1. GameTypes /\ ThreadTypes
    BY DEF IInv
  <2>2. answer[w] \in [id : Keys, rows : Seq(AnyRow)] /\ running[w] \in Op
    BY <1>1, <2>1 DEF ThreadTypes
  <2>3. QED
    BY <1>2, <2>1, <2>2 DEF Result
<1>6. ReturnsHash(r)
  BY <1>1, <1>3 DEF IdsInv, IdFound, RunsInsert, ReturnsHash
<1>7. ASSUME NEW x \in Workers, NEW i \in DOMAIN resultQueue'[x]
      PROVE  ReturnsHash(resultQueue[x][i])'
  <2>1. resultQueue'[x][i] = r \/ \E j \in DOMAIN resultQueue[x] : resultQueue'[x][i] = resultQueue[x][j]
    <3>1. CASE x = w
      <4>1. resultQueue'[w] = Append(resultQueue[w], r) /\ resultQueue[w] \in Seq(Result)
        BY <1>4, <1>5 DEF GameTypes
      <4>2. QED
        BY <1>5, <1>7, <3>1, <4>1
    <3>2. CASE x # w
      BY <1>4, <1>5, <3>2 DEF GameTypes
    <3>3. QED
      BY <3>1, <3>2
  <2>2. ReturnsHash(resultQueue'[x][i])
    BY <1>6, <2>1 DEF IdsInv
  <2>3. QED
    BY <1>1, <2>2 DEF ReturnsHash
<1>8. ASSUME NEW x \in Workers PROVE IdFound(x)'
  <2>1. CASE x = w
    BY <1>1, <1>5, <2>1 DEF IdFound, RunsInsert, ThreadTypes
  <2>2. CASE x # w
    <3>1. running'[x] = running[x] /\ answer'[x] = answer[x]
      BY <1>5, <2>2 DEF PutResult, Finish, ThreadTypes
    <3>2. QED
      BY <1>1, <3>1 DEF IdsInv, IdFound, RunsInsert, HashOrNone
  <2>3. QED
    BY <2>1, <2>2
<1>9. QED
  BY <1>1, <1>7, <1>8 DEF IdsInv, HashOrNone, SetsHash

LEMMA NextHashIds ==
    ASSUME IInv, IdsInv, [PipelineNext]_allVars
    PROVE  IdsInv'
<1>1. CASE UNCHANGED allVars
  <2>1. UNCHANGED <<hash, running, awaits, answer, pipe, reply, resultQueue, dbid, ids>>
    BY <1>1 DEF allVars, pipelineVars, given, threadVars, redisVars, vars, cookieVars
  <2>2. QED
    BY <2>1 DEF IdsInv, HashOrNone, SetsHash, IdFound, RunsInsert, ReturnsHash
<1>2. CASE GameStep
  BY <1>2, GameIds
<1>3. ASSUME NEW w \in Workers, RunFrameStep(w) PROVE IdsInv'
  BY <1>3, FrameIds
<1>4. ASSUME NEW w \in Workers, Take(w) \/ Execute(w) \/ Continue(w) \/ PutResult(w)
      PROVE  IdsInv'
  BY <1>4, TakeIds, ExecuteIds, ContinueIds, PutResultIds
<1>5. QED
  BY <1>1, <1>2, <1>3, <1>4 DEF PipelineNext

-----------------------------------------------------------------------------
(* The value last saved moves from the queue to the connection to Redis.   *)
LEMMA SetOrSave ==
    ASSUME NEW p \in Players, NEW k
    PROVE  /\ \A o \in Op : o.type = "InsertData" =>
                 LET c == SetValue(o.steamId, o.cookieId, o.value) IN
                   /\ c \in Write => (c \in Sets(p, k) <=> o \in Saves(p, k))
                   /\ c.value = o.value
           /\ \A c \in Read : c \notin Sets(p, k)
           /\ \A o \in Op : o.type # "InsertData" => o \notin Saves(p, k)
<1>1. ASSUME NEW o \in Op, o.type = "InsertData",
             NEW c, c = SetValue(o.steamId, o.cookieId, o.value)
      PROVE  /\ c \in Write => (c \in Sets(p, k) <=> o \in Saves(p, k))
             /\ c.value = o.value
  <2>1. /\ c.cmd = "SET value" /\ c.steamId = o.steamId /\ c.id = o.cookieId
        /\ c.value = o.value
    BY <1>1 DEF SetValue
  <2>2. QED
    BY <1>1, <2>1 DEF Sets, Saves
<1>2. \A c \in Read : c \notin Sets(p, k)
  <2>1. \A c \in Read : c.cmd # "SET value"
    BY ReadOrWrite
  <2>2. QED
    BY <2>1 DEF Sets
<1>3. \A o \in Op : o.type # "InsertData" => o \notin Saves(p, k)
  BY DEF Saves
<1>4. QED
  BY <1>1, <1>2, <1>3

LEMMA OneElement ==
    ASSUME NEW c, NEW C
    PROVE  /\ c \notin C => None(<<c>>, C)
           /\ c \in C => LastOf(<<c>>, C, c.value)
<1>1. DOMAIN <<c>> = {1} /\ <<c>>[1] = c
  OBVIOUS
<1>2. c \notin C => None(<<c>>, C)
  BY <1>1 DEF None
<1>3. c \in C => LastOf(<<c>>, C, c.value)
  BY <1>1 DEF LastOf
<1>4. QED
  BY <1>2, <1>3

LEMMA TakeLatest ==
    ASSUME IInv, NEW w \in Workers, Take(w), NEW p \in Players, NEW k, NEW v, Latest(p, k, v)
    PROVE  Latest(p, k, v)'
<1>1. PICK o : o = Head(queryQueue)
  OBVIOUS
<1>2. PICK q : q = queryQueue
  OBVIOUS
<1>3. q \in Seq(Op) /\ q # <<>> /\ queryQueue' = Tail(q) /\ o = Head(q) /\ stored' = stored
  BY <1>1, <1>2 DEF Take, IInv, GameTypes, redisVars
<1>4. pipe[w] \in Seq(Read \cup Write)
  BY DEF IInv, ThreadTypes
<1>5. o \in Op /\ \A x \in Workers \ {w} : pipe'[x] = pipe[x]
  BY <1>1, TakeSends
<1>6. PICK c : /\ c \in Read \cup Write /\ pipe'[w] = pipe[w] \o <<c>>
               /\ o \in Saves(p, k) => c \in Sets(p, k) /\ c.value = o.value
               /\ o \notin Saves(p, k) => c \notin Sets(p, k)
  <2>1. PICK c \in Read \cup Write :
              /\ pipe'[w] = pipe[w] \o <<c>>
              /\ IF o.type = "InsertData" THEN c = SetValue(o.steamId, o.cookieId, o.value)
                                          ELSE c \in Read
    BY <1>1, TakeSends
  <2>2. CASE o.type = "InsertData"
    <3>1. c = SetValue(o.steamId, o.cookieId, o.value)
      BY <2>1, <2>2
    <3>2. c.cmd = "SET value"
      BY <3>1 DEF SetValue
    <3>3. c \in Write
      BY <2>1, <3>2, ReadOrWrite
    <3>4. QED
      BY <1>5, <2>1, <2>2, <3>1, <3>3, SetOrSave
  <2>3. CASE o.type # "InsertData"
    BY <1>5, <2>1, <2>3, SetOrSave
  <2>4. QED
    BY <2>2, <2>3
<1>7. <<c>> \in Seq(Read \cup Write)
  BY <1>6
<1>8. CASE LastOf(q, Saves(p, k), v)
  <2>1. CASE LastOf(Tail(q), Saves(p, k), v)
    BY <1>3, <2>1 DEF Latest, LastOf
  <2>2. CASE None(Tail(q), Saves(p, k)) /\ o \in Saves(p, k) /\ o.value = v
    <3>1. LastOf(<<c>>, Sets(p, k), v)
      BY <1>6, <2>2, OneElement
    <3>2. LastOf(pipe[w] \o <<c>>, Sets(p, k), v)
      BY <1>4, <1>7, <3>1, LastBehind
    <3>3. LastOf(pipe[w], Sets(p, k), v)'
      BY <1>6, <3>2 DEF LastOf, Sets
    <3>4. None(queryQueue, Saves(p, k))'
      BY <1>3, <2>2 DEF None, Saves
    <3>5. QED
      BY <3>3, <3>4 DEF Latest
  <2>3. QED
    BY <1>3, <1>8, <2>1, <2>2, LastLess
<1>9. CASE None(q, Saves(p, k))
  <2>1. None(Tail(q), Saves(p, k)) /\ o \notin Saves(p, k)
    BY <1>3, <1>9, LastLess
  <2>2. None(queryQueue, Saves(p, k))'
    BY <1>3, <2>1 DEF None, Saves
  <2>3. None(<<c>>, Sets(p, k))
    BY <1>6, <2>1, OneElement
  <2>4. ASSUME NEW x \in Workers, LastOf(pipe[x], Sets(p, k), v)
        PROVE  LastOf(pipe[x], Sets(p, k), v)'
    <3>1. LastOf(pipe'[x], Sets(p, k), v)
      <4>1. CASE x = w
        BY <1>4, <1>6, <1>7, <2>3, <2>4, <4>1, LastBehind
      <4>2. CASE x # w
        BY <1>5, <2>4, <4>2
      <4>3. QED
        BY <4>1, <4>2
    <3>2. QED
      BY <3>1 DEF LastOf, Sets
  <2>5. ASSUME NEW x \in Workers, None(pipe[x], Sets(p, k))
        PROVE  None(pipe[x], Sets(p, k))'
    <3>1. None(pipe'[x], Sets(p, k))
      <4>1. CASE x = w
        BY <1>4, <1>6, <1>7, <2>3, <2>5, <4>1, LastBehind
      <4>2. CASE x # w
        BY <1>5, <2>5, <4>2
      <4>3. QED
        BY <4>1, <4>2
    <3>2. QED
      BY <3>1 DEF None, Sets
  <2>6. CASE \E x \in Workers : LastOf(pipe[x], Sets(p, k), v)
    BY <2>2, <2>4, <2>6 DEF Latest
  <2>7. CASE (\A x \in Workers : None(pipe[x], Sets(p, k))) /\ stored[p][k] = v
    BY <1>3, <2>2, <2>5, <2>7 DEF Latest
  <2>8. QED
    <3>1. ~LastOf(q, Saves(p, k), v)
      BY <1>9 DEF LastOf, None
    <3>2. QED
      BY <1>2, <2>6, <2>7, <3>1 DEF Latest
<1>10. QED
  BY <1>2, <1>8, <1>9 DEF Latest

LEMMA ExecuteLatest ==
    ASSUME OneThread, IInv, NEW w \in Workers, Execute(w),
           NEW p \in Players, NEW k \in Keys, NEW v, Latest(p, k, v)
    PROVE  Latest(p, k, v)'
<1>1. PICK c, s : s = pipe[w] /\ c = Head(s)
  OBVIOUS
<1>2. /\ s \in Seq(Read \cup Write) /\ s # <<>> /\ ThreadTypes /\ RedisTypes
      /\ queryQueue' = queryQueue /\ pipe' = [pipe EXCEPT ![w] = Tail(@)]
  BY <1>1 DEF IInv, ThreadTypes, Execute
<1>3. pipe'[w] = Tail(s) /\ \A x \in Workers : x = w
  BY <1>1, <1>2 DEF ThreadTypes, OneThread
<1>4. c \in Read \cup Write
  BY <1>1, <1>2, HeadAndTail
<1>5. c \in Sets(p, k) => stored'[p][k] = c.value
  <2>1. SUFFICES ASSUME c \in Sets(p, k) PROVE stored'[p][k] = c.value
    OBVIOUS
  <2>2. c.cmd = "SET value" /\ c.steamId = p /\ c.id = k
    BY <2>1 DEF Sets
  <2>3. stored' = [stored EXCEPT ![c.steamId][c.id] = c.value]
    BY <1>1, <2>2 DEF Execute
  <2>4. QED
    BY <1>2, <2>2, <2>3 DEF RedisTypes
<1>6. c \notin Sets(p, k) => stored'[p][k] = stored[p][k]
  <2>1. CASE c.cmd # "SET value"
    BY <1>1, <2>1 DEF Execute
  <2>2. CASE c.cmd = "SET value"
    <3>1. c \in Write
      BY <1>4, <2>2, ReadOrWrite
    <3>2. stored' = [stored EXCEPT ![c.steamId][c.id] = c.value]
      BY <1>1, <2>2 DEF Execute
    <3>3. c \notin Sets(p, k) => c.steamId # p \/ c.id # k
      BY <2>2, <3>1 DEF Sets
    <3>4. QED
      BY <1>2, <3>2, <3>3 DEF RedisTypes
  <2>3. QED
    BY <2>1, <2>2
<1>7. CASE LastOf(queryQueue, Saves(p, k), v)
  BY <1>2, <1>7 DEF Latest, LastOf, Saves
<1>8. CASE None(queryQueue, Saves(p, k))
  <2>1. None(queryQueue, Saves(p, k))'
    BY <1>2, <1>8 DEF None, Saves
  <2>2. ASSUME NEW u, None(Tail(s), Sets(p, k)), stored'[p][k] = u
        PROVE  (\A x \in Workers : None(pipe[x], Sets(p, k))') /\ stored'[p][k] = u
    BY <1>3, <2>2 DEF None, Sets
  <2>3. CASE \E x \in Workers : LastOf(pipe[x], Sets(p, k), v)
    <3>1. LastOf(s, Sets(p, k), v)
      BY <1>1, <1>3, <2>3
    <3>2. CASE LastOf(Tail(s), Sets(p, k), v)
      <4>1. LastOf(pipe[w], Sets(p, k), v)'
        BY <1>3, <3>2 DEF LastOf, Sets
      <4>2. QED
        BY <2>1, <4>1 DEF Latest
    <3>3. CASE None(Tail(s), Sets(p, k)) /\ c \in Sets(p, k) /\ c.value = v
      BY <1>5, <2>1, <2>2, <3>3 DEF Latest
    <3>4. QED
      BY <1>1, <1>2, <3>1, <3>2, <3>3, LastLess
  <2>4. CASE (\A x \in Workers : None(pipe[x], Sets(p, k))) /\ stored[p][k] = v
    <3>1. None(Tail(s), Sets(p, k)) /\ c \notin Sets(p, k)
      BY <1>1, <1>2, <2>4, LastLess
    <3>2. QED
      BY <1>6, <2>1, <2>2, <2>4, <3>1 DEF Latest
  <2>5. QED
    <3>1. ~LastOf(queryQueue, Saves(p, k), v)
      BY <1>8 DEF LastOf, None
    <3>2. QED
      BY <2>3, <2>4, <3>1 DEF Latest
<1>9. QED
  BY <1>7, <1>8 DEF Latest

LEMMA ContinueLatest ==
    ASSUME IInv, NEW w \in Workers, Continue(w),
           NEW p \in Players, NEW k, NEW v, Latest(p, k, v)
    PROVE  Latest(p, k, v)'
<1>1. queryQueue' = queryQueue /\ stored' = stored
  BY DEF Continue, redisVars
<1>2. \A x \in Workers \ {w} : pipe'[x] = pipe[x]
  BY ContinueAlone DEF OthersUntouched
<1>3. None(pipe'[w], Sets(p, k))
  <2>1. CASE ~RunsInsert(w)
    BY <2>1, ReadsSent DEF OnlyReads, None, Sets
  <2>2. CASE RunsInsert(w)
    <3>1. PICK n : n = running[w].cookie
      OBVIOUS
    <3>2. PICK a, d, e : a = AddToList(n) /\ d = SetDesc(n) /\ e = SetId(n, hash[n])
      OBVIOUS
    <3>3. a \notin Sets(p, k) /\ d \notin Sets(p, k) /\ e \notin Sets(p, k)
      BY <3>2 DEF Sets, AddToList, SetDesc, SetId
    <3>4. /\ \A i \in DOMAIN <<a>> : <<a>>[i] = a
          /\ \A i \in DOMAIN <<a, d, e>> :
                <<a, d, e>>[i] = a \/ <<a, d, e>>[i] = d \/ <<a, d, e>>[i] = e
      OBVIOUS
    <3>5. pipe'[w] = <<a>> \/ pipe'[w] = <<a, d, e>>
      BY <2>2, <3>1, <3>2, InsertSends
    <3>6. QED
      BY <3>3, <3>4, <3>5 DEF None
  <2>3. QED
    BY <2>1, <2>2
<1>4. ASSUME NEW x \in Workers, LastOf(pipe[x], Sets(p, k), v)
      PROVE  LastOf(pipe[x], Sets(p, k), v)'
  <2>1. x # w
    BY <1>4, NothingSent DEF LastOf
  <2>2. LastOf(pipe'[x], Sets(p, k), v)
    BY <1>2, <1>4, <2>1
  <2>3. QED
    BY <2>2 DEF LastOf, Sets
<1>5. ASSUME NEW x \in Workers, None(pipe[x], Sets(p, k))
      PROVE  None(pipe[x], Sets(p, k))'
  <2>1. None(pipe'[x], Sets(p, k))
    BY <1>2, <1>3, <1>5
  <2>2. QED
    BY <2>1 DEF None, Sets
<1>6. /\ LastOf(queryQueue, Saves(p, k), v) => LastOf(queryQueue, Saves(p, k), v)'
      /\ None(queryQueue, Saves(p, k)) => None(queryQueue, Saves(p, k))'
  BY <1>1 DEF LastOf, None, Saves
<1>7. QED
  BY <1>1, <1>4, <1>5, <1>6 DEF Latest

-----------------------------------------------------------------------------
(* What the game thread queues.                                            *)
LEMMA AllListed ==
    ASSUME NEW S, IsFiniteSet(S), NEW s \in SetToSeqs(S), NEW x \in S
    PROVE  \E i \in DOMAIN s : s[i] = x
<1>1. Cardinality(S) \in Nat
  BY FS_CardinalityType
<1>2. PICK D : D = 1..Cardinality(S)
  OBVIOUS
<1>3. s \in [D -> S] /\ \A i, j \in D : i # j => s[i] # s[j]
  BY <1>2 DEF SetToSeqs
<1>4. s \in Injection(D, S)
  BY <1>3 DEF Injection, IsInjective
<1>5. IsFiniteSet(D) /\ Cardinality(D) = Cardinality(S)
  <2>1. 1 \in Int /\ Cardinality(S) \in Int
    BY <1>1
  <2>2. QED
    BY <1>1, <1>2, <2>1, FS_Interval
<1>6. s \in Surjection(D, S)
  BY <1>4, <1>5, FS_Injection
<1>7. QED
  BY <1>3, <1>6 DEF Surjection

LEMMA QueuedBehind ==
    ASSUME IInv, NEW new \in Seq(Op), queryQueue' = queryQueue \o new,
           pipe' = pipe, stored' = stored, NEW p \in Players, NEW k, NEW v
    PROVE  /\ None(new, Saves(p, k)) /\ Latest(p, k, v) => Latest(p, k, v)'
           /\ LastOf(new, Saves(p, k), v) => Latest(p, k, v)'
<1>1. PICK q : q = queryQueue
  OBVIOUS
<1>2. q \in Seq(Op)
  BY <1>1 DEF IInv, GameTypes
<1>3. /\ LastOf(new, Saves(p, k), v) => LastOf(q \o new, Saves(p, k), v)
      /\ None(new, Saves(p, k)) /\ LastOf(q, Saves(p, k), v) => LastOf(q \o new, Saves(p, k), v)
      /\ None(new, Saves(p, k)) /\ None(q, Saves(p, k)) => None(q \o new, Saves(p, k))
  BY <1>2, LastBehind
<1>4. /\ LastOf(q \o new, Saves(p, k), v) => LastOf(queryQueue, Saves(p, k), v)'
      /\ None(q \o new, Saves(p, k)) => None(queryQueue, Saves(p, k))'
  BY <1>1 DEF LastOf, None, Saves
<1>5. \A x \in Workers : /\ LastOf(pipe[x], Sets(p, k), v) => LastOf(pipe[x], Sets(p, k), v)'
                         /\ None(pipe[x], Sets(p, k)) => None(pipe[x], Sets(p, k))'
  BY DEF LastOf, None, Sets
<1>6. QED
  BY <1>1, <1>3, <1>4, <1>5 DEF Latest

(* The new operations are queued in the order in which they were created.  *)
LEMMA LastQueued ==
    ASSUME IsFiniteSet(ops'), ops' \subseteq Op, Enqueue
    PROVE  \E new \in Seq(Op) :
              /\ queryQueue' = queryQueue \o new
              /\ \A C : (\A o \in ops' \ ops : o \notin C) => None(new, C)
              /\ \A C : \A o \in ops' \ ops :
                    /\ o \in C /\ \A q \in ops' \ ops : q \in C => q = o \/ q.id[2] < o.id[2]
                    => LastOf(new, C, o.value)
<1>1. IsFiniteSet(ops' \ ops)
  BY FS_Subset
<1>2. PICK new \in SetToSeqs(ops' \ ops) : InOrder(new) /\ queryQueue' = queryQueue \o new
  BY DEF Enqueue
<1>3. /\ new \in Seq(ops' \ ops)
      /\ \A i, j \in DOMAIN new : new[i] = new[j] => i = j
  BY <1>1, AllMembers
<1>4. /\ new \in Seq(Op) /\ DOMAIN new \subseteq Nat
      /\ \A i \in DOMAIN new : new[i] \in ops' \ ops
  BY <1>3
<1>5. \A o \in Op : o.id[2] \in Nat
  BY DEF Op, InsertCookieOp, SelectDataOp, InsertDataOp, SelectIdOp, OpId
<1>6. ASSUME NEW C, \A o \in ops' \ ops : o \notin C PROVE None(new, C)
  BY <1>4, <1>6 DEF None
<1>7. ASSUME NEW C, NEW o \in ops' \ ops, o \in C,
             \A q \in ops' \ ops : q \in C => q = o \/ q.id[2] < o.id[2]
      PROVE  LastOf(new, C, o.value)
  <2>1. PICK i \in DOMAIN new : new[i] = o
    BY <1>1, AllListed
  <2>2. ASSUME NEW j \in DOMAIN new, new[j] \in C, ~(j <= i) PROVE FALSE
    <3>1. i \in Nat /\ j \in Nat /\ i < j
      BY <1>4, <2>2
    <3>2. o.id[2] <= new[j].id[2]
      BY <1>2, <2>1, <3>1 DEF InOrder
    <3>3. new[j] \in Op /\ o \in Op /\ new[j] \in ops' \ ops
      BY <1>4
    <3>4. ~(new[j].id[2] < o.id[2])
      BY <1>5, <3>2, <3>3
    <3>5. new[j] = o
      BY <1>7, <2>2, <3>3, <3>4
    <3>6. QED
      BY <1>3, <2>1, <3>1, <3>5
  <2>3. QED
    BY <1>7, <2>1, <2>2 DEF LastOf
<1>8. QED
  BY <1>2, <1>4, <1>6, <1>7

NoSave(S) == \A o \in S : o.type # "InsertData"

LEMMA NoSaveOps ==
    /\ \A S : NoSave(SelectOps(S)) /\ \A k : NoSave(InsertCookieOps(S, k))
    /\ \A c, k : NoSave({SelectOp(c, k)})
    /\ NoSave({})
BY DEF NoSave, SelectOps, SelectOp, InsertCookieOps

(* No callback saves anything.                                             *)
LEMMA FrameSavesNothing ==
    ASSUME IInv, NEW w \in Workers, RunFrameStep(w)
    PROVE  NoSave(ops' \ ops)
<1>1. PICK r : r = Head(resultQueue[w])
  OBVIOUS
<1>2. \/ InsertCookieCallback(r.op, r.id)
      \/ SelectIdCallback(r.op, r.id)
      \/ InsertDataDone(r.op)
      \/ ClientConnectCallback(r.op, r.rows)
  BY <1>1 DEF RunFrameStep
<1>3. ASSUME NEW new, NoSave(new), Replace(r.op, new) PROVE NoSave(ops' \ ops)
  BY <1>3 DEF Replace, NoSave
<1>4. CASE InsertCookieCallback(r.op, r.id)
  <2>1. PICK o : o = [id |-> New(1), type |-> "SelectId", cookie |-> r.op.cookie]
    OBVIOUS
  <2>2. NoSave({o})
    BY <2>1 DEF NoSave
  <2>3. Replace(r.op, {}) \/ Replace(r.op, {o})
    BY <1>4, <2>1 DEF InsertCookieCallback
  <2>4. QED
    BY <1>3, <2>2, <2>3, NoSaveOps
<1>5. CASE SelectIdCallback(r.op, r.id) \/ InsertDataDone(r.op)
  BY <1>3, <1>5, NoSaveOps DEF SelectIdCallback, InsertDataDone
<1>6. CASE ClientConnectCallback(r.op, r.rows)
  <2> DEFINE created == {i \in DOMAIN r.rows : r.rows[i].name \notin cookies}
             T == UNION {InsertCookieOps({r.rows[i].name}, i) : i \in created}
  <2>1. NoSave(T)
    BY NoSaveOps DEF NoSave
  <2>2. Replace(r.op, {}) \/ Replace(r.op, T)
    BY <1>6 DEF ClientConnectCallback
  <2> HIDE DEF T
  <2>3. QED
    BY <1>3, <2>1, <2>2, NoSaveOps
<1>7. QED
  BY <1>2, <1>4, <1>5, <1>6

LEMMA FrameLatest ==
    ASSUME IInv, NEW w \in Workers, RunFrameStep(w),
           NEW p \in Players, NEW k, NEW v, Latest(p, k, v)
    PROVE  Latest(p, k, v)'
<1>1. pipe' = pipe /\ stored' = stored /\ Enqueue
  BY DEF RunFrameStep, threadVars, redisVars
<1>2. IsFiniteSet(ops') /\ ops' \subseteq Op
  BY FrameStepKeeps DEF IInv, ServedInv, TypeOK
<1>3. \A o \in ops' \ ops : o \notin Saves(p, k)
  BY FrameSavesNothing DEF NoSave, Saves
<1>4. PICK new \in Seq(Op) : queryQueue' = queryQueue \o new /\ None(new, Saves(p, k))
  BY <1>1, <1>2, <1>3, LastQueued
<1>5. QED
  BY <1>1, <1>4, QueuedBehind

-----------------------------------------------------------------------------
(* What a handler saves last for a player and a cookie is the last         *)
(* operation it creates for their key.                                     *)
SavedLast(p, n) ==
    \/ /\ saved'[p][n] = saved[p][n]
       /\ \A o \in ops' \ ops : o \notin Saves(p, hash[n])
    \/ /\ saved'[p][n].id = hash[n]
       /\ \E o \in ops' \ ops :
            /\ o \in Saves(p, hash[n]) /\ o.value = saved'[p][n].value
            /\ \A q \in ops' \ ops : q \in Saves(p, hash[n]) => q = o \/ q.id[2] < o.id[2]

LEMMA NewUnused ==
    ASSUME Free # {}, NEW k, NEW o, o.id = New(k)
    PROVE  o \notin ops /\ o.id[2] = k
<1>1. \E a \in Addresses : Free = {} \/ a \in Free
  BY DEF Free
<1>2. PICK a \in Free : New(k) = <<a, k>>
  BY <1>1 DEF New
<1>3. o.id[1] = a /\ o.id[2] = k
  BY <1>2
<1>4. \A q \in ops : q.id[1] # a
  BY <1>2 DEF Free
<1>5. QED
  BY <1>3, <1>4

LEMMA NothingSaved ==
    ASSUME saved' = saved, NoSave(ops' \ ops), NEW p, NEW n
    PROVE  SavedLast(p, n)
BY DEF SavedLast, NoSave, Saves

LEMMA ReconnectionSaves ==
    ASSUME NEW new, AttemptReconnection(new)
    PROVE  /\ NoSave(new) => NoSave(ops' \ ops)
           /\ \A o \in ops' \ ops : o.type = "InsertData" => o \in new
           /\ new # {} => Free # {} /\ new \subseteq ops'
BY NoSaveOps DEF AttemptReconnection, Submit, NoSave

LEMMA DepartureSaves ==
    ASSUME IInv, IdsInv, HashesDiffer, NEW c \in Slots, OnClientDisconnecting(c),
           DOMAIN saved = Players,
           saved' = [saved EXCEPT ![player[c]] = [n \in Names |-> LastSaved(c, n)]],
           NEW p \in Players, NEW n \in Names
    PROVE  SavedLast(p, n)
<1>1. TypeOK /\ hash \in Hashes /\ hash \in [Names -> CookieIds]
  BY DEF IInv, ServedInv, GameTypes
<1>2. PICK S : /\ S # {} \/ SaveOps(c) # {} => Free # {}
               /\ ops' = ops \cup (S \cup SaveOps(c)) /\ NoSave(S)
  <2>1. PICK T : Submit(SelectOps(T) \cup SaveOps(c))
    BY DEF OnClientDisconnecting
  <2>2. QED
    BY <2>1, NoSaveOps DEF Submit
<1>3. PICK k : k = hash[n]
  OBVIOUS
<1>4. player[c] \in Players
  BY <1>1 DEF TypeOK, OnClientDisconnecting
<1>5. /\ clientData[c] \in Seq(CookieData)
      /\ \A i \in DOMAIN clientData[c] : clientData[c][i].parent \in Names
  <2>1. clientData[c] \in Seq(CookieData)
    BY <1>1 DEF TypeOK
  <2>2. \A i \in DOMAIN clientData[c] : clientData[c][i] \in CookieData
    BY <2>1
  <2>3. QED
    BY <2>1, <2>2 DEF CookieData
<1>6. PICK mine : mine = {i \in Saved(c) : clientData[c][i].parent = n}
  OBVIOUS
<1>7. \A i \in Saved(c) : dbid[clientData[c][i].parent] = hash[clientData[c][i].parent]
  BY <1>5 DEF Saved, IdsInv, HashOrNone
<1>8. ASSUME NEW q \in ops' \ ops, q \in Saves(p, k)
      PROVE  /\ p = player[c]
             /\ \E i \in mine : /\ q.id = New(MaxClients + i)
                                /\ q = [id |-> New(MaxClients + i), type |-> "InsertData",
                                        steamId |-> player[c],
                                        cookieId |-> dbid[clientData[c][i].parent],
                                        value |-> clientData[c][i].value]
  <2>1. q.type = "InsertData" /\ q.steamId = p /\ q.cookieId = k
    BY <1>8 DEF Saves
  <2>2. q \in SaveOps(c)
    BY <1>2, <1>8, <2>1 DEF NoSave
  <2>3. PICK i \in Saved(c) : q = [id |-> New(MaxClients + i), type |-> "InsertData",
                                   steamId |-> player[c],
                                   cookieId |-> dbid[clientData[c][i].parent],
                                   value |-> clientData[c][i].value]
    BY <2>2 DEF SaveOps
  <2>4. q.steamId = player[c] /\ q.cookieId = dbid[clientData[c][i].parent]
        /\ q.id = New(MaxClients + i)
    BY <2>3
  <2>5. hash[clientData[c][i].parent] = hash[n]
    BY <1>3, <1>7, <2>1, <2>4
  <2>6. clientData[c][i].parent = n
    <3>1. clientData[c][i].parent \in Names
      BY <1>5 DEF Saved
    <3>2. QED
      BY <1>1, <2>5, <3>1 DEF HashesDiffer
  <2>7. QED
    BY <1>6, <2>1, <2>3, <2>4, <2>6
<1>9. CASE p # player[c]
  <2>1. saved'[p] = saved[p]
    BY <1>9
  <2>2. QED
    BY <1>3, <1>8, <1>9, <2>1 DEF SavedLast
<1>10. CASE p = player[c] /\ mine = {}
  <2>1. saved'[p][n] = saved[p][n]
    BY <1>6, <1>10 DEF LastSaved
  <2>2. QED
    BY <1>3, <1>8, <1>10, <2>1 DEF SavedLast
<1>11. CASE p = player[c] /\ mine # {}
  <2>1. PICK L : L = Len(clientData[c])
    OBVIOUS
  <2>2. L \in Nat /\ mine \in SUBSET (1..L)
    BY <1>5, <1>6, <2>1 DEF Saved
  <2>3. \E i \in mine : \A j \in mine : j <= i
    BY <1>11, <2>2, GreatestIndex
  <2>4. PICK last : last = CHOOSE i \in mine : \A j \in mine : j <= i
    OBVIOUS
  <2>5. last \in mine /\ \A j \in mine : j <= last
    BY <2>3, <2>4
  <2>6. /\ dbid[n] = k /\ clientData[c][last].parent = n /\ last \in Saved(c)
    BY <1>3, <1>6, <1>7, <2>5
  <2>7. saved'[p][n] = [value |-> clientData[c][last].value, id |-> dbid[n], absent |-> FALSE]
    BY <1>6, <1>11, <2>4 DEF LastSaved
  <2>8. PICK o : o = [id |-> New(MaxClients + last), type |-> "InsertData",
                      steamId |-> player[c],
                      cookieId |-> dbid[clientData[c][last].parent],
                      value |-> clientData[c][last].value]
    OBVIOUS
  <2>9. /\ o.id = New(MaxClients + last) /\ o.type = "InsertData" /\ o.steamId = p
        /\ o.cookieId = k /\ o.value = clientData[c][last].value
    BY <1>11, <2>6, <2>8
  <2>10. o \in SaveOps(c)
    BY <2>6, <2>8 DEF SaveOps
  <2>11. o \in ops' /\ Free # {}
    BY <1>2, <2>10
  <2>12. o \notin ops /\ o.id[2] = MaxClients + last
    BY <2>9, <2>11, NewUnused
  <2>13. o \in Saves(p, k)
    <3>1. ops' \subseteq Op
      <4>1. [Next]_vars
        BY DEF Next, Server
      <4>2. QED
        BY <1>1, <4>1, NextType DEF TypeOK
    <3>2. QED
      BY <2>9, <2>11, <3>1 DEF Saves
  <2>14. ASSUME NEW q \in ops' \ ops, q \in Saves(p, k), q # o
         PROVE  q.id[2] < o.id[2]
    <3>1. PICK i \in mine : /\ q.id = New(MaxClients + i)
                            /\ q = [id |-> New(MaxClients + i), type |-> "InsertData",
                                    steamId |-> player[c],
                                    cookieId |-> dbid[clientData[c][i].parent],
                                    value |-> clientData[c][i].value]
      BY <1>8, <2>14
    <3>2. i # last
      BY <2>8, <2>14, <3>1
    <3>3. q.id[2] = MaxClients + i
      BY <2>11, <3>1, NewUnused
    <3>4. i \in Nat /\ last \in Nat /\ MaxClients \in Nat /\ i <= last
      BY <2>2, <2>5, ConstantsAssumption
    <3>5. QED
      BY <2>12, <3>2, <3>3, <3>4
  <2>15. saved'[p][n].id = k /\ saved'[p][n].value = o.value
    BY <2>6, <2>7, <2>9
  <2>16. QED
    BY <1>3, <2>11, <2>12, <2>13, <2>14, <2>15 DEF SavedLast
<1>12. QED
  BY <1>9, <1>10, <1>11

LEMMA AuthIdSaves ==
    ASSUME IInv, IdsInv, HashesDiffer, NEW m \in Names, NEW v \in Value, SetAuthIdCookie(m, v),
           DOMAIN saved = Players, \A p \in Players : DOMAIN saved[p] = Names,
           saved' = IF \E op \in ops' \ ops : op.type = "InsertData"
                    THEN [saved EXCEPT ![v.by][m] =
                            [value |-> v, id |-> dbid[m], absent |-> TRUE]]
                    ELSE saved,
           NEW p \in Players, NEW n \in Names, Kept(p, n)'
    PROVE  SavedLast(p, n)
<1>1. TypeOK /\ hash \in Hashes /\ hash \in [Names -> CookieIds]
  BY DEF IInv, ServedInv, GameTypes
<1>2. PICK o : o = [id |-> New(MaxClients + 1), type |-> "InsertData",
                    steamId |-> v.by, cookieId |-> dbid[m], value |-> v]
  OBVIOUS
<1>3. /\ o.id = New(MaxClients + 1) /\ o.type = "InsertData" /\ o.steamId = v.by
      /\ o.cookieId = dbid[m] /\ o.value = v
  BY <1>2
<1>4. AttemptReconnection({}) \/ AttemptReconnection({o})
  BY <1>2 DEF SetAuthIdCookie
<1>5. CASE ~\E op \in ops' \ ops : op.type = "InsertData"
  <2>1. NoSave(ops' \ ops)
    BY <1>5 DEF NoSave
  <2>2. QED
    BY <1>5, <2>1, NothingSaved
<1>6. CASE \E op \in ops' \ ops : op.type = "InsertData"
  <2>1. AttemptReconnection({o})
    BY <1>4, <1>6, ReconnectionSaves, NoSaveOps DEF NoSave
  <2>2. /\ Free # {} /\ o \in ops' /\ o \notin ops
        /\ \A q \in ops' \ ops : q.type = "InsertData" => q = o
    <3>1. /\ Free # {} /\ o \in ops'
          /\ \A q \in ops' \ ops : q.type = "InsertData" => q = o
      BY <2>1, ReconnectionSaves
    <3>2. QED
      BY <1>3, <3>1, NewUnused
  <2>3. saved' = [saved EXCEPT ![v.by][m] = [value |-> v, id |-> dbid[m], absent |-> TRUE]]
    BY <1>6
  <2>4. v.by \in Players
    BY DEF Value
  <2>5. HashOrNone(dbid[m], m, -1)
    BY DEF IdsInv
  <2>6. CASE p = v.by /\ n = m
    <3>1. saved'[p][n] = [value |-> v, id |-> dbid[m], absent |-> TRUE]
      BY <2>3, <2>6
    <3>2. dbid[m] = hash[n] /\ saved'[p][n].id = hash[n] /\ saved'[p][n].value = o.value
      BY <1>3, <2>5, <2>6, <3>1 DEF Kept, HashOrNone
    <3>3. ops' \subseteq Op
      <4>1. [Next]_vars
        BY DEF Next, Native
      <4>2. QED
        BY <1>1, <4>1, NextType DEF TypeOK
    <3>4. o \in Saves(p, hash[n])
      BY <1>3, <2>2, <2>6, <3>2, <3>3 DEF Saves
    <3>5. \A q \in ops' \ ops : q \in Saves(p, hash[n]) => q = o
      BY <2>2 DEF Saves
    <3>6. QED
      BY <2>2, <3>2, <3>4, <3>5 DEF SavedLast
  <2>7. CASE ~(p = v.by /\ n = m)
    <3>1. saved'[p][n] = saved[p][n]
      BY <2>3, <2>4, <2>7
    <3>2. ASSUME o \in Saves(p, hash[n]) PROVE FALSE
      <4>1. v.by = p /\ dbid[m] = hash[n]
        BY <1>3, <3>2 DEF Saves
      <4>2. hash[n] # -1
        <5>1. hash[n] \in Nat
          BY <1>1, ConstantsAssumption
        <5>2. QED
          BY <5>1
      <4>3. hash[m] = hash[n]
        BY <2>5, <4>1, <4>2 DEF HashOrNone
      <4>4. m = n
        BY <1>1, <4>3 DEF HashesDiffer
      <4>5. QED
        BY <2>7, <4>1, <4>4
    <3>3. \A q \in ops' \ ops : q \notin Saves(p, hash[n])
      BY <2>2, <3>2 DEF Saves
    <3>4. QED
      BY <3>1, <3>3 DEF SavedLast
  <2>8. QED
    BY <2>6, <2>7
<1>7. QED
  BY <1>5, <1>6

(* Who saves values: the departure of a player and SetAuthIdCookie.        *)
LEMMA WhoSaves ==
    ASSUME GameStep
    PROVE  \/ saved' = saved /\ NoSave(ops' \ ops)
           \/ \E c \in Slots :
                /\ OnClientDisconnecting(c)
                /\ saved' = [saved EXCEPT ![player[c]] = [n \in Names |-> LastSaved(c, n)]]
           \/ \E m \in Names, v \in Value :
                /\ SetAuthIdCookie(m, v)
                /\ saved' = IF \E op \in ops' \ ops : op.type = "InsertData"
                            THEN [saved EXCEPT ![v.by][m] =
                                    [value |-> v, id |-> dbid[m], absent |-> TRUE]]
                            ELSE saved
<1>1. ASSUME NEW c \in Slots, NEW p \in Players, ClientConnect(c, p)
      PROVE  NoSave(ops' \ ops)
  BY <1>1 DEF ClientConnect, NoSave
<1>2. ASSUME NEW c \in Slots, OnClientAuthorized(c)
      PROVE  NoSave(ops' \ ops)
  BY <1>2, NoSaveOps DEF OnClientAuthorized, Submit, NoSave
<1>3. ASSUME NEW n \in Names, RegClientCookie(n)
      PROVE  NoSave(ops' \ ops)
  BY <1>3, NoSaveOps, ReconnectionSaves DEF RegClientCookie
<1>4. ASSUME \/ \E n \in Names, c \in Slots : GetClientCookie(n, c)
             \/ \E n \in Names, c \in Slots, v \in Value : SetClientCookie(n, c, v)
             \/ CheckMissed
      PROVE  NoSave(ops' \ ops)
  BY <1>4, NoSaveOps, ReconnectionSaves DEF GetClientCookie, SetClientCookie, CheckMissed
<1>5. ASSUME NEW n \in Names, NEW c \in Slots, NEW v \in Value, OnMenuSelect(n, c, v)
      PROVE  NoSave(ops' \ ops)
  BY <1>5 DEF OnMenuSelect, NoSave
<1>6. QED
  BY <1>1, <1>2, <1>3, <1>4, <1>5 DEF GameStep

LEMMA GameSaves ==
    ASSUME IInv, IdsInv, HashesDiffer, GameStep,
           DOMAIN saved = Players, \A p \in Players : DOMAIN saved[p] = Names
    PROVE  /\ DOMAIN saved' = Players /\ \A p \in Players : DOMAIN saved'[p] = Names
           /\ \A p \in Players, n \in Names : Kept(p, n)' => SavedLast(p, n)
<1>1. ASSUME saved' = saved, NoSave(ops' \ ops)
      PROVE  /\ DOMAIN saved' = Players /\ \A p \in Players : DOMAIN saved'[p] = Names
             /\ \A p \in Players, n \in Names : Kept(p, n)' => SavedLast(p, n)
  BY <1>1, NothingSaved
<1>2. ASSUME NEW c \in Slots, OnClientDisconnecting(c),
             saved' = [saved EXCEPT ![player[c]] = [n \in Names |-> LastSaved(c, n)]]
      PROVE  /\ DOMAIN saved' = Players /\ \A p \in Players : DOMAIN saved'[p] = Names
             /\ \A p \in Players, n \in Names : Kept(p, n)' => SavedLast(p, n)
  BY <1>2, DepartureSaves
<1>3. ASSUME NEW m \in Names, NEW v \in Value, SetAuthIdCookie(m, v),
             saved' = IF \E op \in ops' \ ops : op.type = "InsertData"
                      THEN [saved EXCEPT ![v.by][m] =
                              [value |-> v, id |-> dbid[m], absent |-> TRUE]]
                      ELSE saved
      PROVE  /\ DOMAIN saved' = Players /\ \A p \in Players : DOMAIN saved'[p] = Names
             /\ \A p \in Players, n \in Names : Kept(p, n)' => SavedLast(p, n)
  <2>1. \A p \in Players, n \in Names : Kept(p, n)' => SavedLast(p, n)
    BY <1>3, AuthIdSaves
  <2>2. PICK f : f = [value |-> v, id |-> dbid[m], absent |-> TRUE]
    OBVIOUS
  <2>3. saved' = saved \/ saved' = [saved EXCEPT ![v.by][m] = f]
    BY <1>3, <2>2
  <2>4. DOMAIN saved' = Players /\ \A p \in Players : DOMAIN saved'[p] = Names
    BY <2>3
  <2>5. QED
    BY <2>1, <2>4
<1>4. QED
  BY <1>1, <1>2, <1>3, WhoSaves

LEMMA LatestSame ==
    ASSUME UNCHANGED <<queryQueue, pipe, stored>>, NEW p, NEW k, NEW v, Latest(p, k, v)
    PROVE  Latest(p, k, v)'
<1>1. /\ LastOf(queryQueue, Saves(p, k), v) => LastOf(queryQueue, Saves(p, k), v)'
      /\ None(queryQueue, Saves(p, k)) => None(queryQueue, Saves(p, k))'
  BY DEF LastOf, None, Saves
<1>2. \A x \in Workers : /\ LastOf(pipe[x], Sets(p, k), v) => LastOf(pipe[x], Sets(p, k), v)'
                         /\ None(pipe[x], Sets(p, k)) => None(pipe[x], Sets(p, k))'
  BY DEF LastOf, None, Sets
<1>3. QED
  BY <1>1, <1>2 DEF Latest

LEMMA LatestValue ==
    ASSUME NEW p, NEW n, NEW k, NEW v, k = hash'[n], v = saved'[p][n].value, Latest(p, k, v)'
    PROVE  Latest(p, hash[n], saved[p][n].value)'
BY DEF Latest, LastOf, None, Saves, Sets

LEMMA InitStored == PipelineInit => StoredInv
BY DEF PipelineInit, StoredInv, Kept

LEMMA GameStored ==
    ASSUME IInv, IdsInv, HashesDiffer, StoredInv, GameStep
    PROVE  StoredInv'
<1>1. /\ DOMAIN saved' = Players /\ \A p \in Players : DOMAIN saved'[p] = Names
      /\ \A p \in Players, n \in Names : Kept(p, n)' => SavedLast(p, n)
  BY GameSaves DEF StoredInv
<1>2. pipe' = pipe /\ stored' = stored /\ hash' = hash /\ Enqueue
  BY DEF GameStep, threadVars, redisVars, given
<1>3. IsFiniteSet(ops') /\ ops' \subseteq Op
  BY GameStepKeeps DEF IInv, ServedInv, TypeOK
<1>4. PICK new \in Seq(Op) :
         /\ queryQueue' = queryQueue \o new
         /\ \A C : (\A o \in ops' \ ops : o \notin C) => None(new, C)
         /\ \A C : \A o \in ops' \ ops :
               /\ o \in C /\ \A q \in ops' \ ops : q \in C => q = o \/ q.id[2] < o.id[2]
               => LastOf(new, C, o.value)
  BY <1>2, <1>3, LastQueued
<1>5. ASSUME NEW p \in Players, NEW n \in Names, Kept(p, n)'
      PROVE  (saved[p][n].id = hash[n] /\ Latest(p, hash[n], saved[p][n].value))'
  <2>1. PICK k, v : k = hash[n] /\ v = saved'[p][n].value
    OBVIOUS
  <2>2. CASE /\ saved'[p][n] = saved[p][n]
             /\ \A o \in ops' \ ops : o \notin Saves(p, k)
    <3>1. None(new, Saves(p, k))
      BY <1>4, <2>2
    <3>2. saved[p][n].id = k /\ Latest(p, k, v)
      BY <1>5, <2>1, <2>2 DEF StoredInv, Kept
    <3>3. Latest(p, k, v)'
      BY <1>2, <1>4, <3>1, <3>2, QueuedBehind
    <3>4. saved'[p][n].id = k
      BY <2>2, <3>2
    <3>5. QED
      BY <1>2, <2>1, <3>3, <3>4, LatestValue
  <2>3. ASSUME NEW o \in ops' \ ops, saved'[p][n].id = k, o \in Saves(p, k), o.value = v,
               \A q \in ops' \ ops : q \in Saves(p, k) => q = o \/ q.id[2] < o.id[2]
        PROVE  (saved[p][n].id = hash[n] /\ Latest(p, hash[n], saved[p][n].value))'
    <3>1. LastOf(new, Saves(p, k), v)
      BY <1>4, <2>3
    <3>2. Latest(p, k, v)'
      BY <1>2, <1>4, <3>1, QueuedBehind
    <3>3. QED
      BY <1>2, <2>1, <2>3, <3>2, LatestValue
  <2>4. QED
    BY <1>1, <1>5, <2>1, <2>2, <2>3 DEF SavedLast
<1>6. QED
  BY <1>1, <1>2, <1>5 DEF StoredInv

LEMMA NextStored ==
    ASSUME OneThread, HashesDiffer, IInv, IdsInv, StoredInv, [PipelineNext]_allVars
    PROVE  StoredInv'
<1>1. CASE GameStep
  BY <1>1, GameStored
<1>2. \A n \in Names : hash[n] \in Keys
  BY DEF IInv, GameTypes, Keys
<1>3. ASSUME saved' = saved, hash' = hash,
             \A p \in Players, k \in Keys : \A v : Latest(p, k, v) => Latest(p, k, v)'
      PROVE  StoredInv'
  <2>1. ASSUME NEW p \in Players, NEW n \in Names, Kept(p, n)'
        PROVE  (saved[p][n].id = hash[n] /\ Latest(p, hash[n], saved[p][n].value))'
    <3>1. PICK k, v : k = hash[n] /\ v = saved[p][n].value
      OBVIOUS
    <3>2. saved[p][n].id = k /\ Latest(p, k, v) /\ k \in Keys
      BY <1>2, <1>3, <2>1, <3>1 DEF StoredInv, Kept
    <3>3. Latest(p, k, v)'
      BY <1>3, <3>2
    <3>4. QED
      BY <1>3, <3>1, <3>2, <3>3, LatestValue
  <2>2. QED
    BY <1>3, <2>1 DEF StoredInv
<1>4. CASE UNCHANGED allVars
  <2>1. UNCHANGED <<saved, hash, queryQueue, pipe, stored>>
    BY <1>4 DEF allVars, pipelineVars, given, threadVars, redisVars
  <2>2. QED
    BY <1>3, <2>1, LatestSame
<1>5. ASSUME NEW w \in Workers, RunFrameStep(w) PROVE StoredInv'
  <2>1. saved' = saved /\ hash' = hash
    BY <1>5 DEF RunFrameStep, given
  <2>2. QED
    BY <1>3, <1>5, <2>1, FrameLatest
<1>6. ASSUME NEW w \in Workers, Take(w) PROVE StoredInv'
  <2>1. saved' = saved /\ hash' = hash
    BY <1>6 DEF Take, given
  <2>2. QED
    BY <1>3, <1>6, <2>1, TakeLatest
<1>7. ASSUME NEW w \in Workers, Execute(w) PROVE StoredInv'
  <2>1. saved' = saved /\ hash' = hash
    BY <1>7 DEF Execute, given
  <2>2. QED
    BY <1>3, <1>7, <2>1, ExecuteLatest
<1>8. ASSUME NEW w \in Workers, Continue(w) PROVE StoredInv'
  <2>1. saved' = saved /\ hash' = hash
    BY <1>8 DEF Continue, given
  <2>2. QED
    BY <1>3, <1>8, <2>1, ContinueLatest
<1>9. ASSUME NEW w \in Workers, PutResult(w) PROVE StoredInv'
  <2>1. UNCHANGED <<saved, hash, queryQueue, pipe, stored>>
    BY <1>9 DEF PutResult, given, redisVars
  <2>2. QED
    BY <1>3, <2>1, LatestSame
<1>10. QED
  BY <1>1, <1>4, <1>5, <1>6, <1>7, <1>8, <1>9 DEF PipelineNext

-----------------------------------------------------------------------------
(* No save is lost or overtaken: with one query thread, once no operation  *)
(* and no command is under way, Redis has for every player and cookie the  *)
(* value that OnClientDisconnecting or SetAuthIdCookie last queued under a *)
(* known id.  No two names may have the same hash, for two cookies would   *)
(* then write to the same key.                                             *)
THEOREM SavesStored ==
    ASSUME OneThread, HashesDiffer
    PROVE  PipelineSpec => []StoredWhenQuiet
<1>1. PipelineInit => IInv /\ IdsInv /\ StoredInv
  BY InitIInv, InitHashIds, InitStored
<1>2. IInv /\ IdsInv /\ StoredInv /\ [PipelineNext]_allVars => (IInv /\ IdsInv /\ StoredInv)'
  BY NextIInv, NextHashIds, NextStored
<1>3. IInv /\ StoredInv => StoredWhenQuiet
  <2>1. SUFFICES ASSUME IInv, StoredInv, Quiet, NEW p \in Players, NEW n \in Names, Kept(p, n)
                 PROVE  stored[p][saved[p][n].id] = saved[p][n].value
    BY DEF StoredWhenQuiet
  <2>2. DOMAIN queryQueue = {} /\ \A w \in Workers : DOMAIN pipe[w] = {}
    <3>1. DOMAIN <<>> = {}
      OBVIOUS
    <3>2. \A w \in Workers : DOMAIN pipe[w] = {}
      BY <2>1, <3>1 DEF Quiet
    <3>3. \A i \in DOMAIN queryQueue : FALSE
      BY <2>1 DEF Quiet, IInv, Placed, QueuedExist
    <3>4. QED
      BY <3>2, <3>3
  <2>3. saved[p][n].id = hash[n] /\ Latest(p, hash[n], saved[p][n].value)
    BY <2>1 DEF StoredInv
  <2>4. QED
    BY <2>2, <2>3 DEF Latest, LastOf
<1>4. QED
  BY <1>1, <1>2, <1>3, PTL DEF PipelineSpec

-----------------------------------------------------------------------------
(* A cookie that has an id stays in the list, or will be.                  *)
LEMMA StaysListed ==
    ASSUME \A n \in Names : Registered(n)' => Registered(n),
           \A n \in Names : IdSent(n) => IdSent(n)',
           \A n \in Names : IdSent(n) /\ ListSent(n) => ListSent(n)',
           ListedInv
    PROVE  ListedInv'
BY DEF ListedInv

LEMMA PipesSame ==
    ASSUME UNCHANGED <<pipe, ids, listed>>
    PROVE  \A n : (IdSent(n) => IdSent(n)') /\ (ListSent(n) => ListSent(n)')
BY DEF IdSent, OnItsWay, SetsId, ListSent, Lists

LEMMA GameListed ==
    ASSUME ListedInv, GameStep
    PROVE  ListedInv'
<1>1. UNCHANGED <<dbid, running, awaits, resultQueue, pipe, ids, listed>>
  BY GameStepIsGame, GameKeepsIds DEF GameStep, threadVars, redisVars
<1>2. \A n \in Names : Registered(n)' => Registered(n)
  BY <1>1 DEF Registered, RunsInsert
<1>3. QED
  BY <1>1, <1>2, PipesSame, StaysListed

LEMMA FrameListed ==
    ASSUME IInv, ListedInv, NEW w \in Workers, RunFrameStep(w)
    PROVE  ListedInv'
<1>1. UNCHANGED <<running, awaits, pipe, ids, listed>>
  BY DEF RunFrameStep, threadVars, redisVars
<1>2. PICK r : r = Head(resultQueue[w])
  OBVIOUS
<1>3. /\ r = resultQueue[w][1] /\ 1 \in DOMAIN resultQueue[w]
      /\ \/ dbid' = dbid
         \/ r.op.type = "InsertCookie" /\ dbid' = [dbid EXCEPT ![r.op.cookie] = r.id]
         \/ dbid' = [dbid EXCEPT ![r.op.cookie] = -1]
  BY <1>2, FrameSetsId
<1>4. DOMAIN dbid = Names
  BY DEF IInv, ServedInv, TypeOK
<1>5. ASSUME NEW n \in Names, dbid'[n] > 0 PROVE Registered(n)
  <2>1. dbid'[n] = dbid[n] \/ dbid'[n] = -1
        \/ (r.op.type = "InsertCookie" /\ r.op.cookie = n)
    BY <1>3, <1>4
  <2>2. CASE dbid'[n] = dbid[n]
    BY <1>5, <2>2 DEF Registered
  <2>3. CASE dbid'[n] = -1
    BY <1>5, <2>3
  <2>4. CASE r.op.type = "InsertCookie" /\ r.op.cookie = n
    BY <1>3, <2>4 DEF Registered
  <2>5. QED
    BY <2>1, <2>2, <2>3, <2>4
<1>6. \A x \in Workers : \A j \in DOMAIN resultQueue'[x] :
         \E i \in DOMAIN resultQueue[x] : resultQueue'[x][j] = resultQueue[x][i]
  BY FrameResults DEF IInv
<1>7. ASSUME NEW n \in Names, Registered(n)' PROVE Registered(n)
  <2>1. CASE dbid'[n] > 0
    BY <1>5, <2>1
  <2>2. CASE \E x \in Workers : RunsInsert(x) /\ awaits[x] = "done" /\ running[x].cookie = n
    BY <2>2 DEF Registered
  <2>3. CASE \E x \in Workers : \E j \in DOMAIN resultQueue'[x] :
                /\ resultQueue'[x][j].op.type = "InsertCookie"
                /\ resultQueue'[x][j].op.cookie = n
    <3>1. PICK x \in Workers : \E j \in DOMAIN resultQueue'[x] :
                /\ resultQueue'[x][j].op.type = "InsertCookie"
                /\ resultQueue'[x][j].op.cookie = n
      BY <2>3
    <3>2. PICK i \in DOMAIN resultQueue[x] :
                /\ resultQueue[x][i].op.type = "InsertCookie"
                /\ resultQueue[x][i].op.cookie = n
      BY <1>6, <3>1
    <3>3. QED
      BY <3>2 DEF Registered
  <2>4. QED
    BY <1>1, <1>7, <2>1, <2>2, <2>3 DEF Registered, RunsInsert
<1>8. QED
  BY <1>1, <1>7, PipesSame, StaysListed

(* What is sent is executed in the end.                                    *)
LEMMA LongerList ==
    ASSUME ThreadTypes, listed' = listed,
           \A x \in Workers : \/ pipe'[x] = pipe[x]
                              \/ \E cs \in Seq(Read \cup Write) : pipe'[x] = pipe[x] \o cs
    PROVE  \A n : ListSent(n) => ListSent(n)'
<1>1. SUFFICES ASSUME NEW n, n \notin listed, ListSent(n) PROVE ListSent(n)'
  BY DEF ListSent
<1>2. PICK x \in Workers : \E i \in DOMAIN pipe[x] : Lists(pipe[x][i], n)
  BY <1>1 DEF ListSent
<1>3. PICK i \in DOMAIN pipe[x] : Lists(pipe[x][i], n)
  BY <1>2
<1>4. i \in DOMAIN pipe'[x] /\ pipe'[x][i] = pipe[x][i]
  <2>1. CASE pipe'[x] = pipe[x]
    BY <2>1
  <2>2. ASSUME NEW cs \in Seq(Read \cup Write), pipe'[x] = pipe[x] \o cs
        PROVE  i \in DOMAIN pipe'[x] /\ pipe'[x][i] = pipe[x][i]
    <3>1. PICK s \in Seq(Read \cup Write) : s = pipe[x]
      BY DEF ThreadTypes
    <3>2. \A j \in DOMAIN s : j \in DOMAIN (s \o cs) /\ (s \o cs)[j] = s[j]
      BY Joined
    <3>3. QED
      BY <2>2, <3>1, <3>2
  <2>3. QED
    BY <2>1, <2>2
<1>5. QED
  BY <1>3, <1>4 DEF ListSent, Lists

LEMMA TakeListed ==
    ASSUME IInv, ListedInv, NEW w \in Workers, Take(w)
    PROVE  ListedInv'
<1>1. UNCHANGED <<dbid, resultQueue, ids, listed>> /\ ThreadTypes
  BY DEF Take, redisVars, vars, cookieVars, IInv
<1>2. PICK o : o = Head(queryQueue)
  OBVIOUS
<1>3. /\ running'[w] = o /\ (awaits'[w] = "done" => o.type = "InsertData")
      /\ \A x \in Workers \ {w} :
            running'[x] = running[x] /\ pipe'[x] = pipe[x] /\ awaits'[x] = awaits[x]
  BY <1>2, TakeSends
<1>4. PICK c \in Read \cup Write : pipe'[w] = pipe[w] \o <<c>>
  BY <1>2, TakeSends
<1>5. <<c>> \in Seq(Read \cup Write)
  OBVIOUS
<1>6. \A n : (IdSent(n) => IdSent(n)') /\ (ListSent(n) => ListSent(n)')
  BY <1>1, <1>3, <1>4, <1>5, LongerPipes, LongerList
<1>7. \A n \in Names : Registered(n)' => Registered(n)
  BY <1>1, <1>3 DEF Registered, RunsInsert
<1>8. QED
  BY <1>6, <1>7, StaysListed

(* When the script runs, nothing else is on its way on its connection.     *)
LEMMA ScriptAlone ==
    ASSUME IInv, NEW w \in Workers, pipe[w] # <<>>, Head(pipe[w]).cmd = "EVALSHA"
    PROVE  pipe[w] = <<Head(pipe[w])>>
<1>1. PICK s, c : s = pipe[w] /\ c = Head(s)
  OBVIOUS
<1>2. /\ ThreadOK(w) /\ s \in Seq(Read \cup Write) /\ s # <<>> /\ c.cmd = "EVALSHA"
  BY <1>1 DEF IInv, ThreadTypes
<1>3. c \in Read /\ c \notin Write
  BY <1>1, <1>2, HeadAndTail, ReadOrWrite
<1>4. ~AllWrites(s)
  BY <1>1, <1>2, <1>3, HeadAndTail
<1>5. ASSUME NEW q, EndsWith(s, q) PROVE s = <<c>>
  BY <1>1, <1>2, <1>3, <1>5, LastIsRead
<1>6. CASE \E q, good : Asked(w, q, good)
  BY <1>1, <1>2, <1>5, <1>6 DEF Asked
<1>7. CASE AsksForValue(w)
  <2>1. PICK p, n : ValueAsked(w, p, n)
    BY <1>7 DEF AsksForValue
  <2>2. ASSUME NEW id, s = <<GetValue(p, id), GetDesc(n)>> PROVE FALSE
    <3>1. PICK d, e : d = GetValue(p, id) /\ e = GetDesc(n)
      OBVIOUS
    <3>2. c = d
      BY <1>1, <2>2, <3>1
    <3>3. d.cmd = "GET value"
      BY <3>1 DEF GetValue
    <3>4. QED
      BY <1>2, <3>2, <3>3
  <2>3. ASSUME s = <<GetDesc(n)>> PROVE s = <<c>>
    BY <1>1, <2>3
  <2>4. QED
    BY <1>1, <1>2, <2>1, <2>2, <2>3 DEF ValueAsked
<1>8. QED
  BY <1>1, <1>2, <1>4, <1>6, <1>7
     DEF ThreadOK, Resting, Answered, AsksForId, RunsScript, AsksForKeys, AsksForKeyId

LEMMA ExecuteListed ==
    ASSUME OneThread, IInv, SafeInv, ListedInv, NEW w \in Workers, Execute(w)
    PROVE  ListedInv'
<1>1. PICK c : c = Head(pipe[w])
  OBVIOUS
<1>2. /\ UNCHANGED <<running, awaits, resultQueue, dbid>>
      /\ pipe' = [pipe EXCEPT ![w] = Tail(@)] /\ pipe[w] # <<>>
  BY DEF Execute, vars, cookieVars
<1>3. ThreadTypes /\ pipe[w] \in Seq(Read \cup Write) /\ \A x \in Workers : x = w
  BY DEF IInv, ThreadTypes, OneThread
<1>4. pipe'[w] = Tail(pipe[w])
  BY <1>2, <1>3 DEF ThreadTypes
<1>5. \A n \in Names : Registered(n)' => Registered(n)
  BY <1>2 DEF Registered, RunsInsert
<1>6. \A n \in Names : IdSent(n) => IdSent(n)'
  BY IdSentGrows
<1>7. \/ c.cmd = "SADD" /\ listed' = listed \cup {c.name}
      \/ c.cmd # "SADD" /\ listed' = listed
      \/ c.cmd = "EVALSHA" /\ listed' = listed \cap Known
  BY <1>1 DEF Execute
<1>8. ASSUME NEW n \in Names, IdSent(n), ListSent(n) PROVE ListSent(n)'
  <2>1. CASE c.cmd = "EVALSHA"
    <3>1. pipe[w] = <<c>>
      BY <1>1, <1>2, <2>1, ScriptAlone
    <3>2. \A x \in Workers : \A i \in DOMAIN pipe[x] : pipe[x][i] = c
      <4>1. \A i \in DOMAIN <<c>> : <<c>>[i] = c
        OBVIOUS
      <4>2. QED
        BY <1>3, <3>1, <4>1
    <3>3. ids[n] # Nil /\ n \in listed
      BY <1>8, <2>1, <3>2 DEF IdSent, OnItsWay, SetsId, ListSent, Lists
    <3>4. n \in listed'
      BY <1>7, <2>1, <3>3 DEF Known
    <3>5. QED
      BY <3>4 DEF ListSent
  <2>2. CASE c.cmd # "EVALSHA"
    <3>1. CASE n \in listed
      <4>1. n \in listed'
        BY <1>7, <2>2, <3>1
      <4>2. QED
        BY <4>1 DEF ListSent
    <3>2. CASE n \notin listed
      <4>1. PICK i \in DOMAIN pipe[w] : Lists(pipe[w][i], n)
        BY <1>3, <1>8, <3>2 DEF ListSent
      <4>2. /\ Head(pipe[w]) = pipe[w][1]
            /\ i # 1 => i - 1 \in DOMAIN Tail(pipe[w]) /\ Tail(pipe[w])[i - 1] = pipe[w][i]
        BY <1>2, <1>3, Shifted
      <4>3. CASE i = 1
        <5>1. c.cmd = "SADD" /\ c.name = n
          BY <1>1, <4>1, <4>2, <4>3 DEF Lists
        <5>2. n \in listed'
          BY <1>7, <5>1
        <5>3. QED
          BY <5>2 DEF ListSent
      <4>4. CASE i # 1
        <5>1. i - 1 \in DOMAIN pipe'[w] /\ Lists(pipe'[w][i - 1], n)
          BY <1>4, <4>1, <4>2, <4>4
        <5>2. QED
          BY <5>1 DEF ListSent, Lists
      <4>5. QED
        BY <4>3, <4>4
    <3>3. QED
      BY <3>1, <3>2
  <2>3. QED
    BY <2>1, <2>2
<1>9. QED
  BY <1>5, <1>6, <1>8, StaysListed

LEMMA ContinueListed ==
    ASSUME IInv, SafeInv', ListedInv, NEW w \in Workers, Continue(w)
    PROVE  ListedInv'
<1>1. UNCHANGED <<running, resultQueue, dbid, ids, listed>>
  BY DEF Continue, vars, cookieVars, redisVars
<1>2. \A x \in Workers \ {w} : awaits'[x] = awaits[x] /\ pipe'[x] = pipe[x]
  BY ContinueAlone DEF OthersUntouched
<1>3. \A x \in Workers : \A i \in DOMAIN pipe[x] : pipe'[x] = pipe[x]
  <2>1. DOMAIN pipe[w] = {}
    BY NothingSent
  <2>2. QED
    BY <1>2, <2>1
<1>4. ASSUME NEW n PROVE (IdSent(n) => IdSent(n)') /\ (ListSent(n) => ListSent(n)')
  BY <1>1, <1>3 DEF IdSent, OnItsWay, SetsId, ListSent, Lists
<1>5. CASE ~RunsInsert(w)
  <2>1. \A n \in Names : Registered(n)' => Registered(n)
    BY <1>1, <1>2, <1>5 DEF Registered, RunsInsert
  <2>2. QED
    BY <1>4, <2>1, StaysListed
<1>6. CASE RunsInsert(w)
  <2>1. PICK n : n = running[w].cookie
    OBVIOUS
  <2>2. /\ n \in Names /\ awaits'[w] = "done"
        /\ \/ pipe'[w] = <<AddToList(n)>>
           \/ pipe'[w] = <<AddToList(n), SetDesc(n), SetId(n, hash[n])>>
    BY <1>6, <2>1, InsertSends
  <2>3. IdSent(n)'
    <3>1. running'[w] # Idle /\ running'[w].type = "InsertCookie" /\ running'[w].cookie = n
      BY <1>1, <1>6, <2>1 DEF RunsInsert
    <3>2. IdSent(running[w].cookie)'
      BY <2>2, <3>1 DEF SafeInv, InsertedSent
    <3>3. QED
      BY <3>1, <3>2 DEF IdSent, OnItsWay, SetsId
  <2>4. ListSent(n)'
    <3>1. PICK a, d, e : a = AddToList(n) /\ d = SetDesc(n) /\ e = SetId(n, hash[n])
      OBVIOUS
    <3>2. Lists(a, n)
      BY <3>1 DEF Lists, AddToList
    <3>3. 1 \in DOMAIN <<a>> /\ <<a>>[1] = a /\ 1 \in DOMAIN <<a, d, e>> /\ <<a, d, e>>[1] = a
      OBVIOUS
    <3>4. 1 \in DOMAIN pipe'[w] /\ pipe'[w][1] = a
      BY <2>2, <3>1, <3>3
    <3>5. QED
      BY <3>2, <3>4 DEF ListSent, Lists
  <2>5. ASSUME NEW m \in Names, m # n, Registered(m)' PROVE Registered(m)
    BY <1>1, <1>2, <2>1, <2>5 DEF Registered, RunsInsert
  <2>6. ASSUME NEW m \in Names, Registered(m)' PROVE IdSent(m)' /\ ListSent(m)'
    <3>1. CASE m = n
      BY <2>3, <2>4, <3>1
    <3>2. CASE m # n
      <4>1. Registered(m)
        BY <2>5, <2>6, <3>2
      <4>2. IdSent(m) /\ ListSent(m)
        BY <4>1 DEF ListedInv
      <4>3. QED
        BY <1>4, <4>2
    <3>3. QED
      BY <3>1, <3>2
  <2>7. QED
    BY <2>6 DEF ListedInv
<1>7. QED
  BY <1>5, <1>6

LEMMA PutResultListed ==
    ASSUME IInv, ListedInv, NEW w \in Workers, PutResult(w)
    PROVE  ListedInv'
<1>1. /\ UNCHANGED <<awaits, dbid, pipe, ids, listed>>
      /\ running[w] # Idle /\ awaits[w] = "done"
      /\ running' = [running EXCEPT ![w] = Idle]
  BY DEF PutResult, vars, cookieVars, redisVars
<1>2. PICK r : r = [op |-> running[w], id |-> answer[w].id, rows |-> answer[w].rows]
  OBVIOUS
<1>3. r.op = running[w] /\ resultQueue' = [resultQueue EXCEPT ![w] = Append(@, r)]
  BY <1>2 DEF PutResult
<1>4. GameTypes /\ ThreadTypes /\ r \in Result
  <2>1. GameTypes /\ ThreadTypes
    BY DEF IInv
  <2>2. answer[w] \in [id : Keys, rows : Seq(AnyRow)] /\ running[w] \in Op
    BY <1>1, <2>1 DEF ThreadTypes
  <2>3. QED
    BY <1>2, <2>1, <2>2 DEF Result
<1>5. ASSUME NEW n \in Names, NEW x \in Workers, NEW j \in DOMAIN resultQueue'[x],
             resultQueue'[x][j].op.type = "InsertCookie", resultQueue'[x][j].op.cookie = n
      PROVE  Registered(n)
  <2>1. \/ x = w /\ resultQueue'[x][j] = r
        \/ \E i \in DOMAIN resultQueue[x] : resultQueue'[x][j] = resultQueue[x][i]
    <3>1. CASE x = w
      <4>1. resultQueue'[w] = Append(resultQueue[w], r) /\ resultQueue[w] \in Seq(Result)
        BY <1>3, <1>4 DEF GameTypes
      <4>2. QED
        BY <1>4, <1>5, <3>1, <4>1
    <3>2. CASE x # w
      BY <1>3, <1>4, <3>2 DEF GameTypes
    <3>3. QED
      BY <3>1, <3>2
  <2>2. QED
    BY <1>1, <1>3, <1>5, <2>1 DEF Registered, RunsInsert
<1>6. \A x \in Workers : running'[x] # Idle => running'[x] = running[x]
  BY <1>1, <1>4 DEF ThreadTypes
<1>7. \A n \in Names : Registered(n)' => Registered(n)
  BY <1>1, <1>5, <1>6 DEF Registered, RunsInsert
<1>8. QED
  BY <1>1, <1>7, PipesSame, StaysListed

LEMMA InitListed == PipelineInit => ListedInv
<1> SUFFICES ASSUME PipelineInit PROVE ListedInv
  OBVIOUS
<1>1. \A w \in Workers : running[w] = Idle /\ DOMAIN resultQueue[w] = {}
  BY DEF PipelineInit
<1>2. \A n \in Names : dbid[n] = -1
  BY DEF PipelineInit, Init
<1>3. \A n \in Names : ~Registered(n)
  BY <1>1, <1>2 DEF Registered, RunsInsert
<1>4. QED
  BY <1>3 DEF ListedInv

LEMMA NextListed ==
    ASSUME OneThread, IInv, SafeInv, SafeInv', ListedInv, [PipelineNext]_allVars
    PROVE  ListedInv'
<1>1. CASE UNCHANGED allVars
  <2>1. UNCHANGED <<dbid, running, awaits, resultQueue, pipe, ids, listed>>
    BY <1>1 DEF allVars, pipelineVars, threadVars, redisVars, vars, cookieVars
  <2>2. \A n \in Names : Registered(n)' => Registered(n)
    BY <2>1 DEF Registered, RunsInsert
  <2>3. QED
    BY <2>1, <2>2, PipesSame, StaysListed
<1>2. CASE GameStep
  BY <1>2, GameListed
<1>3. ASSUME NEW w \in Workers, RunFrameStep(w) PROVE ListedInv'
  BY <1>3, FrameListed
<1>4. ASSUME NEW w \in Workers, Take(w) \/ Execute(w) \/ Continue(w) \/ PutResult(w)
      PROVE  ListedInv'
  BY <1>4, TakeListed, ExecuteListed, ContinueListed, PutResultListed
<1>5. QED
  BY <1>1, <1>2, <1>3, <1>4 DEF PipelineNext

-----------------------------------------------------------------------------
(* The script finds every cookie the plugins can use: with one query       *)
(* thread, once no operation and no command is under way, a cookie that    *)
(* has an id is in cookies.list, with a description and under the same id. *)
(* With two, the script of a load on one connection may remove a name from *)
(* the list between the SADD and the SET of another (see the README).      *)
THEOREM CookiesListed ==
    ASSUME OneThread
    PROVE  PipelineSpec => []ListedWhenQuiet
<1>1. InOrderOrNoZero
  BY DEF OneThread, InOrderOrNoZero
<1>2. PipelineInit => IInv /\ IdsInv /\ SafeInv /\ ListedInv
  BY InitIInv, InitHashIds, InitSafe, InitListed
<1>3. /\ IInv /\ IdsInv /\ SafeInv /\ ListedInv /\ [PipelineNext]_allVars
      => (IInv /\ IdsInv /\ SafeInv /\ ListedInv)'
  BY <1>1, NextIInv, NextHashIds, NextSafe, NextListed
<1>4. IInv /\ IdsInv /\ SafeInv /\ ListedInv => ListedWhenQuiet
  <2>1. SUFFICES ASSUME IInv, IdsInv, SafeInv, ListedInv, Quiet,
                        NEW n \in cookies, dbid[n] > 0
                 PROVE  n \in listed /\ ids[n] = dbid[n] /\ n \in described
    BY DEF ListedWhenQuiet
  <2>2. n \in Names
    BY <2>1 DEF IInv, ServedInv, TypeOK
  <2>3. \A w \in Workers : DOMAIN pipe[w] = {}
    <3>1. DOMAIN <<>> = {}
      OBVIOUS
    <3>2. QED
      BY <2>1, <3>1 DEF Quiet
  <2>4. ids[n] # Nil /\ n \in listed
    BY <2>1, <2>2, <2>3 DEF ListedInv, Registered, IdSent, OnItsWay, ListSent
  <2>5. dbid[n] # -1
    BY <2>1
  <2>6. ids[n] = hash[n] /\ dbid[n] = hash[n]
    BY <2>1, <2>2, <2>4, <2>5 DEF IdsInv, HashOrNone
  <2>7. n \in described
    BY <2>1, <2>2, <2>4 DEF SafeInv, KnownDescribed
  <2>8. QED
    BY <2>4, <2>6, <2>7
<1>5. QED
  BY <1>2, <1>3, <1>4, PTL DEF PipelineSpec

-----------------------------------------------------------------------------
(***************************************************************************)
(* The values a player is loaded with are the ones saved last.             *)
(*                                                                         *)
(* A load that still has a player waiting for it (Live) is followed        *)
(* through the pipeline by LoadInv.  While it waits nothing is saved for   *)
(* the player, so no save is queued behind it and none is ahead of it once *)
(* a thread runs it; and what the thread has found so far (Gathers) has    *)
(* all that the player is known to have (Holds), or will read it.          *)
(***************************************************************************)
PlayersDistinct ==
    \A c, d \in Slots : player[c] = player[d] /\ player[c] # NoPlayer => c = d

KeptKnown ==
    /\ \A n \in Names : dbid[n] = -1 \/ dbid[n] > 0
    /\ \A p \in Players, n \in Names : Kept(p, n) => dbid[n] > 0

Live(o) == o.type = "SelectData" /\ ClientsWithSerial(o.serial) # {}
IsSave(o, p) == o.type = "InsertData" /\ o.steamId = p

(* Of f, what a player is known to have, rows or the keys to come have all.*)
KeptIn(f, n) == f[n] # Nil /\ f[n].id # -1
InRow(rows, f, n) == \E i \in DOMAIN rows : rows[i].name = n /\ rows[i].value = f[n].value
Holds(rows, f) == \A n \in Names : KeptIn(f, n) => InRow(rows, f, n)
HoldsOrReads(rows, keys, f) ==
    \A n \in Names : KeptIn(f, n) => InRow(rows, f, n) \/ \E j \in DOMAIN keys : keys[j] = n

Gathers(w) ==
    LET f == saved[running[w].steamId] IN
    /\ awaits[w] = "script" /\ reply[w] # <<>> =>
            reply[w][1] = Nil \/ Holds(reply[w][1], f)
    /\ awaits[w] = "keys" /\ reply[w] # <<>> => HoldsOrReads(<<>>, reply[w][1], f)
    /\ awaits[w] \in {"id", "value"} => HoldsOrReads(answer[w].rows, left[w], f)
    /\ awaits[w] = "id" /\ reply[w] # <<>> /\ KeptIn(f, left[w][1]) =>
            reply[w][1] = hash[left[w][1]]
    /\ awaits[w] = "value" /\ KeptIn(f, left[w][1]) =>
            IF reply[w] = <<>> THEN pipe[w][1].id = hash[left[w][1]]
                               ELSE reply[w][1] = f[left[w][1]].value
    /\ awaits[w] = "done" => Holds(answer[w].rows, f)

LoadsQueued ==
    \A i, j \in DOMAIN queryQueue :
        i < j /\ Live(queryQueue[i]) => ~IsSave(queryQueue[j], queryQueue[i].steamId)
LoadsRunning ==
    \A w \in Workers : Loads(w) /\ Live(running[w]) =>
        /\ \A i \in DOMAIN queryQueue : ~IsSave(queryQueue[i], running[w].steamId)
        /\ Gathers(w)
LoadsDone ==
    \A w \in Workers : \A i \in DOMAIN resultQueue[w] :
        Live(resultQueue[w][i].op) =>
            Holds(resultQueue[w][i].rows, saved[resultQueue[w][i].op.steamId])

LoadInv == LoadsQueued /\ LoadsRunning /\ LoadsDone

-----------------------------------------------------------------------------
(* Players and ids.                                                        *)
(* A frame moves nobody and saves nothing.                                 *)
LEMMA FrameSpares ==
    ASSUME IInv, NEW w \in Workers, RunFrameStep(w)
    PROVE  /\ UNCHANGED <<player, serial, authorized, lastSerial, saved>>
           /\ NoSave(ops' \ ops)
<1>1. PICK r : r = Head(resultQueue[w])
  OBVIOUS
<1>2. \/ InsertCookieCallback(r.op, r.id)
      \/ SelectIdCallback(r.op, r.id)
      \/ InsertDataDone(r.op)
      \/ ClientConnectCallback(r.op, r.rows)
  BY <1>1 DEF RunFrameStep
<1>3. UNCHANGED serverVars
  BY <1>2 DEF InsertCookieCallback, SelectIdCallback, InsertDataDone, ClientConnectCallback
<1>4. QED
  BY <1>3, FrameSavesNothing DEF serverVars, RunFrameStep

(* Who is in a slot after a step of the game thread.                       *)
LEMMA GameSlots ==
    ASSUME TypeOK, GameStep
    PROVE  /\ \A c \in Slots : \/ player'[c] = NoPlayer
                               \/ player'[c] = player[c] /\ serial'[c] = serial[c]
                               \/ /\ serial'[c] = lastSerial + 1
                                  /\ \A d \in Slots : player[d] # player'[c]
           /\ \/ UNCHANGED <<player, serial>>
              \/ \E c \in Slots : (\E p : ClientConnect(c, p)) \/ OnClientDisconnecting(c)
<1>1. \/ UNCHANGED <<player, serial>>
      \/ \E c \in Slots : (\E p : ClientConnect(c, p)) \/ OnClientDisconnecting(c)
  BY DEF GameStep, OnClientAuthorized, RegClientCookie, GetClientCookie, SetClientCookie,
         OnMenuSelect, CheckMissed, SetAuthIdCookie, serverVars
<1>2. ASSUME NEW c \in Slots, NEW p, ClientConnect(c, p), NEW d \in Slots
      PROVE  \/ player'[d] = player[d] /\ serial'[d] = serial[d]
             \/ serial'[d] = lastSerial + 1 /\ \A e \in Slots : player[e] # player'[d]
  BY <1>2 DEF ClientConnect, TypeOK
<1>3. ASSUME NEW c \in Slots, OnClientDisconnecting(c), NEW d \in Slots
      PROVE  player'[d] = NoPlayer \/ (player'[d] = player[d] /\ serial'[d] = serial[d])
  BY <1>3 DEF OnClientDisconnecting, TypeOK
<1>4. QED
  BY <1>1, <1>2, <1>3

LEMMA NextDistinct ==
    ASSUME IInv, PlayersDistinct, [PipelineNext]_allVars
    PROVE  PlayersDistinct'
<1>1. TypeOK
  BY DEF IInv, ServedInv
<1>2. CASE UNCHANGED player
  BY <1>2 DEF PlayersDistinct, Slots
<1>3. CASE GameStep
  <2>1. ASSUME NEW c \in Slots, NEW p, ClientConnect(c, p) PROVE PlayersDistinct'
    <3>1. player' = [player EXCEPT ![c] = p] /\ \A d \in Slots : player[d] # p
      BY <2>1 DEF ClientConnect
    <3>2. QED
      BY <1>1, <3>1 DEF PlayersDistinct, TypeOK, Slots
  <2>2. ASSUME NEW c \in Slots, OnClientDisconnecting(c) PROVE PlayersDistinct'
    <3>1. player' = [player EXCEPT ![c] = NoPlayer]
      BY <2>2 DEF OnClientDisconnecting
    <3>2. QED
      BY <1>1, <3>1 DEF PlayersDistinct, TypeOK, Slots
  <2>3. QED
    BY <1>1, <1>2, <1>3, <2>1, <2>2, GameSlots
<1>4. ASSUME NEW w \in Workers, RunFrameStep(w) PROVE player' = player
  BY <1>4, FrameSpares
<1>5. ASSUME NEW w \in Workers, Take(w) \/ Execute(w) \/ Continue(w) \/ PutResult(w)
      PROVE  player' = player
  BY <1>5 DEF Take, Execute, Continue, PutResult, vars, serverVars
<1>6. QED
  BY <1>2, <1>3, <1>4, <1>5 DEF PipelineNext, allVars, vars, serverVars

(* Only a cookie with an id is saved to.                                   *)
LEMMA GameKept ==
    ASSUME GameStep, DOMAIN saved = Players, \A p \in Players : DOMAIN saved[p] = Names,
           NEW p \in Players, NEW n \in Names, Kept(p, n)'
    PROVE  Kept(p, n) \/ dbid[n] # -1
<1>1. CASE saved' = saved
  BY <1>1 DEF Kept
<1>2. ASSUME NEW c \in Slots,
             saved' = [saved EXCEPT ![player[c]] = [m \in Names |-> LastSaved(c, m)]]
      PROVE  Kept(p, n) \/ dbid[n] # -1
  <2>1. saved'[p][n] = saved[p][n] \/ (p = player[c] /\ saved'[p][n] = LastSaved(c, n))
    BY <1>2
  <2>2. LastSaved(c, n) = saved[player[c]][n] \/ LastSaved(c, n).id = dbid[n]
    BY DEF LastSaved
  <2>3. QED
    BY <2>1, <2>2 DEF Kept
<1>3. ASSUME NEW m \in Names, NEW v \in Value,
             saved' = [saved EXCEPT ![v.by][m] = [value |-> v, id |-> dbid[m], absent |-> TRUE]]
      PROVE  Kept(p, n) \/ dbid[n] # -1
  <2>1. PICK r : r = [value |-> v, id |-> dbid[m], absent |-> TRUE]
    OBVIOUS
  <2>2. saved' = [saved EXCEPT ![v.by][m] = r] /\ r.id = dbid[m]
    BY <1>3, <2>1
  <2>3. saved'[p][n] = saved[p][n] \/ (n = m /\ saved'[p][n] = r)
    BY <2>2
  <2>4. QED
    BY <2>2, <2>3 DEF Kept
<1>4. QED
  BY <1>1, <1>2, <1>3 DEF GameStep

LEMMA NextKept ==
    ASSUME IInv, IdsAskedOnce, StoredInv, KeptKnown, [PipelineNext]_allVars
    PROVE  KeptKnown'
<1>1. TypeOK /\ DOMAIN dbid = Names /\ \A n \in Names : dbid[n] \in Int
  BY DEF IInv, ServedInv, TypeOK
<1>2. \A n \in Names : dbid[n] > 0 => dbid'[n] = dbid[n]
  BY <1>1, StepIsManager, IdsKept DEF IdsStay
<1>3. ASSUME NEW n \in Names PROVE dbid'[n] = -1 \/ dbid'[n] > 0
  <2>1. CASE dbid' = dbid
    BY <2>1 DEF KeptKnown
  <2>2. CASE GameStep
    BY <2>1, <2>2, GameStepIsGame, GameKeepsIds
  <2>3. ASSUME NEW w \in Workers, RunFrameStep(w) PROVE dbid'[n] = -1 \/ dbid'[n] > 0
    <3>1. PICK r : r = Head(resultQueue[w])
      OBVIOUS
    <3>2. \/ dbid' = dbid
          \/ r.id > 0 /\ dbid' = [dbid EXCEPT ![r.op.cookie] = r.id]
          \/ dbid' = [dbid EXCEPT ![r.op.cookie] = -1]
      BY <2>3, <3>1, FrameSetsId
    <3>3. QED
      BY <1>1, <3>2 DEF KeptKnown
  <2>4. ASSUME NEW w \in Workers, Take(w) \/ Execute(w) \/ Continue(w) \/ PutResult(w)
        PROVE  dbid' = dbid
    BY <2>4 DEF Take, Execute, Continue, PutResult, vars, cookieVars
  <2>5. QED
    BY <2>1, <2>2, <2>3, <2>4 DEF PipelineNext, allVars, vars, cookieVars
<1>4. ASSUME NEW p \in Players, NEW n \in Names, Kept(p, n)' PROVE dbid'[n] > 0
  <2>1. CASE Kept(p, n)
    BY <1>1, <1>2, <2>1 DEF KeptKnown
  <2>2. CASE ~Kept(p, n)
    <3>1. saved' # saved
      BY <1>4, <2>2 DEF Kept
    <3>2. GameStep
      <4>1. \A w \in Workers : RunFrameStep(w) => saved' = saved
        BY DEF RunFrameStep
      <4>2. \A w \in Workers : Take(w) \/ Execute(w) \/ Continue(w) \/ PutResult(w)
                                  => saved' = saved
        BY DEF Take, Execute, Continue, PutResult
      <4>3. QED
        BY <3>1, <4>1, <4>2 DEF PipelineNext, allVars, pipelineVars
    <3>3. dbid[n] # -1
      BY <1>4, <2>2, <3>2, GameKept DEF StoredInv
    <3>4. QED
      BY <1>1, <1>2, <3>3 DEF KeptKnown
  <2>3. QED
    BY <2>1, <2>2
<1>5. QED
  BY <1>3, <1>4 DEF KeptKnown

-----------------------------------------------------------------------------
(* While a player waits for a load, nothing is saved for them.             *)
LEMMA GameKeepsLive ==
    ASSUME IInv, GameStep, NEW o \in ops, Live(o)'
    PROVE  Live(o)
<1>1. o.type = "SelectData" /\ TypeOK /\ QueriesKnown
  BY DEF Live, IInv, ServedInv
<1>2. PICK c \in Slots : player'[c] # NoPlayer /\ serial'[c] = o.serial
  BY DEF Live, ClientsWithSerial, Slots
<1>3. o.serial <= lastSerial /\ o.serial \in Nat /\ lastSerial \in Nat
  BY <1>1 DEF QueriesKnown, TypeOK, Op, InsertCookieOp, SelectDataOp, InsertDataOp, SelectIdOp
<1>4. player'[c] = player[c] /\ serial'[c] = serial[c]
  <2>1. serial'[c] # lastSerial + 1
    BY <1>2, <1>3
  <2>2. QED
    BY <1>1, <1>2, <2>1, GameSlots
<1>5. c \in ClientsWithSerial(o.serial)
  BY <1>2, <1>4 DEF ClientsWithSerial
<1>6. QED
  BY <1>1, <1>5 DEF Live

LEMMA LiveServed ==
    ASSUME IInv', NEW o \in ops', Live(o)'
    PROVE  \E c \in Slots : /\ player'[c] = o.steamId /\ player'[c] # NoPlayer
                            /\ authorized'[c]
<1>1. o.type = "SelectData"
  BY DEF Live
<1>2. PICK c \in Slots : player'[c] # NoPlayer /\ serial'[c] = o.serial
  BY DEF Live, ClientsWithSerial, Slots
<1>3. o \in SelectsFor(c)'
  BY <1>1, <1>2 DEF SelectsFor
<1>4. SlotInv(c)' /\ AnswersOwn'
  BY DEF IInv, ServedInv, OwnInv, Slots
<1>5. authorized'[c]
  BY <1>2, <1>3, <1>4 DEF SlotInv, Served
<1>6. o.steamId = player'[c]
  BY <1>1, <1>2, <1>4 DEF AnswersOwn, Slots
<1>7. QED
  BY <1>2, <1>5, <1>6

LEMMA GameSpares ==
    ASSUME IInv, IInv', PlayersDistinct, StoredInv, GameStep, NEW o \in ops', Live(o)'
    PROVE  /\ saved'[o.steamId] = saved[o.steamId]
           /\ \A q \in ops' \ ops : ~IsSave(q, o.steamId)
<1>1. TypeOK /\ ops' \subseteq Op /\ DOMAIN saved = Players
  BY DEF IInv, ServedInv, TypeOK, StoredInv
<1>2. PICK c \in Slots : player'[c] = o.steamId /\ player'[c] # NoPlayer /\ authorized'[c]
  BY LiveServed
<1>3. o.steamId \in Players
  BY <1>1, OpFields DEF Live
<1>4. CASE saved' = saved /\ NoSave(ops' \ ops)
  BY <1>4 DEF NoSave, IsSave
<1>5. ASSUME NEW d \in Slots, OnClientDisconnecting(d),
             saved' = [saved EXCEPT ![player[d]] = [n \in Names |-> LastSaved(d, n)]]
      PROVE  /\ saved'[o.steamId] = saved[o.steamId]
             /\ \A q \in ops' \ ops : ~IsSave(q, o.steamId)
  <2>1. c # d /\ player'[c] = player[c]
    BY <1>1, <1>2, <1>5 DEF OnClientDisconnecting, TypeOK
  <2>2. player[d] # o.steamId
    BY <1>2, <1>5, <2>1 DEF PlayersDistinct
  <2>3. PICK S : ops' = ops \cup (SelectOps(S) \cup SaveOps(d))
    BY <1>5 DEF OnClientDisconnecting, Submit
  <2>4. \A q \in SaveOps(d) : q.steamId = player[d]
    BY DEF SaveOps
  <2>5. \A q \in SelectOps(S) : q.type # "InsertData"
    BY NoSaveOps DEF NoSave
  <2>6. saved'[o.steamId] = saved[o.steamId]
    BY <1>1, <1>3, <1>5, <2>2
  <2>7. QED
    BY <2>2, <2>3, <2>4, <2>5, <2>6 DEF IsSave
<1>6. ASSUME NEW m \in Names, NEW v \in Value, SetAuthIdCookie(m, v),
             saved' = IF \E op \in ops' \ ops : op.type = "InsertData"
                      THEN [saved EXCEPT ![v.by][m] =
                              [value |-> v, id |-> dbid[m], absent |-> TRUE]]
                      ELSE saved
      PROVE  /\ saved'[o.steamId] = saved[o.steamId]
             /\ \A q \in ops' \ ops : ~IsSave(q, o.steamId)
  <2>1. player[c] = o.steamId /\ authorized[c]
    BY <1>2, <1>6 DEF SetAuthIdCookie, serverVars
  <2>2. CASE v.by = o.steamId
    <3>1. AttemptReconnection({})
      BY <1>6, <2>1, <2>2 DEF SetAuthIdCookie
    <3>2. NoSave(ops' \ ops)
      BY <3>1, NoSaveOps, ReconnectionSaves
    <3>3. QED
      BY <1>6, <3>2 DEF NoSave, IsSave
  <2>3. CASE v.by # o.steamId
    <3>1. PICK q : q = [id |-> New(MaxClients + 1), type |-> "InsertData",
                        steamId |-> v.by, cookieId |-> dbid[m], value |-> v]
      OBVIOUS
    <3>2. AttemptReconnection({}) \/ AttemptReconnection({q})
      BY <1>6, <3>1 DEF SetAuthIdCookie
    <3>3. q.steamId = v.by
      BY <3>1
    <3>4. \A u \in ops' \ ops : u.type = "InsertData" => u = q
      BY <3>2, ReconnectionSaves
    <3>5. PICK r : r = [value |-> v, id |-> dbid[m], absent |-> TRUE]
      OBVIOUS
    <3>6. saved' = saved \/ saved' = [saved EXCEPT ![v.by][m] = r]
      BY <1>6, <3>5
    <3>7. saved'[o.steamId] = saved[o.steamId]
      BY <1>1, <1>3, <2>3, <3>6
    <3>8. QED
      BY <2>3, <3>3, <3>4, <3>7 DEF IsSave
  <2>4. QED
    BY <2>2, <2>3
<1>7. QED
  BY <1>4, <1>5, <1>6, WhoSaves

(* What the game thread queues behind the loads leaves them as they are.   *)
LEMMA QueueSpares ==
    ASSUME IInv, IInv', LoadInv,
           NEW new \in Seq(ops' \ ops), queryQueue' = queryQueue \o new,
           UNCHANGED <<hash, running, awaits, left, answer, pipe, reply>>,
           \A w \in Workers : \A j \in DOMAIN resultQueue'[w] :
              \E i \in DOMAIN resultQueue[w] : resultQueue'[w][j] = resultQueue[w][i],
           \A o \in ops : Live(o)' => Live(o),
           \A o \in ops' : Live(o)' => /\ saved'[o.steamId] = saved[o.steamId]
                                       /\ \A q \in ops' \ ops : ~IsSave(q, o.steamId)
    PROVE  LoadInv'
<1>1. /\ Placed /\ Placed' /\ queryQueue \in Seq(Op) /\ ops' \subseteq Op
  BY DEF IInv, ServedInv, TypeOK, GameTypes
<1>2. PICK q, L : q = queryQueue /\ L = Len(q)
  OBVIOUS
<1>3. new \in Seq(Op) /\ \A i \in DOMAIN new : new[i] \in ops' \ ops
  <2>1. \A i \in DOMAIN new : new[i] \in ops' \ ops
    OBVIOUS
  <2>2. new \in Seq(Op)
    BY <1>1
  <2>3. QED
    BY <2>1, <2>2
<1>4. /\ L \in Nat /\ DOMAIN q = 1..L /\ DOMAIN new \subseteq Nat
      /\ \A i \in DOMAIN q : i \in DOMAIN queryQueue' /\ queryQueue'[i] = q[i]
      /\ \A i \in DOMAIN new : queryQueue'[L + i] = new[i]
      /\ \A i \in DOMAIN queryQueue' : i \in DOMAIN q \/ (i - L \in DOMAIN new /\ i > L)
      /\ DOMAIN queryQueue' \subseteq Nat
  <2>1. /\ Len(q) \in Nat /\ DOMAIN q = 1..Len(q)
        /\ Len(new) \in Nat /\ DOMAIN new = 1..Len(new)
        /\ \A i \in DOMAIN q : i \in DOMAIN (q \o new) /\ (q \o new)[i] = q[i]
        /\ \A i \in DOMAIN new :
              Len(q) + i \in DOMAIN (q \o new) /\ (q \o new)[Len(q) + i] = new[i]
        /\ \A i \in DOMAIN (q \o new) :
              i \in DOMAIN q \/ (i - Len(q) \in DOMAIN new /\ i > Len(q))
    BY <1>1, <1>2, <1>3, Joined
  <2>2. DOMAIN (q \o new) = 1..(Len(q) + Len(new))
    BY <1>1, <1>2, <1>3, Concatenation
  <2>3. QED
    BY <1>2, <2>1, <2>2
<1>5. ASSUME NEW i \in DOMAIN queryQueue'
      PROVE  \/ i \in DOMAIN q /\ queryQueue'[i] = q[i]
             \/ queryQueue'[i] \in ops' \ ops /\ \A j \in DOMAIN q : j < i
  <2>1. CASE i \in DOMAIN q
    BY <1>4, <2>1
  <2>2. CASE i - L \in DOMAIN new /\ i > L
    <3>1. queryQueue'[L + (i - L)] = new[i - L] /\ i \in Nat /\ L + (i - L) = i
      BY <1>4, <2>2
    <3>2. \A j \in DOMAIN q : j < i
      BY <1>4, <2>2, <3>1
    <3>3. QED
      BY <1>3, <2>2, <3>1, <3>2
  <2>3. QED
    BY <1>4, <2>1, <2>2
<1>6. /\ \A i \in DOMAIN q : q[i] \in ops
      /\ \A i \in DOMAIN queryQueue' : queryQueue'[i] \in ops'
      /\ \A w \in Workers : running[w] # Idle => running[w] \in ops /\ running[w] \in ops'
      /\ \A w \in Workers : \A i \in DOMAIN resultQueue[w] : resultQueue[w][i].op \in ops
      /\ \A w \in Workers : \A i \in DOMAIN resultQueue'[w] : resultQueue'[w][i].op \in ops'
  BY <1>1, <1>2 DEF Placed, QueuedExist, RunningExist, ResultsExist
<1>7. ASSUME NEW i \in DOMAIN queryQueue', NEW j \in DOMAIN queryQueue', i < j,
             NEW o, o = queryQueue'[i], Live(o)'
      PROVE  ~IsSave(queryQueue'[j], o.steamId)
  <2>1. o \in ops'
    BY <1>6, <1>7
  <2>2. CASE queryQueue'[j] \in ops' \ ops
    BY <1>7, <2>1, <2>2
  <2>3. CASE j \in DOMAIN q /\ queryQueue'[j] = q[j]
    <3>1. i \in DOMAIN q /\ queryQueue'[i] = q[i]
      BY <1>4, <1>5, <1>7, <2>3
    <3>2. Live(o) /\ q[i] = o
      BY <1>6, <1>7, <3>1
    <3>3. QED
      BY <1>2, <1>7, <2>3, <3>1, <3>2 DEF LoadInv, LoadsQueued
  <2>4. QED
    BY <1>5, <2>2, <2>3
<1>8. ASSUME NEW w \in Workers, Loads(w)', NEW o, o = running[w], Live(o)'
      PROVE  /\ \A i \in DOMAIN queryQueue' : ~IsSave(queryQueue'[i], o.steamId)
             /\ Gathers(w)'
  <2>1. Loads(w) /\ o \in ops /\ o \in ops' /\ Live(o)
    BY <1>6, <1>8 DEF Loads
  <2>2. Gathers(w) /\ \A i \in DOMAIN q : ~IsSave(q[i], o.steamId)
    BY <1>2, <1>8, <2>1 DEF LoadInv, LoadsRunning
  <2>3. \A i \in DOMAIN queryQueue' : ~IsSave(queryQueue'[i], o.steamId)
    BY <1>5, <1>8, <2>1, <2>2
  <2>4. saved'[o.steamId] = saved[o.steamId]
    BY <1>8, <2>1
  <2>5. Gathers(w)'
    BY <1>8, <2>2, <2>4 DEF Gathers
  <2>6. QED
    BY <2>3, <2>5
<1>9. ASSUME NEW w \in Workers, NEW j \in DOMAIN resultQueue'[w],
             NEW r, r = resultQueue'[w][j], Live(r.op)'
      PROVE  Holds(r.rows, saved'[r.op.steamId])
  <2>1. PICK i \in DOMAIN resultQueue[w] : r = resultQueue[w][i]
    BY <1>9
  <2>2. r.op \in ops /\ r.op \in ops'
    BY <1>6, <1>9, <2>1
  <2>3. Live(r.op) /\ saved'[r.op.steamId] = saved[r.op.steamId]
    BY <1>9, <2>2
  <2>4. QED
    BY <2>1, <2>3 DEF LoadInv, LoadsDone
<1>10. LoadsQueued'
  <2>1. ASSUME NEW i \in DOMAIN queryQueue', NEW j \in DOMAIN queryQueue', i < j,
               Live(queryQueue[i])'
        PROVE  ~IsSave(queryQueue'[j], queryQueue'[i].steamId)
    <3>1. PICK o : o = queryQueue'[i]
      OBVIOUS
    <3>2. Live(o)'
      BY <2>1, <3>1 DEF Live, ClientsWithSerial, Slots
    <3>3. QED
      BY <1>7, <2>1, <3>1, <3>2
  <2>2. QED
    BY <2>1 DEF LoadsQueued, IsSave
<1>11. LoadsRunning'
  BY <1>8 DEF LoadsRunning, Loads, Live, ClientsWithSerial, Slots, IsSave
<1>12. LoadsDone'
  BY <1>9 DEF LoadsDone, Live, ClientsWithSerial, Slots
<1>13. QED
  BY <1>10, <1>11, <1>12 DEF LoadInv

LEMMA GameLoads ==
    ASSUME IInv, PlayersDistinct, StoredInv, LoadInv, GameStep
    PROVE  LoadInv'
<1>1. IInv' /\ IsFiniteSet(ops')
  BY GameStepKeeps DEF IInv
<1>2. UNCHANGED <<hash, running, awaits, left, answer, pipe, reply, resultQueue>> /\ Enqueue
  BY DEF GameStep, given, threadVars
<1>3. PICK new \in Seq(ops' \ ops) : queryQueue' = queryQueue \o new
  BY <1>1, <1>2, EnqueueNew
<1>4. \A o \in ops : Live(o)' => Live(o)
  BY GameKeepsLive
<1>5. \A o \in ops' : Live(o)' => /\ saved'[o.steamId] = saved[o.steamId]
                                  /\ \A q \in ops' \ ops : ~IsSave(q, o.steamId)
  BY <1>1, GameSpares
<1>6. \A w \in Workers : \A j \in DOMAIN resultQueue'[w] :
         \E i \in DOMAIN resultQueue[w] : resultQueue'[w][j] = resultQueue[w][i]
  BY <1>2
<1>7. QED
  BY <1>1, <1>2, <1>3, <1>4, <1>5, <1>6, QueueSpares

LEMMA FrameLoads ==
    ASSUME IInv, LoadInv, NEW w \in Workers, RunFrameStep(w)
    PROVE  LoadInv'
<1>1. IInv' /\ IsFiniteSet(ops')
  BY FrameStepKeeps DEF IInv
<1>2. UNCHANGED <<hash, running, awaits, left, answer, pipe, reply>> /\ Enqueue
  BY DEF RunFrameStep, given, threadVars
<1>3. PICK new \in Seq(ops' \ ops) : queryQueue' = queryQueue \o new
  BY <1>1, <1>2, EnqueueNew
<1>4. UNCHANGED <<player, serial, saved>> /\ NoSave(ops' \ ops)
  BY FrameSpares
<1>5. \A o \in ops : Live(o)' => Live(o)
  BY <1>4 DEF Live, ClientsWithSerial, Slots
<1>6. \A o \in ops' : Live(o)' => /\ saved'[o.steamId] = saved[o.steamId]
                                  /\ \A q \in ops' \ ops : ~IsSave(q, o.steamId)
  BY <1>4 DEF NoSave, IsSave
<1>7. \A x \in Workers : \A j \in DOMAIN resultQueue'[x] :
         \E i \in DOMAIN resultQueue[x] : resultQueue'[x][j] = resultQueue[x][i]
  BY FrameResults DEF IInv
<1>8. QED
  BY <1>1, <1>2, <1>3, <1>5, <1>6, <1>7, QueueSpares

(* What a thread's step must keep.                                         *)
LEMMA StepLoads ==
    ASSUME OneThread, LoadInv, NEW w \in Workers,
           UNCHANGED <<player, serial, saved, queryQueue, running, resultQueue>>,
           \/ ~Loads(w)
           \/ \E i \in DOMAIN queryQueue : IsSave(queryQueue[i], running[w].steamId)
           \/ Gathers(w) => Gathers(w)'
    PROVE  LoadInv'
<1>1. LoadsQueued'
  BY DEF LoadInv, LoadsQueued, Live, ClientsWithSerial, Slots, IsSave
<1>2. LoadsDone'
  BY DEF LoadInv, LoadsDone, Live, ClientsWithSerial, Slots
<1>3. ASSUME NEW x \in Workers, Loads(x)', Live(running[x])'
      PROVE  (\A i \in DOMAIN queryQueue' : ~IsSave(queryQueue'[i], running'[x].steamId))
             /\ Gathers(x)'
  <2>1. x = w /\ Loads(w) /\ Live(running[w])
    BY <1>3 DEF OneThread, Loads, Live, ClientsWithSerial, Slots
  <2>2. (\A i \in DOMAIN queryQueue : ~IsSave(queryQueue[i], running[w].steamId)) /\ Gathers(w)
    BY <2>1 DEF LoadInv, LoadsRunning
  <2>3. Gathers(w)'
    BY <2>1, <2>2
  <2>4. QED
    BY <2>1, <2>2, <2>3
<1>4. LoadsRunning'
  BY <1>3 DEF LoadsRunning, IsSave
<1>5. QED
  BY <1>1, <1>2, <1>4 DEF LoadInv

LEMMA TakeLoads ==
    ASSUME OneThread, IInv, LoadInv, NEW w \in Workers, Take(w)
    PROVE  LoadInv'
<1>1. UNCHANGED <<player, serial, saved, resultQueue>> /\ ThreadTypes
  BY DEF Take, vars, serverVars, IInv
<1>2. PICK q, o : q = queryQueue /\ o = Head(q)
  OBVIOUS
<1>3. q \in Seq(Op) /\ q # <<>> /\ queryQueue' = Tail(q)
  BY <1>2 DEF Take, IInv, GameTypes
<1>4. /\ o = q[1] /\ 1 \in DOMAIN q /\ DOMAIN q \subseteq Nat /\ DOMAIN Tail(q) \subseteq Nat
      /\ \A i \in DOMAIN Tail(q) : i + 1 \in DOMAIN q /\ i + 1 # 1 /\ Tail(q)[i] = q[i + 1]
  BY <1>2, <1>3, Shifted
<1>5. LoadsQueued'
  <2>1. ASSUME NEW i \in DOMAIN Tail(q), NEW j \in DOMAIN Tail(q), i < j, Live(Tail(q)[i])
        PROVE  ~IsSave(Tail(q)[j], Tail(q)[i].steamId)
    <3>1. /\ i + 1 \in DOMAIN q /\ j + 1 \in DOMAIN q /\ i + 1 < j + 1
          /\ Tail(q)[i] = q[i + 1] /\ Tail(q)[j] = q[j + 1]
      BY <1>4, <2>1
    <3>2. QED
      BY <1>2, <2>1, <3>1 DEF LoadInv, LoadsQueued
  <2>2. QED
    BY <1>1, <1>3, <2>1 DEF LoadsQueued, Live, ClientsWithSerial, Slots, IsSave
<1>6. LoadsDone'
  BY <1>1 DEF LoadInv, LoadsDone, Live, ClientsWithSerial, Slots
<1>7. ASSUME NEW x \in Workers, Loads(x)', Live(running[x])'
      PROVE  (\A i \in DOMAIN queryQueue' : ~IsSave(queryQueue'[i], running'[x].steamId))
             /\ Gathers(x)'
  <2>1. x = w /\ running'[w] = o /\ reply'[w] = <<>>
    BY <1>2, TakeSends DEF OneThread
  <2>2. o.type = "SelectData" /\ Live(o)
    BY <1>1, <1>7, <2>1 DEF Loads, Live, ClientsWithSerial, Slots
  <2>3. PICK c : c = EvalSha(o.steamId)
    OBVIOUS
  <2>4. Send(w, <<c>>, "script")
    BY <1>2, <2>2, <2>3 DEF Take
  <2>5. awaits'[w] = "script"
    BY <1>1, <2>4 DEF Send, ThreadTypes
  <2>6. Gathers(w)'
    BY <2>1, <2>5 DEF Gathers
  <2>7. ASSUME NEW i \in DOMAIN Tail(q) PROVE ~IsSave(Tail(q)[i], o.steamId)
    <3>1. i + 1 \in DOMAIN q /\ 1 < i + 1 /\ Tail(q)[i] = q[i + 1]
      BY <1>4
    <3>2. QED
      BY <1>2, <1>4, <2>2, <3>1 DEF LoadInv, LoadsQueued
  <2>8. QED
    BY <1>3, <2>1, <2>6, <2>7
<1>8. LoadsRunning'
  BY <1>7 DEF LoadsRunning, IsSave
<1>9. QED
  BY <1>5, <1>6, <1>8 DEF LoadInv

LEMMA PutResultLoads ==
    ASSUME IInv, LoadInv, NEW w \in Workers, PutResult(w)
    PROVE  LoadInv'
<1>1. /\ UNCHANGED <<player, serial, saved, queryQueue, awaits, left, pipe, reply, hash>>
      /\ running[w] # Idle /\ awaits[w] = "done"
      /\ running' = [running EXCEPT ![w] = Idle]
  BY DEF PutResult, vars, serverVars, given
<1>2. PICK r : r = [op |-> running[w], id |-> answer[w].id, rows |-> answer[w].rows]
  OBVIOUS
<1>3. /\ r.op = running[w] /\ r.rows = answer[w].rows
      /\ resultQueue' = [resultQueue EXCEPT ![w] = Append(@, r)]
  BY <1>2 DEF PutResult
<1>4. GameTypes /\ ThreadTypes /\ r \in Result
  <2>1. GameTypes /\ ThreadTypes
    BY DEF IInv
  <2>2. answer[w] \in [id : Keys, rows : Seq(AnyRow)] /\ running[w] \in Op
    BY <1>1, <2>1 DEF ThreadTypes
  <2>3. QED
    BY <1>2, <2>1, <2>2 DEF Result
<1>5. \A x \in Workers : running'[x] = running[x] \/ (x = w /\ running'[x] = Idle)
  BY <1>1, <1>4 DEF ThreadTypes
<1>6. \A x \in Workers : x # w => answer'[x] = answer[x]
  BY <1>4 DEF PutResult, Finish, ThreadTypes
<1>7. LoadsQueued'
  BY <1>1 DEF LoadInv, LoadsQueued, Live, ClientsWithSerial, Slots, IsSave
<1>8. ASSUME NEW x \in Workers, Loads(x)', Live(running[x])'
      PROVE  (\A i \in DOMAIN queryQueue' : ~IsSave(queryQueue'[i], running'[x].steamId))
             /\ Gathers(x)'
  <2>1. x # w /\ running'[x] = running[x] /\ answer'[x] = answer[x]
    BY <1>1, <1>4, <1>5, <1>6, <1>8 DEF Loads, ThreadTypes
  <2>2. Loads(x) /\ Live(running[x])
    BY <1>1, <1>8, <2>1 DEF Loads, Live, ClientsWithSerial, Slots
  <2>3. (\A i \in DOMAIN queryQueue : ~IsSave(queryQueue[i], running[x].steamId)) /\ Gathers(x)
    BY <2>2 DEF LoadInv, LoadsRunning
  <2>4. Gathers(x)'
    BY <1>1, <2>1, <2>3 DEF Gathers
  <2>5. QED
    BY <1>1, <2>1, <2>3, <2>4
<1>9. LoadsRunning'
  BY <1>8 DEF LoadsRunning, IsSave
<1>10. ASSUME NEW x \in Workers, NEW j \in DOMAIN resultQueue'[x],
              NEW s, s = resultQueue'[x][j], Live(s.op)
       PROVE  Holds(s.rows, saved[s.op.steamId])
  <2>1. \/ x = w /\ s = r
        \/ \E i \in DOMAIN resultQueue[x] : s = resultQueue[x][i]
    <3>1. CASE x = w
      <4>1. resultQueue'[w] = Append(resultQueue[w], r) /\ resultQueue[w] \in Seq(Result)
        BY <1>3, <1>4 DEF GameTypes
      <4>2. QED
        BY <1>4, <1>10, <3>1, <4>1
    <3>2. CASE x # w
      BY <1>3, <1>4, <1>10, <3>2 DEF GameTypes
    <3>3. QED
      BY <3>1, <3>2
  <2>2. CASE x = w /\ s = r
    <3>1. Loads(w) /\ Live(running[w])
      BY <1>1, <1>3, <1>10, <2>2 DEF Loads, Live
    <3>2. Gathers(w)
      BY <3>1 DEF LoadInv, LoadsRunning
    <3>3. Holds(answer[w].rows, saved[running[w].steamId])
      BY <1>1, <3>2 DEF Gathers
    <3>4. QED
      BY <1>3, <2>2, <3>3
  <2>3. CASE \E i \in DOMAIN resultQueue[x] : s = resultQueue[x][i]
    BY <1>10, <2>3 DEF LoadInv, LoadsDone
  <2>4. QED
    BY <2>1, <2>2, <2>3
<1>11. LoadsDone'
  BY <1>1, <1>10 DEF LoadsDone, Live, ClientsWithSerial, Slots
<1>12. QED
  BY <1>7, <1>9, <1>11 DEF LoadInv

-----------------------------------------------------------------------------
(* What Redis replies.                                                     *)

(* With no save of the player's under way, Redis has what they are known   *)
(* to have.                                                                *)
LEMMA KeptFound ==
    ASSUME OneThread, IdsInv, StoredInv, ListedInv, KeptKnown,
           NEW w \in Workers, NEW p \in Players, NEW n \in Names, KeptIn(saved[p], n),
           \A i \in DOMAIN queryQueue : ~IsSave(queryQueue[i], p), OnlyReads(pipe[w])
    PROVE  /\ ids[n] = hash[n] /\ n \in listed \cap Known
           /\ stored[p][hash[n]] = saved[p][n].value
<1>1. Kept(p, n) /\ \A x \in Workers : x = w
  BY DEF Kept, KeptIn, OneThread
<1>2. \A i \in DOMAIN pipe[w] : pipe[w][i].cmd \notin {"SADD", "SET id", "SET value"}
  BY DEF OnlyReads
<1>3. dbid[n] > 0
  BY <1>1 DEF KeptKnown
<1>4. IdSent(n) /\ ListSent(n)
  BY <1>3 DEF ListedInv, Registered
<1>5. ids[n] # Nil /\ n \in listed
  BY <1>1, <1>2, <1>4 DEF IdSent, OnItsWay, SetsId, ListSent, Lists
<1>6. ids[n] = hash[n]
  BY <1>5 DEF IdsInv, HashOrNone
<1>7. Latest(p, hash[n], saved[p][n].value)
  BY <1>1 DEF StoredInv
<1>8. ASSUME NEW v, LastOf(queryQueue, Saves(p, hash[n]), v) PROVE FALSE
  BY <1>8 DEF LastOf, Saves, IsSave
<1>9. ASSUME NEW v, NEW x \in Workers, LastOf(pipe[x], Sets(p, hash[n]), v) PROVE FALSE
  BY <1>1, <1>2, <1>9 DEF LastOf, Sets
<1>10. stored[p][hash[n]] = saved[p][n].value
  BY <1>7, <1>8, <1>9 DEF Latest
<1>11. QED
  BY <1>5, <1>6, <1>10 DEF Known

(* The script's rows and the keys have all of it.                          *)
LEMMA ScriptFinds ==
    ASSUME RedisTypes, NEW p \in Players, NEW f,
           \A n \in Names : KeptIn(f, n) => /\ n \in listed \cap Known
                                            /\ stored[p][ids[n]] = f[n].value,
           NEW a \in Answers(EvalSha(p))
    PROVE  a = Nil \/ Holds(a, f)
<1> DEFINE S == listed \cap Known
           g == [n \in S |-> [name |-> n, value |-> stored[p][ids[n]],
                               desc |-> n \in described]]
<1>1. IsFiniteSet(S)
  <2>1. S \subseteq Names
    BY DEF Known
  <2>2. QED
    BY <2>1, PipelineAssumption, FS_Subset
<1>2. ScriptRows(p) = {g[n] : n \in S}
  BY DEF ScriptRows
<1>3. DOMAIN g = S /\ \A n \in S : g[n].name = n /\ g[n].value = stored[p][ids[n]]
  OBVIOUS
<1> HIDE DEF S, g
<1>4. IsFiniteSet({g[n] : n \in S})
  BY <1>1, <1>3, ImageFinite
<1>5. a = Nil \/ a \in SetToSeqs(ScriptRows(p))
  BY DEF Answers, EvalSha
<1>6. ASSUME a \in SetToSeqs(ScriptRows(p)), NEW n \in Names, KeptIn(f, n)
      PROVE  InRow(a, f, n)
  <2>1. n \in S /\ stored[p][ids[n]] = f[n].value
    BY <1>6 DEF S
  <2>2. PICK x : x = g[n]
    OBVIOUS
  <2>3. x \in ScriptRows(p) /\ x.name = n /\ x.value = f[n].value
    BY <1>2, <1>3, <2>1, <2>2
  <2>4. PICK i \in DOMAIN a : a[i] = x
    BY <1>2, <1>4, <1>6, <2>3, AllListed
  <2>5. QED
    BY <2>3, <2>4 DEF InRow
<1>7. QED
  BY <1>5, <1>6 DEF Holds

LEMMA KeysFind ==
    ASSUME NEW f, \A n \in Names : KeptIn(f, n) => n \in Known, NEW a \in Answers(GetKeys)
    PROVE  HoldsOrReads(<<>>, a, f)
<1>1. IsFiniteSet(Known)
  <2>1. Known \subseteq Names
    BY DEF Known
  <2>2. QED
    BY <2>1, PipelineAssumption, FS_Subset
<1>2. a \in SetToSeqs(Known)
  BY DEF Answers, GetKeys
<1>3. QED
  BY <1>1, <1>2, AllListed DEF HoldsOrReads

(* The command that a load waits for, alone on the connection.             *)
LEMMA ReadAlone ==
    ASSUME IInv, NEW w \in Workers, pipe[w] # <<>>, Head(pipe[w]) \in Read,
           NEW c, NEW good, Asked(w, c, good)
    PROVE  reply[w] = <<>> /\ pipe[w] = <<c>>
<1>1. PICK s, h : s = pipe[w] /\ h = Head(s)
  OBVIOUS
<1>2. s \in Seq(Read \cup Write) /\ s # <<>> /\ h \in Read
  BY <1>1 DEF IInv, ThreadTypes
<1>3. reply[w] = <<>> /\ EndsWith(s, c)
  BY <1>1 DEF Asked
<1>4. h = c /\ s = <<h>>
  BY <1>1, <1>2, <1>3, LastIsRead
<1>5. QED
  BY <1>1, <1>3, <1>4

LEMMA ExecuteGathers ==
    ASSUME OneThread, IInv, IdsInv, StoredInv, ListedInv, KeptKnown,
           NEW w \in Workers, Execute(w), Loads(w), Gathers(w),
           \A i \in DOMAIN queryQueue : ~IsSave(queryQueue[i], running[w].steamId)
    PROVE  Gathers(w)'
<1>1. PICK c, p, f, n : /\ c = Head(pipe[w]) /\ p = running[w].steamId
                        /\ f = saved[p] /\ n = left[w][1]
  OBVIOUS
<1>2. /\ UNCHANGED <<running, awaits, left, answer, hash, saved>>
      /\ pipe' = [pipe EXCEPT ![w] = Tail(@)] /\ pipe[w] # <<>>
  BY DEF Execute, given
<1>3. /\ RedisTypes /\ ThreadTypes /\ ThreadOK(w) /\ pipe[w] \in Seq(Read \cup Write)
      /\ running[w] \in Op /\ p \in Players
  BY <1>1, OpFields DEF IInv, ThreadTypes, Loads
<1>4. c \in Read \cup Write /\ (AllWrites(pipe[w]) => c \in Write) /\ ~(c \in Read /\ c \in Write)
  BY <1>1, <1>2, <1>3, HeadAndTail, ReadOrWrite
<1>5. running'[w].steamId = p /\ saved'[p] = f /\ left'[w][1] = n
  BY <1>1, <1>2
<1>6. SUFFICES
        /\ awaits[w] = "script" /\ reply'[w] # <<>> =>
                reply'[w][1] = Nil \/ Holds(reply'[w][1], f)
        /\ awaits[w] = "keys" /\ reply'[w] # <<>> => HoldsOrReads(<<>>, reply'[w][1], f)
        /\ awaits[w] = "id" /\ reply'[w] # <<>> /\ KeptIn(f, n) => reply'[w][1] = hash[n]
        /\ awaits[w] = "value" /\ KeptIn(f, n) =>
                IF reply'[w] = <<>> THEN pipe'[w][1].id = hash[n]
                                    ELSE reply'[w][1] = f[n].value
  BY <1>1, <1>2, <1>5 DEF Gathers
<1>7. /\ awaits[w] = "script" /\ reply[w] # <<>> => reply[w][1] = Nil \/ Holds(reply[w][1], f)
      /\ awaits[w] = "keys" /\ reply[w] # <<>> => HoldsOrReads(<<>>, reply[w][1], f)
      /\ awaits[w] = "id" /\ reply[w] # <<>> /\ KeptIn(f, n) => reply[w][1] = hash[n]
      /\ awaits[w] = "value" /\ KeptIn(f, n) =>
              IF reply[w] = <<>> THEN pipe[w][1].id = hash[n]
                                 ELSE reply[w][1] = f[n].value
  BY <1>1 DEF Gathers
<1>8. CASE c \in Write
  <2>1. reply' = reply
    BY <1>1, <1>2, <1>3, <1>8, WriteExecuted
  <2>2. awaits[w] = "value" => FALSE
    <3>1. SUFFICES ASSUME awaits[w] = "value" PROVE FALSE
      OBVIOUS
    <3>2. ValueAsked(w, p, n)
      BY <1>1, <1>3, <3>1 DEF ThreadOK, Resting, Answered, AsksForId, RunsScript,
                              AsksForKeys, AsksForKeyId, AsksForValue
    <3>3. PICK id, d, e : /\ d = GetValue(p, id) /\ e = GetDesc(n)
                          /\ pipe[w] = <<d, e>> \/ pipe[w] = <<e>>
      BY <1>2, <3>2 DEF ValueAsked
    <3>4. c = d \/ c = e
      BY <1>1, <3>3
    <3>5. d.cmd = "GET value" /\ e.cmd = "GET desc"
      BY <3>3 DEF GetValue, GetDesc
    <3>6. QED
      BY <1>8, <3>4, <3>5, ReadOrWrite
  <2>3. QED
    BY <1>7, <2>1, <2>2
<1>9. CASE c \in Read
  <2>1. PICK a \in Answers(c) : reply' = [reply EXCEPT ![w] = Append(@, a)]
    BY <1>1, <1>2, <1>3, <1>9, ReadExecuted
  <2>2. reply'[w] = Append(reply[w], a)
    BY <1>3, <2>1 DEF ThreadTypes
  <2>3. ASSUME OnlyReads(pipe[w]), NEW m \in Names, KeptIn(f, m)
        PROVE  ids[m] = hash[m] /\ m \in listed \cap Known /\ stored[p][hash[m]] = f[m].value
    BY <1>1, <1>3, <2>3, KeptFound
  <2>4. ASSUME NEW q, NEW good, Asked(w, q, good)
        PROVE  reply'[w] = <<a>> /\ pipe[w] = <<q>> /\ c = q
    <3>1. reply[w] = <<>> /\ pipe[w] = <<q>>
      BY <1>1, <1>2, <1>9, <2>4, ReadAlone
    <3>2. QED
      BY <1>1, <2>2, <3>1
  <2>5. CASE RunsScript(w)
    <3>1. PICK q : q = EvalSha(p)
      OBVIOUS
    <3>2. reply'[w] = <<a>> /\ pipe[w] = <<q>> /\ c = q
      BY <1>1, <2>4, <2>5, <3>1 DEF RunsScript
    <3>3. OnlyReads(pipe[w])
      <4>1. q.cmd = "EVALSHA"
        BY <3>1 DEF EvalSha
      <4>2. \A i \in DOMAIN <<q>> : <<q>>[i] = q
        OBVIOUS
      <4>3. QED
        BY <3>2, <4>1, <4>2 DEF OnlyReads
    <3>4. a = Nil \/ Holds(a, f)
      BY <1>3, <2>3, <3>1, <3>2, <3>3, ScriptFinds
    <3>5. awaits[w] = "script" /\ reply'[w][1] = a
      BY <2>5, <3>2 DEF RunsScript
    <3>6. QED
      BY <3>4, <3>5
  <2>6. CASE AsksForKeys(w)
    <3>1. reply'[w] = <<a>> /\ pipe[w] = <<GetKeys>> /\ c = GetKeys
      BY <2>4, <2>6 DEF AsksForKeys
    <3>2. OnlyReads(pipe[w])
      BY <3>1, SmallReads
    <3>3. HoldsOrReads(<<>>, a, f)
      BY <2>3, <3>1, <3>2, KeysFind
    <3>4. awaits[w] = "keys" /\ reply'[w][1] = a
      BY <2>6, <3>1 DEF AsksForKeys
    <3>5. QED
      BY <3>3, <3>4
  <2>7. CASE AsksForKeyId(w)
    <3>1. PICK q : q = GetId(n)
      OBVIOUS
    <3>2. reply'[w] = <<a>> /\ pipe[w] = <<q>> /\ c = q
      BY <1>1, <2>4, <2>7, <3>1 DEF AsksForKeyId
    <3>3. OnlyReads(pipe[w])
      BY <3>1, <3>2, SmallReads
    <3>4. n \in Names
      BY <1>1, <2>7 DEF AsksForKeyId, SlowPath, KeyLists
    <3>5. a = ids[n]
      BY <3>1, <3>2 DEF Answers, GetId
    <3>6. KeptIn(f, n) => a = hash[n]
      BY <2>3, <3>3, <3>4, <3>5
    <3>7. awaits[w] = "id" /\ reply'[w][1] = a
      BY <2>7, <3>2 DEF AsksForKeyId
    <3>8. QED
      BY <3>6, <3>7
  <2>8. CASE AsksForValue(w)
    <3>1. awaits[w] = "value" /\ ValueAsked(w, p, n) /\ n \in Names
      BY <1>1, <2>8 DEF AsksForValue, SlowPath, KeyLists
    <3>2. SUFFICES ASSUME KeptIn(f, n)
                   PROVE  reply'[w] # <<>> /\ reply'[w][1] = f[n].value
      BY <3>1
    <3>3. ASSUME reply[w] = <<>>, NEW id \in CookieIds, pipe[w] = <<GetValue(p, id), GetDesc(n)>>
          PROVE  reply'[w] # <<>> /\ reply'[w][1] = f[n].value
      <4>1. PICK d, e : d = GetValue(p, id) /\ e = GetDesc(n)
        OBVIOUS
      <4>2. pipe[w] = <<d, e>> /\ pipe[w][1] = d /\ c = d
        BY <1>1, <3>3, <4>1
      <4>3. d.id = id /\ d.steamId = p /\ d.cmd = "GET value"
        BY <4>1 DEF GetValue
      <4>4. id = hash[n]
        BY <1>7, <3>1, <3>2, <3>3, <4>2, <4>3
      <4>5. a = stored[p][id]
        BY <4>2, <4>3 DEF Answers
      <4>6. OnlyReads(pipe[w])
        BY <4>1, <4>2, SmallReads
      <4>7. a = f[n].value
        BY <2>3, <3>1, <3>2, <4>4, <4>5, <4>6
      <4>8. reply'[w] = <<a>>
        BY <2>2, <3>3
      <4>9. QED
        BY <4>7, <4>8
    <3>4. ASSUME NEW v, reply[w] = <<v>>
          PROVE  reply'[w] # <<>> /\ reply'[w][1] = f[n].value
      <4>1. reply'[w] = <<v, a>>
        BY <2>2, <3>4, TwoReplies
      <4>2. reply[w] # <<>> /\ reply[w][1] = v
        BY <3>4
      <4>3. v = f[n].value
        BY <1>7, <3>1, <3>2, <4>2
      <4>4. QED
        BY <4>1, <4>3
    <3>5. QED
      BY <1>2, <3>1, <3>3, <3>4 DEF ValueAsked
  <2>9. QED
    BY <1>3, <1>4, <1>9, <2>5, <2>6, <2>7, <2>8
       DEF ThreadOK, Resting, Answered, AsksForId, Loads
<1>10. QED
  BY <1>4, <1>8, <1>9

LEMMA ExecuteLoads ==
    ASSUME OneThread, IInv, IdsInv, StoredInv, ListedInv, KeptKnown, LoadInv,
           NEW w \in Workers, Execute(w)
    PROVE  LoadInv'
<1>1. UNCHANGED <<player, serial, saved, queryQueue, running, resultQueue>>
  BY DEF Execute, vars, serverVars
<1>2. \/ ~Loads(w)
      \/ \E i \in DOMAIN queryQueue : IsSave(queryQueue[i], running[w].steamId)
      \/ Gathers(w) => Gathers(w)'
  BY ExecuteGathers
<1>3. QED
  BY <1>1, <1>2, StepLoads

-----------------------------------------------------------------------------
(* What the thread makes of the replies.                                   *)
LEMMA HashesExist == GameTypes => \A n \in Names : hash[n] # Nil
<1>1. \A k \in CookieIds : k \in Int
  BY ConstantsAssumption
<1>2. QED
  BY <1>1, PipelineAssumption DEF GameTypes

LEMMA OneKeyRead ==
    ASSUME NEW keys \in Seq(Names), keys # <<>>, NEW rows, NEW f, HoldsOrReads(rows, keys, f),
           KeptIn(f, keys[1]) => InRow(rows, f, keys[1])
    PROVE  HoldsOrReads(rows, Tail(keys), f)
<1>1. \A j \in DOMAIN keys : j # 1 => j - 1 \in DOMAIN Tail(keys) /\ Tail(keys)[j - 1] = keys[j]
  BY Shifted
<1>2. ASSUME NEW n \in Names, KeptIn(f, n), ~InRow(rows, f, n)
      PROVE  \E j \in DOMAIN Tail(keys) : Tail(keys)[j] = n
  <2>1. PICK j \in DOMAIN keys : keys[j] = n
    BY <1>2 DEF HoldsOrReads
  <2>2. j # 1
    BY <1>2, <2>1
  <2>3. QED
    BY <1>1, <2>1, <2>2
<1>3. QED
  BY <1>2 DEF HoldsOrReads

LEMMA OneRowMore ==
    ASSUME NEW rows \in Seq(AnyRow), NEW r \in AnyRow, NEW f
    PROVE  /\ \A n : InRow(rows, f, n) => InRow(Append(rows, r), f, n)
           /\ \A n : r.name = n /\ r.value = f[n].value => InRow(Append(rows, r), f, n)
<1>1. PICK t : t = Append(rows, r)
  OBVIOUS
<1>2. /\ Len(rows) + 1 \in DOMAIN t /\ t[Len(rows) + 1] = r
      /\ \A i \in DOMAIN rows : i \in DOMAIN t /\ t[i] = rows[i]
  BY <1>1
<1>3. QED
  BY <1>1, <1>2 DEF InRow

LEMMA NextKeyGathers ==
    ASSUME ThreadTypes, NEW w \in Workers, NEW keys, NextKey(w, keys), NEW rows, NEW f,
           HoldsOrReads(rows, keys, f), answer'[w].rows = rows,
           saved'[running'[w].steamId] = f
    PROVE  Gathers(w)'
<1>1. left'[w] = keys
  BY DEF NextKey, ThreadTypes
<1>2. CASE keys = <<>>
  <2>1. awaits'[w] = "done"
    BY <1>2 DEF NextKey, Send, ThreadTypes
  <2>2. Holds(rows, f)
    <3>1. DOMAIN keys = {}
      BY <1>2
    <3>2. QED
      BY <3>1 DEF HoldsOrReads, Holds
  <2>3. QED
    BY <2>1, <2>2 DEF Gathers
<1>3. CASE keys # <<>>
  <2>1. PICK c : c = GetId(keys[1])
    OBVIOUS
  <2>2. Send(w, <<c>>, "id")
    BY <1>3, <2>1 DEF NextKey
  <2>3. awaits'[w] = "id" /\ reply'[w] = <<>>
    BY <2>2 DEF Send, ThreadTypes
  <2>4. QED
    BY <1>1, <2>3 DEF Gathers
<1>4. QED
  BY <1>2, <1>3

LEMMA ContinueGathers ==
    ASSUME IInv, NEW w \in Workers, Continue(w), Loads(w), Gathers(w)
    PROVE  Gathers(w)'
<1>1. PICK f, n, a, rows : /\ f = saved[running[w].steamId] /\ n = left[w][1]
                           /\ a = reply[w][1] /\ rows = answer[w].rows
  OBVIOUS
<1>2. /\ UNCHANGED <<running, hash, saved>> /\ saved'[running'[w].steamId] = f
      /\ ThreadTypes /\ GameTypes /\ ThreadOK(w) /\ pipe[w] = <<>>
      /\ ~InsertCookieThread(w) /\ ~SelectIdThread(w)
  BY <1>1, NothingSent DEF Continue, given, IInv, Loads, RunsInsert, SelectIdThread
<1>3. /\ awaits[w] = "script" /\ reply[w] # <<>> => a = Nil \/ Holds(a, f)
      /\ awaits[w] = "keys" /\ reply[w] # <<>> => HoldsOrReads(<<>>, a, f)
      /\ awaits[w] \in {"id", "value"} => HoldsOrReads(rows, left[w], f)
      /\ awaits[w] = "id" /\ reply[w] # <<>> /\ KeptIn(f, n) => a = hash[n]
      /\ awaits[w] = "value" /\ reply[w] # <<>> /\ KeptIn(f, n) => a = f[n].value
  BY <1>1 DEF Gathers
<1>4. rows \in Seq(AnyRow) /\ answer[w] = [id |-> answer[w].id, rows |-> rows]
  BY <1>1, <1>2 DEF ThreadTypes
<1>5. ASSUME NEW cs, NEW what, Send(w, cs, what)
      PROVE  awaits'[w] = what /\ reply'[w] = <<>> /\ pipe'[w] = pipe[w] \o cs
  BY <1>2, <1>5 DEF Send, ThreadTypes
<1>6. CASE ScriptReply(w)
  <2>1. awaits[w] = "script" /\ reply[w] # <<>> /\ (a = Nil \/ Holds(a, f))
    BY <1>3, <1>6 DEF ScriptReply
  <2>2. CASE a = Nil
    <3>1. Send(w, <<GetKeys>>, "keys") \/ (awaits' = awaits /\ reply' = reply)
      BY <1>1, <1>6, <2>2 DEF ScriptReply
    <3>2. CASE Send(w, <<GetKeys>>, "keys")
      <4>1. awaits'[w] = "keys" /\ reply'[w] = <<>>
        BY <1>5, <3>2
      <4>2. QED
        BY <4>1 DEF Gathers
    <3>3. CASE awaits' = awaits /\ reply' = reply
      BY <1>1, <2>1, <2>2, <3>3 DEF Gathers
    <3>4. QED
      BY <3>1, <3>2, <3>3
  <2>3. CASE a # Nil
    <3>1. PICK t : t = [i \in DOMAIN a |-> Row(a[i])]
      OBVIOUS
    <3>2. \/ Send(w, <<>>, "done") /\ Finish(w, -1, t)
          \/ awaits' = awaits /\ reply' = reply
      BY <1>1, <1>6, <2>3, <3>1 DEF ScriptReply
    <3>3. CASE Send(w, <<>>, "done") /\ Finish(w, -1, t)
      <4>1. awaits'[w] = "done" /\ answer'[w].rows = t
        BY <1>2, <1>5, <3>3 DEF Finish, ThreadTypes
      <4>2. \A i \in DOMAIN a : i \in DOMAIN t /\ t[i].name = a[i].name /\ t[i].value = a[i].value
        BY <3>1 DEF Row
      <4>3. Holds(t, f)
        BY <2>1, <2>3, <4>2 DEF Holds, InRow
      <4>4. QED
        BY <1>2, <4>1, <4>3 DEF Gathers
    <3>4. CASE awaits' = awaits /\ reply' = reply
      BY <1>1, <1>2, <2>1, <2>3, <3>4 DEF Gathers
    <3>5. QED
      BY <3>2, <3>3, <3>4
  <2>4. QED
    BY <2>2, <2>3
<1>7. CASE KeysReply(w)
  <2>1. NextKey(w, a) /\ answer' = answer /\ HoldsOrReads(<<>>, a, f) /\ AsksForKeys(w)
    BY <1>1, <1>2, <1>3, <1>7
       DEF KeysReply, ThreadOK, Resting, Answered, AsksForId, RunsScript, AsksForKeyId,
           AsksForValue
  <2>2. answer'[w].rows = <<>>
    BY <2>1 DEF AsksForKeys, NoAnswer
  <2>3. QED
    BY <1>2, <2>1, <2>2, NextKeyGathers
<1>8. CASE KeyIdReply(w)
  <2>1. /\ awaits[w] = "id" /\ reply[w] # <<>> /\ answer' = answer /\ SlowPath(w)
        /\ HoldsOrReads(rows, left[w], f) /\ (KeptIn(f, n) => a = hash[n])
    BY <1>2, <1>3, <1>8
       DEF KeyIdReply, Loads, ThreadOK, Resting, Answered, AsksForId, RunsScript,
           AsksForKeys, AsksForKeyId, AsksForValue
  <2>2. left[w] \in Seq(Names) /\ left[w] # <<>> /\ n \in Names
    BY <1>1, <2>1 DEF SlowPath, KeyLists
  <2>3. answer'[w].rows = rows
    BY <1>1, <2>1
  <2>4. CASE a = Nil
    <3>1. NextKey(w, Tail(left[w]))
      BY <1>1, <1>8, <2>4 DEF KeyIdReply
    <3>2. ~KeptIn(f, n)
      BY <1>2, <2>1, <2>2, <2>4, HashesExist
    <3>3. HoldsOrReads(rows, Tail(left[w]), f)
      BY <1>1, <2>1, <2>2, <3>2, OneKeyRead
    <3>4. QED
      BY <1>2, <2>3, <3>1, <3>3, NextKeyGathers
  <2>5. CASE a # Nil
    <3>1. PICK c, d : c = GetValue(running[w].steamId, a) /\ d = GetDesc(n)
      OBVIOUS
    <3>2. Send(w, <<c, d>>, "value") /\ left' = left
      BY <1>1, <1>8, <2>5, <3>1 DEF KeyIdReply
    <3>3. awaits'[w] = "value" /\ reply'[w] = <<>> /\ pipe'[w] = pipe[w] \o <<c, d>>
      BY <1>5, <3>2
    <3>4. pipe'[w][1] = c
      BY <1>2, <3>3
    <3>5. c.id = a
      BY <3>1 DEF GetValue
    <3>6. left'[w] = left[w] /\ left'[w][1] = n
      BY <1>1, <3>2
    <3>7. QED
      BY <1>1, <1>2, <2>1, <2>3, <3>3, <3>4, <3>5, <3>6 DEF Gathers
  <2>6. QED
    BY <2>4, <2>5
<1>9. CASE ValueReply(w)
  <2>1. awaits[w] = "value" /\ Len(reply[w]) = 2 /\ AsksForValue(w)
    BY <1>2, <1>9
       DEF ValueReply, ThreadOK, Resting, Answered, AsksForId, RunsScript, AsksForKeys,
           AsksForKeyId, AsksForValue
  <2>2. /\ left[w] \in Seq(Names) /\ left[w] # <<>> /\ n \in Names /\ reply[w] # <<>>
        /\ a \in Value \cup {Empty}
    <3>1. \E v \in Stored(running[w].steamId), d \in BOOLEAN : reply[w] = <<v, d>>
      BY <2>1 DEF AsksForValue, ValueAsked
    <3>2. QED
      BY <1>1, <2>1, <3>1 DEF AsksForValue, SlowPath, KeyLists, Stored
  <2>3. HoldsOrReads(rows, left[w], f) /\ (KeptIn(f, n) => a = f[n].value)
    BY <1>3, <2>1, <2>2
  <2>4. PICK r : r = [name |-> n, value |-> a]
    OBVIOUS
  <2>5. r \in AnyRow /\ r.name = n /\ r.value = a
    BY <2>2, <2>4 DEF AnyRow
  <2>6. \/ /\ NextKey(w, Tail(left[w]))
           /\ answer' = [answer EXCEPT ![w].rows = Append(@, r)]
        \/ UNCHANGED <<left, answer, pipe, awaits, reply>>
    BY <1>1, <1>9, <2>4 DEF ValueReply
  <2>7. CASE /\ NextKey(w, Tail(left[w]))
             /\ answer' = [answer EXCEPT ![w].rows = Append(@, r)]
    <3>1. answer'[w].rows = Append(rows, r)
      BY <1>1, <1>2, <2>7 DEF ThreadTypes
    <3>2. HoldsOrReads(Append(rows, r), left[w], f) /\
          (KeptIn(f, n) => InRow(Append(rows, r), f, n))
      BY <1>4, <2>3, <2>5, OneRowMore DEF HoldsOrReads
    <3>3. HoldsOrReads(Append(rows, r), Tail(left[w]), f)
      BY <1>1, <2>2, <3>2, OneKeyRead
    <3>4. QED
      BY <1>2, <2>7, <3>1, <3>3, NextKeyGathers
  <2>8. CASE UNCHANGED <<left, answer, pipe, awaits, reply>>
    BY <1>2, <2>8 DEF Gathers
  <2>9. QED
    BY <2>6, <2>7, <2>8
<1>10. QED
  BY <1>2, <1>6, <1>7, <1>8, <1>9 DEF Continue

LEMMA ContinueLoads ==
    ASSUME OneThread, IInv, LoadInv, NEW w \in Workers, Continue(w)
    PROVE  LoadInv'
<1>1. UNCHANGED <<player, serial, saved, queryQueue, running, resultQueue>>
  BY DEF Continue, vars, serverVars
<1>2. ~Loads(w) \/ (Gathers(w) => Gathers(w)')
  BY ContinueGathers
<1>3. QED
  BY <1>1, <1>2, StepLoads

-----------------------------------------------------------------------------
LEMMA InitLoads == PipelineInit => LoadInv /\ PlayersDistinct /\ KeptKnown
<1> SUFFICES ASSUME PipelineInit PROVE LoadInv /\ PlayersDistinct /\ KeptKnown
  OBVIOUS
<1>1. PlayersDistinct /\ KeptKnown
  <2>1. \A p \in Players, n \in Names : saved[p][n] = Nil
    BY DEF PipelineInit
  <2>2. \A n \in Names : dbid[n] = -1
    BY DEF PipelineInit, Init
  <2>3. PlayersDistinct
    BY DEF PipelineInit, Init, PlayersDistinct
  <2>4. QED
    BY <2>1, <2>2, <2>3 DEF KeptKnown, Kept
<1>2. \A i \in DOMAIN queryQueue : queryQueue[i].type = "SelectData"
  <2>1. \A i \in DOMAIN queryQueue : queryQueue[i] \in ops
    BY InitIInv DEF IInv, Placed, QueuedExist
  <2>2. \A op \in ops : op.type = "SelectData"
    BY DEF PipelineInit, Init
  <2>3. QED
    BY <2>1, <2>2
<1>3. \A w \in Workers : running[w] = Idle /\ DOMAIN resultQueue[w] = {}
  BY DEF PipelineInit
<1>4. QED
  BY <1>1, <1>2, <1>3 DEF LoadInv, LoadsQueued, LoadsRunning, LoadsDone, Loads, IsSave

LEMMA NextLoads ==
    ASSUME OneThread, IInv, IdsInv, StoredInv, ListedInv, PlayersDistinct, KeptKnown, LoadInv,
           [PipelineNext]_allVars
    PROVE  LoadInv'
<1>1. CASE UNCHANGED allVars
  <2>1. UNCHANGED <<player, serial, saved, hash, queryQueue, running, awaits, left, answer,
                    pipe, reply, resultQueue>>
    BY <1>1 DEF allVars, pipelineVars, given, threadVars, vars, serverVars
  <2>2. \A w \in Workers : Gathers(w) => Gathers(w)'
    BY <2>1 DEF Gathers
  <2>3. QED
    BY <2>1, <2>2 DEF LoadInv, LoadsQueued, LoadsRunning, LoadsDone, Loads, Live,
                      ClientsWithSerial, Slots, IsSave
<1>2. CASE GameStep
  BY <1>2, GameLoads
<1>3. ASSUME NEW w \in Workers, RunFrameStep(w) PROVE LoadInv'
  BY <1>3, FrameLoads
<1>4. ASSUME NEW w \in Workers, Take(w) \/ Execute(w) \/ Continue(w) \/ PutResult(w)
      PROVE  LoadInv'
  BY <1>4, TakeLoads, ExecuteLoads, ContinueLoads, PutResultLoads
<1>5. QED
  BY <1>1, <1>2, <1>3, <1>4 DEF PipelineNext

-----------------------------------------------------------------------------
(* Only an answer loads a player, and its rows are then what they see.     *)
LEMMA OnlyAnswersLoad ==
    ASSUME IInv, [PipelineNext]_allVars, NEW c \in Slots, ~statsLoaded[c], statsLoaded'[c]
    PROVE  \E w \in Workers : /\ RunFrameStep(w)
                              /\ LET r == Head(resultQueue[w])
                                 IN  /\ ClientConnectCallback(r.op, r.rows)
                                     /\ c \in ClientsWithSerial(r.op.serial)
<1>1. TypeOK
  BY DEF IInv, ServedInv
<1>2. CASE UNCHANGED statsLoaded
  BY <1>2
<1>3. CASE GameStep
  <2>1. \/ UNCHANGED statsLoaded
        \/ \E d \in Slots : statsLoaded' = [statsLoaded EXCEPT ![d] = FALSE]
    BY <1>3 DEF GameStep, ClientConnect, OnClientAuthorized, OnClientDisconnecting,
                RegClientCookie, GetClientCookie, SetClientCookie, OnMenuSelect, CheckMissed,
                SetAuthIdCookie, flagVars, AttemptReconnection
  <2>2. QED
    BY <1>1, <2>1 DEF TypeOK
<1>4. ASSUME NEW w \in Workers, RunFrameStep(w)
      PROVE  LET r == Head(resultQueue[w])
             IN  /\ ClientConnectCallback(r.op, r.rows)
                 /\ c \in ClientsWithSerial(r.op.serial)
  <2>1. PICK r : r = Head(resultQueue[w])
    OBVIOUS
  <2>2. \/ InsertCookieCallback(r.op, r.id)
        \/ SelectIdCallback(r.op, r.id)
        \/ InsertDataDone(r.op)
        \/ ClientConnectCallback(r.op, r.rows)
    BY <1>4, <2>1 DEF RunFrameStep
  <2>3. ASSUME \/ InsertCookieCallback(r.op, r.id)
               \/ SelectIdCallback(r.op, r.id)
               \/ InsertDataDone(r.op)
        PROVE  UNCHANGED statsLoaded
    BY <2>3 DEF InsertCookieCallback, SelectIdCallback, InsertDataDone, flagVars
  <2>4. ClientConnectCallback(r.op, r.rows)
    BY <2>2, <2>3
  <2>5. \/ UNCHANGED statsLoaded
        \/ \E d \in ClientsWithSerial(r.op.serial) :
              statsLoaded' = [statsLoaded EXCEPT ![d] = TRUE]
    BY <2>4 DEF ClientConnectCallback, flagVars
  <2>6. c \in ClientsWithSerial(r.op.serial)
    BY <1>1, <2>5 DEF TypeOK, ClientsWithSerial
  <2>7. QED
    BY <2>1, <2>4, <2>6
<1>5. ASSUME NEW w \in Workers, Take(w) \/ Execute(w) \/ Continue(w) \/ PutResult(w)
      PROVE  UNCHANGED statsLoaded
  BY <1>5 DEF Take, Execute, Continue, PutResult, vars, flagVars
<1>6. QED
  BY <1>2, <1>3, <1>4, <1>5 DEF PipelineNext, allVars, vars, flagVars

LEMMA RowsSeen ==
    ASSUME TypeOK, NEW c \in Slots, NEW p, NEW rows \in Seq(Rows(p)), DistinctRows(rows),
           LoadRows(c, rows), NEW n \in Names, NEW f, InRow(rows, f, n)
    PROVE  Sees(c, n, f[n].value)'
<1>1. PICK i \in DOMAIN rows : rows[i].name = n /\ rows[i].value = f[n].value
  BY DEF InRow
<1>2. PICK s, k, new : /\ s = clientData[c] /\ k = Len(rows)
                       /\ new = [j \in DOMAIN rows |-> Unwritten(rows[j].name, rows[j].value)]
  OBVIOUS
<1>3. k \in Nat /\ DOMAIN rows = 1..k /\ s \in Seq(CookieData) /\ data[n] \in [Slots -> Nat]
  BY <1>2 DEF TypeOK
<1>4. clientData'[c] = s \o new
  BY <1>2 DEF LoadRows, TypeOK
<1>5. (CHOOSE j \in DOMAIN rows : rows[j].name = n) = i
  BY <1>1 DEF DistinctRows
<1>6. data'[n][c] = Len(s) + i
  BY <1>1, <1>2, <1>3, <1>5 DEF LoadRows
<1>7. new[i].value = f[n].value
  BY <1>1, <1>2 DEF Unwritten
<1>8. PICK D : D = CookieData \cup {new[j] : j \in 1..k}
  OBVIOUS
<1>9. s \in Seq(D) /\ new \in Seq(D) /\ Len(new) = k
  <2>1. new \in [1..k -> D]
    BY <1>2, <1>3, <1>8
  <2>2. QED
    BY <1>3, <1>8, <2>1
<1>10. (s \o new)[Len(s) + i] = new[i] /\ Len(s) + i # 0
  <2>1. Len(s) \in Nat /\ i \in 1..k
    BY <1>3
  <2>2. /\ Len(s) + i \in 1..(Len(s) + Len(new)) /\ ~(Len(s) + i <= Len(s))
        /\ (Len(s) + i) - Len(s) = i
    BY <1>9, <2>1
  <2>3. QED
    BY <1>9, <2>1, <2>2, Concatenation
<1>11. QED
  BY <1>4, <1>6, <1>7, <1>10 DEF Sees

LEMMA LoadShows ==
    ASSUME IInv, LoadInv, [PipelineNext]_allVars,
           NEW c \in Slots, ~statsLoaded[c], statsLoaded'[c],
           NEW n \in Names, Kept(player[c], n)
    PROVE  Sees(c, n, saved[player[c]][n].value)'
<1>1. PICK w \in Workers : /\ RunFrameStep(w)
                           /\ LET r == Head(resultQueue[w])
                              IN  /\ ClientConnectCallback(r.op, r.rows)
                                  /\ c \in ClientsWithSerial(r.op.serial)
  BY OnlyAnswersLoad
<1>2. PICK r : r = Head(resultQueue[w])
  OBVIOUS
<1>3. TypeOK /\ OwnInv /\ SerialsDistinct /\ resultQueue[w] \in Seq(Result) /\ resultQueue[w] # <<>>
  BY <1>1 DEF IInv, ServedInv, GameTypes, RunFrameStep
<1>4. r = resultQueue[w][1] /\ 1 \in DOMAIN resultQueue[w]
  BY <1>2, <1>3
<1>5. ClientConnectCallback(r.op, r.rows) /\ c \in ClientsWithSerial(r.op.serial)
  BY <1>1, <1>2
<1>6. r.op.type = "SelectData" /\ Live(r.op)
  BY <1>5 DEF ClientConnectCallback, Live
<1>7. r.op \in ops
  BY <1>4 DEF IInv, Placed, ResultsExist
<1>8. PICK p : p = player[c]
  OBVIOUS
<1>9. r.op.steamId = p
  BY <1>3, <1>5, <1>6, <1>7, <1>8 DEF ClientsWithSerial, OwnInv, AnswersOwn
<1>10. r.rows \in Seq(Rows(p)) /\ DistinctRows(r.rows)
  BY <1>4, <1>6, <1>9 DEF IInv, ResultsGood, GoodAnswer
<1>11. Holds(r.rows, saved[p])
  BY <1>4, <1>6, <1>9 DEF LoadInv, LoadsDone
<1>12. PICK f : f = saved[p]
  OBVIOUS
<1>13. InRow(r.rows, f, n)
  BY <1>8, <1>11, <1>12 DEF Holds, KeptIn, Kept
<1>14. LoadRows(c, r.rows)
  <2>1. PICK d \in ClientsWithSerial(r.op.serial) : LoadRows(d, r.rows)
    BY <1>5 DEF ClientConnectCallback
  <2>2. d = c
    BY <1>3, <1>5, <2>1 DEF SerialsDistinct, ClientsWithSerial
  <2>3. QED
    BY <2>1, <2>2
<1>15. Sees(c, n, f[n].value)'
  BY <1>3, <1>10, <1>13, <1>14, RowsSeen
<1>16. player' = player /\ saved' = saved
  BY <1>1, FrameSpares
<1>17. saved'[player'[c]][n].value = f[n].value
  BY <1>8, <1>12, <1>16
<1>18. QED
  BY <1>15, <1>17 DEF Sees

-----------------------------------------------------------------------------
(* A player is loaded with what was last queued for storage under their    *)
(* id: with one query thread, when ClientConnectCallback loads a player,   *)
(* every cookie that their last departure (OnClientDisconnecting) or a     *)
(* later SetAuthIdCookie saved under a known id shows that value, whether  *)
(* SelectData used the script or the slow path.  No two names may have the *)
(* same hash.                                                              *)
THEOREM LoadsSeeSaves ==
    ASSUME OneThread, HashesDiffer
    PROVE  PipelineSpec => LoadSeesStored
<1> DEFINE Inv == /\ IInv /\ IdsInv /\ SafeInv /\ StoredInv /\ ListedInv
                  /\ IdsAskedOnce /\ PlayersDistinct /\ KeptKnown /\ LoadInv
<1>1. InOrderOrNoZero
  BY DEF OneThread, InOrderOrNoZero
<1>2. PipelineInit => Inv
  BY InitIInv, InitHashIds, InitSafe, InitStored, InitListed, InitIds, InitLoads DEF PipelineInit
<1>3. Inv /\ [PipelineNext]_allVars => Inv'
  <2>1. SUFFICES ASSUME Inv, [PipelineNext]_allVars PROVE Inv'
    OBVIOUS
  <2>2. IInv' /\ IdsInv' /\ SafeInv' /\ StoredInv'
    BY <1>1, <2>1, NextIInv, NextHashIds, NextSafe, NextStored
  <2>3. ListedInv'
    BY <2>1, <2>2, NextListed
  <2>4. IdsAskedOnce'
    BY <2>1, StepIsManager, NextIds DEF IInv, ServedInv
  <2>5. PlayersDistinct' /\ KeptKnown' /\ LoadInv'
    BY <2>1, NextDistinct, NextKept, NextLoads
  <2>6. QED
    BY <2>2, <2>3, <2>4, <2>5
<1>4. Inv /\ [PipelineNext]_allVars =>
        [\A c \in Slots, n \in Names :
            ~statsLoaded[c] /\ statsLoaded'[c] /\ Kept(player[c], n) =>
                Sees(c, n, saved[player[c]][n].value)']_allVars
  BY LoadShows
<1>5. QED
  BY <1>2, <1>3, <1>4, PTL DEF PipelineSpec, LoadSeesStored
=============================================================================

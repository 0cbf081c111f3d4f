----------------------------- MODULE PartsProofs -----------------------------
(***************************************************************************)
(* Proofs about parts of MCParts, for any sets, names and numbers:         *)
(*  - CookieRegistry: there is one id that all of a name's cookies can     *)
(*    get, known before Redis has it (RegistryInv);                        *)
(*  - SelectData: what InsertCookie still has to send begins with what a   *)
(*    name that has its id must have (SelectInv);                          *)
(*  - FreeList: a node's count is the references to it, a flagged node     *)
(*    has somebody who will add it, and what is listed is a chain without  *)
(*    a cycle (PoolInv).                                                   *)
(* Of each step only the part that runs is looked at (OnePart).            *)
(***************************************************************************)
EXTENDS MCParts, SequenceTheorems, FiniteSetTheorems, WellFoundedInduction, TLAPS

-----------------------------------------------------------------------------
(* The registry                                                            *)

(* The id of a name: the one that is known, or the one it will be given    *)
Agreed(known, n) == IF known[n] # 0 THEN known[n] ELSE NameHash(n)

(* Wherever an id is, it is its name's; an answer without one came before  *)
(* Redis had another than the hash.                                        *)
RegistryInv ==
    /\ Registry!TypeOK
    /\ \A i \in 1 .. Len(cookieList) : cookieList[i].dbid \in {-1, Agreed(ids, cookieList[i].name)}
    /\ \A t \in QueryThreads : thread[t].cookie # 0 /\ thread[t].answer # -1 =>
          IF thread[t].answer = 0 THEN Agreed(ids, Registry!Name(t)) = NameHash(Registry!Name(t))
                                  ELSE thread[t].answer = Agreed(ids, Registry!Name(t))
    /\ \A t \in QueryThreads : sent[t] # Registry!Empty => sent[t].id = Agreed(ids, sent[t].name)
    /\ \A r \in results : r.id = Agreed(ids, cookieList[r.cookie].name)

LEMMA RegistryNames ==
    /\ \A n \in CookieNames : Cut(n) \in CookieNames /\ NameHash(n) \in Nat \ {0}
    /\ OldIds \subseteq Nat \ {0}
BY PartsAssumption DEF PartsAssumption, Registry!RegistryAssumption, Registry!None

LEMMA RegistryInit ==
    ASSUME Registry!Init  PROVE RegistryInv
<1> USE DEF Registry!Init, Registry!Resting, Registry!Empty, Registry!None, Registry!NotAsked
<1>1. Registry!TypeOK
  <2>1. cookieList \in Seq(Registry!Cookie) /\ queue \in Seq(1 .. Len(cookieList)) /\ results = {}
    OBVIOUS
  <2>2. thread \in [QueryThreads -> [cookie : 0 .. Len(cookieList), answer : Int]]
    OBVIOUS
  <2>3. sent \in [QueryThreads -> {Registry!Empty} \cup [name : CookieNames, id : Nat \ {0}]]
    OBVIOUS
  <2>4. ids \in [CookieNames -> Nat]
    <3>1. {0} \cup OldIds \subseteq Nat
      BY RegistryNames
    <3>2. QED
      BY <3>1
  <2>5. QED
    BY <2>1, <2>2, <2>3, <2>4 DEF Registry!TypeOK
<1>2. \A t \in QueryThreads : thread[t].cookie = 0 /\ sent[t] = Registry!Empty
  OBVIOUS
<1>3. QED
  BY <1>1, <1>2 DEF RegistryInv

(* Plain statements of the types                                           *)
RegistryTypes ==
    /\ cookieList \in Seq(Registry!Cookie) /\ Len(cookieList) \in Nat
    /\ \A i \in 1 .. Len(cookieList) : /\ cookieList[i] \in Registry!Cookie
                                       /\ cookieList[i].name \in CookieNames
    /\ queue \in Seq(1 .. Len(cookieList))
    /\ thread \in [QueryThreads -> [cookie : 0 .. Len(cookieList), answer : Int]]
    /\ \A t \in QueryThreads : thread[t].cookie # 0 => Registry!Name(t) \in CookieNames
    /\ sent \in [QueryThreads -> {Registry!Empty} \cup [name : CookieNames, id : Nat \ {0}]]
    /\ \A r \in results : r.cookie \in 1 .. Len(cookieList) /\ r.id \in Nat
    /\ ids \in [CookieNames -> Nat]
    /\ \A n \in CookieNames : Agreed(ids, n) \in Nat \ {0}

LEMMA RegistryTyped ==
    ASSUME Registry!TypeOK  PROVE RegistryTypes
<1>1. cookieList \in Seq(Registry!Cookie)
  BY DEF Registry!TypeOK
<1>2. Len(cookieList) \in Nat /\ \A i \in 1 .. Len(cookieList) : cookieList[i] \in Registry!Cookie
  BY <1>1
<1>3. \A c \in Registry!Cookie : c.name \in CookieNames
  BY DEF Registry!Cookie
<1>4. \A t \in QueryThreads : thread[t].cookie # 0 => Registry!Name(t) \in CookieNames
  BY <1>2, <1>3 DEF Registry!TypeOK, Registry!Name
<1>5. \A n \in CookieNames : Agreed(ids, n) \in Nat \ {0}
  BY RegistryNames DEF Registry!TypeOK, Agreed
<1>6. QED
  BY <1>1, <1>2, <1>3, <1>4, <1>5 DEF Registry!TypeOK, RegistryTypes, Registry!None

(* A cookie that is created has no id yet, and the others stay.            *)
LEMMA CreateStep ==
    ASSUME RegistryInv, NEW n \in CookieNames, Registry!CreateCookie(n)
    PROVE  RegistryInv'
<1> DEFINE L == Len(cookieList)
           c == [key |-> n, name |-> Cut(n), dbid |-> -1]
<1>1. RegistryTypes
  BY RegistryTyped DEF RegistryInv
<1>2. /\ cookieList' = Append(cookieList, c) /\ queue' = Append(queue, L + 1)
      /\ UNCHANGED <<thread, sent, results, ids>>
  BY DEF Registry!CreateCookie
<1>3. c \in Registry!Cookie /\ c.dbid = -1
  BY RegistryNames DEF Registry!Cookie
<1>4. /\ cookieList' \in Seq(Registry!Cookie)
      /\ Len(cookieList') = L + 1
      /\ \A i \in 1 .. L : cookieList'[i] = cookieList[i]
      /\ cookieList'[L + 1] = c
  <2> HIDE DEF c
  <2>1. QED
    BY <1>1, <1>2, <1>3, AppendProperties DEF RegistryTypes
<1> HIDE DEF c
<1>5. queue' \in Seq(1 .. L + 1)
  <2>1. queue \in Seq(1 .. L + 1) /\ L + 1 \in 1 .. L + 1
    BY <1>1 DEF RegistryTypes
  <2>2. QED
    BY <1>2, <2>1, AppendProperties
<1>6. /\ \A i \in 0 .. L : i \in 0 .. L + 1
      /\ \A i \in 1 .. L : i \in 1 .. L + 1
      /\ \A i \in 1 .. L + 1 : i \in 1 .. L \/ i = L + 1
  BY <1>1 DEF RegistryTypes
<1>7. Registry!TypeOK'
  <2>1. thread' \in [QueryThreads -> [cookie : 0 .. L + 1, answer : Int]]
    BY <1>1, <1>2, <1>6 DEF RegistryTypes
  <2>2. \A r \in results' : r.cookie \in 1 .. L + 1 /\ r.id \in Nat
    BY <1>1, <1>2, <1>6 DEF RegistryTypes
  <2>3. QED
    BY <1>1, <1>2, <1>4, <1>5, <2>1, <2>2 DEF RegistryTypes, Registry!TypeOK, Registry!None
<1>8. \A t \in QueryThreads : thread[t].cookie # 0 => Registry!Name(t)' = Registry!Name(t)
  BY <1>1, <1>2, <1>4 DEF RegistryTypes, Registry!Name
<1>9. \A m : Agreed(ids', m) = Agreed(ids, m)
  BY <1>2 DEF Agreed
<1>10. \A i \in 1 .. Len(cookieList') :
          cookieList'[i].dbid \in {-1, Agreed(ids', cookieList'[i].name)}
  BY <1>3, <1>4, <1>6, <1>9 DEF RegistryInv
<1>11. \A r \in results : cookieList'[r.cookie] = cookieList[r.cookie]
  BY <1>1, <1>4 DEF RegistryTypes
<1>12. QED
  BY <1>2, <1>7, <1>8, <1>9, <1>10, <1>11 DEF RegistryInv, Agreed

(* The id that comes back is its name's.                                   *)
LEMMA CallbackStep ==
    ASSUME RegistryInv, Registry!InsertCookieCallback
    PROVE  RegistryInv'
<1>1. PICK r \in results :
         /\ cookieList' = [cookieList EXCEPT ![r.cookie].dbid = r.id]
         /\ results' = results \ {r}
         /\ UNCHANGED <<queue, thread, sent, ids>>
  BY DEF Registry!InsertCookieCallback
<1>2. RegistryTypes
  BY RegistryTyped DEF RegistryInv
<1>3. PICK k \in 1 .. Len(cookieList), d \in Nat : k = r.cookie /\ d = r.id
  BY <1>2 DEF RegistryTypes
<1>4. PICK c : c = [cookieList[k] EXCEPT !.dbid = d]
  OBVIOUS
<1>5. /\ c \in Registry!Cookie /\ c.name = cookieList[k].name /\ c.dbid = d
  <2>1. cookieList[k] \in Registry!Cookie
    BY <1>2 DEF RegistryTypes
  <2>2. QED
    BY <1>4, <2>1 DEF Registry!Cookie
<1>6. cookieList' = [cookieList EXCEPT ![k] = c]
  BY <1>1, <1>3, <1>4
<1>7. /\ cookieList' \in Seq(Registry!Cookie)
      /\ Len(cookieList') = Len(cookieList)
      /\ \A i \in 1 .. Len(cookieList) : cookieList'[i] = IF i = k THEN c ELSE cookieList[i]
  BY <1>2, <1>5, <1>6 DEF RegistryTypes
<1>8. \A i \in 1 .. Len(cookieList) : cookieList'[i].name = cookieList[i].name
  BY <1>5, <1>7
<1>9. Registry!TypeOK'
  BY <1>1, <1>2, <1>7 DEF RegistryTypes, Registry!TypeOK, Registry!None
<1>10. \A m : Agreed(ids', m) = Agreed(ids, m)
  BY <1>1 DEF Agreed
<1>11. d = Agreed(ids, cookieList[k].name)
  BY <1>3 DEF RegistryInv
<1>12. \A i \in 1 .. Len(cookieList') :
          cookieList'[i].dbid \in {-1, Agreed(ids', cookieList'[i].name)}
  BY <1>5, <1>7, <1>8, <1>10, <1>11 DEF RegistryInv
<1>13. \A t \in QueryThreads : thread[t].cookie # 0 => Registry!Name(t)' = Registry!Name(t)
  BY <1>1, <1>2, <1>8 DEF RegistryTypes, Registry!Name
<1>14. \A x \in results : cookieList'[x.cookie].name = cookieList[x.cookie].name
  BY <1>2, <1>8 DEF RegistryTypes
<1>15. QED
  BY <1>1, <1>9, <1>10, <1>12, <1>13, <1>14 DEF RegistryInv, Agreed

(* A step of one thread: the cookies stay, the ids of all names too, and   *)
(* the thread's record and connection and what it put are as they should.  *)
LEMMA ThreadStep ==
    ASSUME RegistryInv, NEW t \in QueryThreads, NEW q, NEW p,
           cookieList' = cookieList, queue' \in Seq(1 .. Len(cookieList)),
           thread' = [thread EXCEPT ![t] = q], sent' = [sent EXCEPT ![t] = p],
           ids' \in [CookieNames -> Nat],
           \A n \in CookieNames : Agreed(ids', n) = Agreed(ids, n),
           q \in [cookie : 0 .. Len(cookieList), answer : Int],
           q.cookie # 0 /\ q.answer # -1 =>
              LET n == cookieList[q.cookie].name
              IN  IF q.answer = 0 THEN Agreed(ids, n) = NameHash(n) ELSE q.answer = Agreed(ids, n),
           p \in {Registry!Empty} \cup [name : CookieNames, id : Nat \ {0}],
           p # Registry!Empty => p.name \in CookieNames /\ p.id = Agreed(ids, p.name),
           \A r \in results' : r \in results \/
              /\ r.cookie \in 1 .. Len(cookieList) /\ r.id \in Nat
              /\ r.id = Agreed(ids, cookieList[r.cookie].name)
    PROVE  RegistryInv'
<1>1. RegistryTypes
  BY RegistryTyped DEF RegistryInv
<1>2. Registry!TypeOK'
  BY <1>1 DEF RegistryTypes, Registry!TypeOK, Registry!None
<1>3. /\ \A u \in QueryThreads : thread'[u] = IF u = t THEN q ELSE thread[u]
      /\ \A u \in QueryThreads : sent'[u] = IF u = t THEN p ELSE sent[u]
  BY <1>1 DEF RegistryTypes
<1>4. \A i \in 1 .. Len(cookieList) :
         /\ cookieList[i].name \in CookieNames
         /\ cookieList[i].dbid \in {-1, Agreed(ids', cookieList[i].name)}
  BY <1>1 DEF RegistryTypes, RegistryInv
<1>5. ASSUME NEW u \in QueryThreads, thread'[u].cookie # 0, thread'[u].answer # -1
      PROVE  LET n == cookieList[thread'[u].cookie].name
             IN  IF thread'[u].answer = 0 THEN Agreed(ids', n) = NameHash(n)
                                          ELSE thread'[u].answer = Agreed(ids', n)
  <2>1. CASE u = t
    <3>1. thread'[u] = q /\ q.cookie \in 1 .. Len(cookieList)
      BY <1>1, <1>3, <1>5, <2>1 DEF RegistryTypes
    <3>2. QED
      BY <1>4, <1>5, <3>1
  <2>2. CASE u # t
    <3>1. thread'[u] = thread[u] /\ Registry!Name(u) \in CookieNames
      BY <1>1, <1>3, <1>5, <2>2 DEF RegistryTypes
    <3>2. QED
      BY <1>5, <3>1 DEF RegistryInv, Registry!Name
  <2>3. QED
    BY <2>1, <2>2
<1>6. ASSUME NEW u \in QueryThreads, sent'[u] # Registry!Empty
      PROVE  sent'[u].name \in CookieNames /\ sent'[u].id = Agreed(ids', sent'[u].name)
  <2>1. CASE u = t
    BY <1>3, <1>6, <2>1
  <2>2. CASE u # t
    <3>1. sent'[u] = sent[u] /\ sent[u] \in [name : CookieNames, id : Nat \ {0}]
      BY <1>1, <1>3, <1>6, <2>2 DEF RegistryTypes
    <3>2. QED
      BY <1>6, <3>1 DEF RegistryInv
  <2>3. QED
    BY <2>1, <2>2
<1>7. \A r \in results' : r.id = Agreed(ids', cookieList[r.cookie].name)
  BY <1>1, <1>4 DEF RegistryTypes, RegistryInv
<1>8. QED
  BY <1>2, <1>4, <1>5, <1>6, <1>7 DEF RegistryInv, Registry!Name, Agreed

(* The types of one thread's record and connection                         *)
LEMMA OneThread ==
    ASSUME RegistryInv, NEW t \in QueryThreads
    PROVE  /\ thread[t] \in [cookie : 0 .. Len(cookieList), answer : Int]
           /\ sent[t] \in {Registry!Empty} \cup [name : CookieNames, id : Nat \ {0}]
           /\ sent[t] # Registry!Empty =>
                 sent[t].name \in CookieNames /\ sent[t].id = Agreed(ids, sent[t].name)
           /\ sent = [sent EXCEPT ![t] = sent[t]] /\ thread = [thread EXCEPT ![t] = thread[t]]
           /\ thread[t].cookie # 0 => thread[t].cookie \in 1 .. Len(cookieList)
           /\ RegistryTypes
<1>1. RegistryTypes
  BY RegistryTyped DEF RegistryInv
<1>2. QED
  BY <1>1 DEF RegistryTypes, RegistryInv

LEMMA GetQueryStep ==
    ASSUME RegistryInv, NEW t \in QueryThreads, Registry!GetQuery(t)
    PROVE  RegistryInv'
<1> DEFINE q == [thread[t] EXCEPT !.cookie = Head(queue)]
<1>1. /\ UNCHANGED <<cookieList, sent, results, ids>> /\ thread[t] = Registry!Resting
      /\ queue # <<>> /\ queue' = Tail(queue) /\ thread' = [thread EXCEPT ![t] = q]
  BY DEF Registry!GetQuery
<1>2. Head(queue) \in 1 .. Len(cookieList) /\ queue' \in Seq(1 .. Len(cookieList))
  <2>1. queue \in Seq(1 .. Len(cookieList))
    BY OneThread DEF RegistryTypes
  <2>2. QED
    BY <1>1, <2>1, HeadTailProperties
<1>3. q \in [cookie : 0 .. Len(cookieList), answer : Int] /\ q.answer = -1
  BY <1>1, <1>2 DEF Registry!Resting, Registry!NotAsked
<1> HIDE DEF q
<1>4. \A n \in CookieNames : Agreed(ids', n) = Agreed(ids, n)
  BY <1>1 DEF Agreed
<1>5. PICK p : p = sent[t] /\ sent' = [sent EXCEPT ![t] = p]
  BY <1>1, OneThread
<1>6. ids' \in [CookieNames -> Nat]
  BY <1>1, OneThread DEF RegistryTypes
<1>7. QED
  BY <1>1, <1>2, <1>3, <1>4, <1>5, <1>6, OneThread, ThreadStep

LEMMA GetStep ==
    ASSUME RegistryInv, NEW t \in QueryThreads, Registry!Get(t)
    PROVE  RegistryInv'
<1> DEFINE q == [thread[t] EXCEPT !.answer = ids[Registry!Name(t)]]
<1>1. /\ UNCHANGED <<cookieList, queue, sent, results, ids>> /\ thread[t].cookie # 0
      /\ thread' = [thread EXCEPT ![t] = q]
  BY DEF Registry!Get, Registry!None
<1>2. Registry!Name(t) \in CookieNames /\ ids \in [CookieNames -> Nat]
  BY <1>1, OneThread DEF RegistryTypes
<1>3. /\ q \in [cookie : 0 .. Len(cookieList), answer : Int]
      /\ q.cookie = thread[t].cookie /\ q.answer = ids[Registry!Name(t)]
  BY <1>2, OneThread
<1> HIDE DEF q
<1>4. LET n == cookieList[q.cookie].name
      IN  IF q.answer = 0 THEN Agreed(ids, n) = NameHash(n) ELSE q.answer = Agreed(ids, n)
  BY <1>3 DEF Registry!Name, Agreed
<1>5. \A n \in CookieNames : Agreed(ids', n) = Agreed(ids, n)
  BY <1>1 DEF Agreed
<1>6. PICK p : p = sent[t] /\ sent' = [sent EXCEPT ![t] = p]
  BY <1>1, OneThread
<1>7. queue' \in Seq(1 .. Len(cookieList)) /\ ids' \in [CookieNames -> Nat]
  BY <1>1, OneThread DEF RegistryTypes
<1>8. QED
  BY <1>1, <1>3, <1>4, <1>5, <1>6, <1>7, OneThread, ThreadStep

LEMMA InsertCookieStep ==
    ASSUME RegistryInv, NEW t \in QueryThreads, Registry!InsertCookie(t)
    PROVE  RegistryInv'
<1> DEFINE n == Registry!Name(t)
           id0 == Agreed(ids, n)
           q == Registry!Resting
           R == {[cookie |-> thread[t].cookie, id |-> id0]}
<1>1. /\ UNCHANGED <<cookieList, queue, ids>> /\ thread[t].cookie # 0 /\ thread[t].answer # -1
  BY DEF Registry!InsertCookie, Registry!None, Registry!NotAsked
<1>2. n \in CookieNames /\ id0 \in Nat \ {0} /\ thread[t].cookie \in 1 .. Len(cookieList)
  BY <1>1, OneThread DEF RegistryTypes
<1>3. \/ thread[t].answer = id0 /\ thread[t].answer # 0
      \/ thread[t].answer = 0 /\ NameHash(n) = id0
  BY <1>1 DEF RegistryInv
<1>4. /\ results' = results \cup R /\ thread' = [thread EXCEPT ![t] = q]
      /\ sent' = sent \/ sent' = [sent EXCEPT ![t] = [name |-> n, id |-> id0]]
  BY <1>3 DEF Registry!InsertCookie, Registry!PutResult, Registry!None
<1>5. q \in [cookie : 0 .. Len(cookieList), answer : Int] /\ q.cookie = 0
  BY OneThread DEF Registry!Resting, Registry!None, Registry!NotAsked, RegistryTypes
<1>6. /\ [name |-> n, id |-> id0] \in [name : CookieNames, id : Nat \ {0}]
      /\ [name |-> n, id |-> id0].name = n /\ [name |-> n, id |-> id0].id = id0
  BY <1>2
<1>7. \A r \in results' : r \in results \/
                   /\ r.cookie \in 1 .. Len(cookieList) /\ r.id \in Nat
                   /\ r.id = Agreed(ids, cookieList[r.cookie].name)
  BY <1>2, <1>4 DEF Registry!Name
<1>8. \A m \in CookieNames : Agreed(ids', m) = Agreed(ids, m)
  BY <1>1 DEF Agreed
<1>9. queue' \in Seq(1 .. Len(cookieList)) /\ ids' \in [CookieNames -> Nat]
  BY <1>1, OneThread DEF RegistryTypes
<1> HIDE DEF q
<1>10. CASE sent' = sent
  <2>1. sent' = [sent EXCEPT ![t] = sent[t]]
    BY <1>10, OneThread
  <2>2. QED
    BY <1>1, <1>4, <1>5, <1>7, <1>8, <1>9, <2>1, OneThread, ThreadStep
<1>11. CASE sent' = [sent EXCEPT ![t] = [name |-> n, id |-> id0]]
  <2> PICK p : p = [name |-> n, id |-> id0]
    OBVIOUS
  <2>1. /\ p \in {Registry!Empty} \cup [name : CookieNames, id : Nat \ {0}]
        /\ p.name \in CookieNames /\ p.id = Agreed(ids, p.name)
        /\ sent' = [sent EXCEPT ![t] = p]
    BY <1>2, <1>6, <1>11
  <2>2. QED
    BY <1>1, <1>4, <1>5, <1>7, <1>8, <1>9, <2>1, ThreadStep
<1>12. QED
  BY <1>4, <1>10, <1>11

(* What is sent is executed or lost.                                       *)
LEMMA SentStep ==
    ASSUME RegistryInv, NEW t \in QueryThreads, Registry!Execute(t) \/ Registry!Lose(t)
    PROVE  RegistryInv'
<1>1. /\ UNCHANGED <<cookieList, queue, thread, results>> /\ sent[t] # Registry!Empty
      /\ sent' = [sent EXCEPT ![t] = Registry!Empty]
      /\ ids' = ids \/ ids' = [ids EXCEPT ![sent[t].name] = sent[t].id]
  BY DEF Registry!Execute, Registry!Lose
<1>2. /\ sent[t].name \in CookieNames /\ sent[t].id = Agreed(ids, sent[t].name)
      /\ sent[t].id \in Nat \ {0} /\ ids \in [CookieNames -> Nat]
  BY <1>1, OneThread DEF RegistryTypes
<1>3. PICK m \in CookieNames, d \in Nat \ {0} :
         /\ m = sent[t].name /\ d = sent[t].id /\ d = Agreed(ids, m)
  BY <1>2
<1>4. ids' = ids \/ ids' = [ids EXCEPT ![m] = d]
  BY <1>1, <1>3
<1>5. \A n \in CookieNames : Agreed(ids', n) = Agreed(ids, n)
  BY <1>2, <1>3, <1>4 DEF Agreed
<1>6. PICK q : q = thread[t] /\ thread' = [thread EXCEPT ![t] = q]
  BY <1>1, OneThread
<1>7. queue' \in Seq(1 .. Len(cookieList)) /\ ids' \in [CookieNames -> Nat]
  BY <1>1, <1>2, <1>3, <1>4, OneThread DEF RegistryTypes
<1>8. thread[t].cookie # 0 /\ thread[t].answer # -1 =>
         LET n == cookieList[thread[t].cookie].name
         IN  IF thread[t].answer = 0 THEN Agreed(ids, n) = NameHash(n) ELSE thread[t].answer = Agreed(ids, n)
  BY DEF RegistryInv, Registry!Name
<1>9. QED
  BY <1>1, <1>5, <1>6, <1>7, <1>8, OneThread, ThreadStep

LEMMA RegistryStep ==
    ASSUME RegistryInv, Registry!Next  PROVE RegistryInv'
<1>1. \/ \E n \in CookieNames : Registry!CreateCookie(n)
      \/ Registry!InsertCookieCallback
      \/ \E t \in QueryThreads : \/ Registry!GetQuery(t) \/ Registry!Get(t)
                                 \/ Registry!InsertCookie(t)
                                 \/ Registry!Execute(t) \/ Registry!Lose(t)
  BY DEF Registry!Next
<1>2. QED
  BY <1>1, CreateStep, CallbackStep, GetQueryStep, GetStep, InsertCookieStep, SentStep

-----------------------------------------------------------------------------
(* One part of MCParts runs at a time.                                     *)
LEMMA OnePart ==
    ASSUME [Next]_vars
    PROVE  /\ Registry!Next \/ UNCHANGED registryVars
           /\ Select!Next \/ UNCHANGED selectVars
           /\ Pool!Next \/ UNCHANGED poolVars
BY DEF Next, vars

LEMMA RegistryIdle ==
    ASSUME RegistryInv, UNCHANGED registryVars  PROVE RegistryInv'
BY DEF RegistryInv, Registry!TypeOK, Registry!Name, Agreed, registryVars

(* All cookies of one name, which is shorter than what plugins registered  *)
(* perhaps, get one id, and the one Redis has if it has one: InsertCookie  *)
(* asks for it first and writes it later, queries of several threads pass  *)
(* each other, and what a thread sent may be lost (query.cpp:140-165).     *)
THEOREM IdsOfNamesAgree == Spec => []IdsAgree
<1>1. Init => RegistryInv
  BY RegistryInit DEF Init
<1>2. RegistryInv /\ [Next]_vars => RegistryInv'
  BY OnePart, RegistryStep, RegistryIdle
<1>3. RegistryInv => Registry!IdsAgree
  <2> SUFFICES ASSUME RegistryInv PROVE Registry!IdsAgree
    OBVIOUS
  <2>1. \A i \in 1 .. Len(cookieList) : cookieList[i].dbid \in {-1, Agreed(ids, cookieList[i].name)}
    BY DEF RegistryInv
  <2>2. QED
    BY <2>1 DEF Registry!IdsAgree, Registry!Known, Registry!None, Agreed
<1>4. RegistryInv => IdsAgree
  BY <1>3 DEF RegistryInv, IdsAgree
<1>5. QED
  BY <1>1, <1>2, <1>4, PTL DEF Spec

-----------------------------------------------------------------------------
(* The data of a load                                                      *)

(* What InsertCookie still has to send: a name gets its access level and   *)
(* its description before its id.                                          *)
Insertion(n, d, a) ==
    <<<<"SADD", n, Null>>, <<"access", n, a>>, <<"desc", n, d>>, <<"id", n, "1">>>>
Remaining(s, written, described) ==
    \/ s = <<>>
    \/ \E n \in StoredNames : s = <<<<"SADD", n, Null>>>>
    \/ \E n \in StoredNames, d \in StoredDescs, a \in Access :
          \/ s = Insertion(n, d, a)
          \/ s = <<<<"access", n, a>>, <<"desc", n, d>>, <<"id", n, "1">>>>
          \/ s = <<<<"desc", n, d>>, <<"id", n, "1">>>> /\ written[n] # Null
          \/ s = <<<<"id", n, "1">>>> /\ written[n] # Null /\ described[n] # Null

SelectInv ==
    /\ Select!TypeOK
    /\ IsFiniteSet(list)
    /\ \A n \in StoredNames : id[n] # Null => desc[n] # Null /\ access[n] # Null
    /\ \A t \in QueryThreads : Remaining(pipe[t], access, desc)
    /\ DOMAIN pipe = QueryThreads

LEMMA SelectConstants ==
    /\ "0" \in Access
    /\ Null \notin StoredDescs \cup StoredValues \cup Access
    /\ "throws" \notin StoredNames \cup StoredDescs
BY PartsAssumption DEF PartsAssumption, Select!SelectAssumption, Select!Throws

(* Replies are converted as they should be.                                *)
LEMMA Replies ==
    ASSUME NEW s
    PROVE  /\ Select!GetString(Select!Leaf(Select!RawString(s))) = s
           /\ Select!GetString(Select!Leaf(Select!RawGet(s))) = IF s = Null THEN "throws" ELSE s
           /\ Select!ToValue(Select!Leaf(Select!RawGet(s))) = IF s = Null THEN "" ELSE s
           /\ s \in Access => Select!ToAccess(Select!Leaf(Select!RawGet(s))) = s
BY SelectConstants DEF Select!GetString, Select!Leaf, Select!RawString, Select!RawGet, Select!ToValue,
   Select!ToAccess, Select!Throws

(* A row of the script's table keeps its shape and its fields.             *)
RawRow(n) ==
    Select!RawArray(<<Select!RawString(n), Select!RawGet(desc[n]), Select!RawGet(access[n]),
                      Select!RawGet(value[n])>>)
RowOf(n) == Select!Row(RawRow(n))

LEMMA RowKeepsShape ==
    ASSUME NEW n
    PROVE  LET c == Select!GetArray(RowOf(n))
           IN  /\ Select!IsRow(RowOf(n))
               /\ c[1] = Select!Leaf(Select!RawString(n))
               /\ c[2] = Select!Leaf(Select!RawGet(desc[n]))
               /\ c[3] = Select!Leaf(Select!RawGet(access[n]))
               /\ c[4] = Select!Leaf(Select!RawGet(value[n]))
<1> DEFINE e == <<Select!RawString(n), Select!RawGet(desc[n]), Select!RawGet(access[n]),
                  Select!RawGet(value[n])>>
           c == [i \in 1 .. Len(e) |-> Select!Leaf(e[i])]
<1>1. /\ Select!GetArray(RowOf(n)) = c
      /\ RowOf(n).type = "arrays"
  BY DEF RowOf, RawRow, Select!RawArray, Select!Row, Select!GetArray
<1>2. /\ Len(e) = 4
      /\ e[1] = Select!RawString(n) /\ e[2] = Select!RawGet(desc[n])
      /\ e[3] = Select!RawGet(access[n]) /\ e[4] = Select!RawGet(value[n])
  OBVIOUS
<1> HIDE DEF e
<1>3. /\ c[1] = Select!Leaf(e[1]) /\ c[2] = Select!Leaf(e[2])
      /\ c[3] = Select!Leaf(e[3]) /\ c[4] = Select!Leaf(e[4])
  BY <1>2
<1>4. Len(c) = 4
  BY <1>2
<1>5. QED
  BY <1>1, <1>2, <1>3, <1>4 DEF Select!IsRow

LEMMA SameCardinality ==
    ASSUME NEW S
    PROVE  Select!Cardinality(S) = Cardinality(S)
BY DEF Select!Cardinality, Cardinality

(* The names of the script's table are those on the list that have an id.  *)
LEMMA NamesListed ==
    ASSUME NEW S, IsFiniteSet(S)
    PROVE  /\ Cardinality(S) \in Nat
           /\ \A i \in 1 .. Cardinality(S) : Select!SetToSeq(S)[i] \in S
           /\ \A n \in S : \E i \in 1 .. Cardinality(S) : Select!SetToSeq(S)[i] = n
<1> DEFINE D == 1 .. Cardinality(S)
           m == Select!SetToSeq(S)
<1>1. Cardinality(S) \in Nat /\ ExistsBijection(D, S)
  BY FS_CardinalityType
<1>2. \E f \in [D -> S] : Select!IsInjective(f)
  BY <1>1 DEF ExistsBijection, Bijection, Injection, IsInjective, Select!IsInjective
<1>3. m \in [D -> S] /\ Select!IsInjective(m)
  BY <1>2, SameCardinality DEF Select!SetToSeq
<1>4. m \in Injection(D, S)
  BY <1>3 DEF Injection, IsInjective, Select!IsInjective
<1>5. Cardinality(D) = Cardinality(S)
  BY <1>1, FS_Interval
<1> HIDE DEF m
<1>6. m \in Surjection(D, S)
  <2> HIDE DEF D
  <2>1. QED
    BY <1>4, <1>5, FS_Injection
<1>7. QED
  BY <1>1, <1>3, <1>6 DEF Surjection, m

(* What is made of a cookie with an id                                     *)
LoadedTuple(n) == Select!Tuple(n, desc[n], access[n], IF value[n] = Null THEN "" ELSE value[n])

LEMMA TupleOf ==
    ASSUME SelectInv, NEW n \in Select!Known
    PROVE  /\ n \in StoredNames /\ desc[n] \in StoredDescs /\ access[n] \in Access
           /\ value[n] \in StoredValues \cup {Null}
           /\ Select!GetString(Select!Leaf(Select!RawString(n))) = n
           /\ Select!GetString(Select!Leaf(Select!RawGet(desc[n]))) = desc[n]
           /\ Select!ToAccess(Select!Leaf(Select!RawGet(access[n]))) = access[n]
           /\ Select!ToValue(Select!Leaf(Select!RawGet(value[n])))
                 = IF value[n] = Null THEN "" ELSE value[n]
<1>1. /\ n \in StoredNames /\ desc[n] # Null /\ access[n] # Null
      /\ desc[n] \in StoredDescs \cup {Null} /\ access[n] \in Access \cup {Null}
      /\ value[n] \in StoredValues \cup {Null}
  BY DEF SelectInv, Select!Known, Select!TypeOK
<1>2. QED
  BY <1>1, Replies

LEMMA FastIsExact ==
    ASSUME SelectInv
    PROVE  Select!FastRows = Select!Results(Select!Expected(list \cap Select!Known))
<1> DEFINE S == list \cap Select!Known
           D == 1 .. Cardinality(S)
           m == Select!SetToSeq(S)
           table == Select!Table(Select!Script)
           T(i) == LET c == Select!GetArray(Select!GetArray(table)[i])
                   IN  Select!Tuple(Select!GetString(c[1]), Select!GetString(c[2]),
                                    Select!ToAccess(c[3]), Select!ToValue(c[4]))
<1>1. IsFiniteSet(S)
  <2>1. IsFiniteSet(list)
    BY DEF SelectInv
  <2>2. QED
    BY <2>1, FS_Subset
<1>2. /\ Cardinality(S) \in Nat
      /\ \A i \in D : m[i] \in S
      /\ \A n \in S : \E i \in D : m[i] = n
  <2> HIDE DEF S
  <2>1. QED
    BY <1>1, NamesListed
<1>3. Select!Script = Select!RawArray([i \in D |-> RawRow(m[i])])
  BY SameCardinality DEF Select!Script, RawRow
<1> HIDE DEF S, m
<1>4. Select!GetArray(table) = [i \in D |-> RowOf(m[i])]
  <2> DEFINE e == [i \in D |-> RawRow(m[i])]
  <2>1. Len(e) = Cardinality(S) /\ \A i \in D : e[i] = RawRow(m[i])
    BY <1>2
  <2> HIDE DEF e
  <2>2. Select!GetArray(table) = [i \in 1 .. Len(e) |-> Select!Row(e[i])]
    <3>1. Select!Script.element = e
      BY <1>3 DEF Select!RawArray, e
    <3>2. table.rows = [i \in 1 .. Len(Select!Script.element) |->
                          Select!Row(Select!Script.element[i])]
      BY DEF Select!Table
    <3>3. QED
      BY <3>1, <3>2 DEF Select!GetArray
  <2>3. QED
    BY <2>1, <2>2 DEF RowOf
<1>5. Select!RowsRead(table) = D
  <2> DEFINE rws == [i \in D |-> RowOf(m[i])]
  <2>1. Len(rws) = Cardinality(S) /\ \A i \in D : Select!IsRow(rws[i])
    BY <1>2, RowKeepsShape
  <2>2. Select!RowsRead(table) = {i \in 1 .. Len(rws) : \A j \in 1 .. i : Select!IsRow(rws[j])}
    BY <1>4 DEF Select!RowsRead
  <2> HIDE DEF rws
  <2>3. QED
    BY <1>2, <2>1, <2>2
<1>6. Select!FastRows = Select!Results({T(i) : i \in D})
  BY <1>5 DEF Select!FastRows
<1>7. ASSUME NEW i \in D  PROVE T(i) = LoadedTuple(m[i])
  <2>1. m[i] \in Select!Known
    BY <1>2 DEF S
  <2>2. Select!GetArray(table)[i] = RowOf(m[i])
    BY <1>4
  <2> HIDE DEF table
  <2>3. T(i) = Select!Tuple(Select!GetString(Select!Leaf(Select!RawString(m[i]))),
                            Select!GetString(Select!Leaf(Select!RawGet(desc[m[i]]))),
                            Select!ToAccess(Select!Leaf(Select!RawGet(access[m[i]]))),
                            Select!ToValue(Select!Leaf(Select!RawGet(value[m[i]]))))
    BY <2>2, RowKeepsShape
  <2>4. QED
    BY <2>1, <2>3, TupleOf DEF LoadedTuple
<1> HIDE DEF T
<1>8. {T(i) : i \in D} = {LoadedTuple(n) : n \in S}
  BY <1>2, <1>7
<1>9. Select!Expected(S) = {LoadedTuple(n) : n \in S}
  BY DEF Select!Expected, LoadedTuple
<1>10. QED
  BY <1>6, <1>8, <1>9 DEF S

LEMMA SlowIsExact ==
    ASSUME SelectInv
    PROVE  Select!SlowRows = Select!Results(Select!Expected(Select!Known))
<1> DEFINE T(n) == Select!Tuple(n, Select!GetString(Select!Leaf(Select!RawGet(desc[n]))),
                                Select!ToAccess(Select!Leaf(Select!RawGet(access[n]))),
                                Select!ToValue(Select!Leaf(Select!RawGet(value[n]))))
<1>1. Select!SlowRows = Select!Results({T(n) : n \in Select!Known})
  BY DEF Select!SlowRows
<1>2. \A n \in Select!Known : T(n) = LoadedTuple(n)
  BY TupleOf DEF LoadedTuple
<1> HIDE DEF T
<1>3. {T(n) : n \in Select!Known} = Select!Expected(Select!Known)
  BY <1>2 DEF Select!Expected, LoadedTuple
<1>4. QED
  BY <1>1, <1>3

(* A load throws nothing, and what it gives has the types of a load.       *)
LEMMA LoadTypes ==
    ASSUME SelectInv, NEW S \in SUBSET Select!Known
    PROVE  LET r == Select!Results(Select!Expected(S))
           IN  /\ ~r.throws
               /\ r.tuples \subseteq [name : StoredNames, desc : StoredDescs, access : Access,
                                      value : StoredValues \cup {""}]
<1>1. \A n \in S : /\ n \in StoredNames /\ desc[n] \in StoredDescs /\ access[n] \in Access
                   /\ value[n] \in StoredValues \cup {Null}
  BY TupleOf
<1>2. Select!Expected(S) \subseteq [name : StoredNames, desc : StoredDescs, access : Access,
                                    value : StoredValues \cup {""}]
  <2>1. ASSUME NEW n \in S
        PROVE  LoadedTuple(n) \in [name : StoredNames, desc : StoredDescs, access : Access,
                                   value : StoredValues \cup {""}]
    <3> DEFINE v == IF value[n] = Null THEN "" ELSE value[n]
    <3>1. v \in StoredValues \cup {""}
      BY <1>1
    <3>2. LoadedTuple(n) = [name |-> n, desc |-> desc[n], access |-> access[n], value |-> v]
      BY DEF LoadedTuple, Select!Tuple
    <3> HIDE DEF v
    <3>3. n \in StoredNames /\ desc[n] \in StoredDescs /\ access[n] \in Access
      BY <1>1
    <3>4. [name |-> n, desc |-> desc[n], access |-> access[n], value |-> v]
             \in [name : StoredNames, desc : StoredDescs, access : Access,
                  value : StoredValues \cup {""}]
      BY <3>1, <3>3
    <3>5. QED
      BY <3>2, <3>4
  <2>2. Select!Expected(S) = {LoadedTuple(n) : n \in S}
    BY DEF Select!Expected, LoadedTuple
  <2>3. QED
    BY <2>1, <2>2
<1>3. \A x \in Select!Expected(S) : Select!Throws \notin {x.name, x.desc}
  BY <1>2, SelectConstants DEF Select!Throws
<1>4. Select!Results(Select!Expected(S)) = [throws |-> FALSE, tuples |-> Select!Expected(S)]
  BY <1>3 DEF Select!Results
<1>5. /\ ~Select!Results(Select!Expected(S)).throws
      /\ Select!Results(Select!Expected(S)).tuples = Select!Expected(S)
  BY <1>4
<1>6. QED
  BY <1>2, <1>5

LEMMA SelectInit ==
    ASSUME Select!Init  PROVE SelectInv
<1>1. list = {} /\ rows = Select!Results({}) /\ pipe = [t \in QueryThreads |-> <<>>]
  BY DEF Select!Init
<1>2. /\ id = [n \in StoredNames |-> Null] /\ desc = id /\ access = id /\ value = id
  BY DEF Select!Init
<1>3. rows = [throws |-> FALSE, tuples |-> {}]
  BY <1>1 DEF Select!Results
<1>4. Select!TypeOK
  <2>1. \A t \in QueryThreads : Len(pipe[t]) <= 4
    BY <1>1
  <2>2. ~rows.throws /\ rows.tuples = {}
    BY <1>3
  <2>3. QED
    BY <1>1, <1>2, <2>1, <2>2 DEF Select!TypeOK
<1>5. IsFiniteSet(list)
  BY <1>1, FS_EmptySet
<1>6. QED
  BY <1>1, <1>2, <1>4, <1>5 DEF SelectInv, Remaining

LEMMA LoadStep ==
    ASSUME SelectInv, Select!RunScript \/ Select!RunSlow
    PROVE  SelectInv'
<1>1. /\ UNCHANGED <<id, desc, access, value, pipe>>
      /\ list' \subseteq list
      /\ \E S \in SUBSET Select!Known : rows' = Select!Results(Select!Expected(S))
  <2>1. CASE Select!RunScript
    BY <2>1, FastIsExact DEF Select!RunScript
  <2>2. CASE Select!RunSlow
    BY <2>2, SlowIsExact DEF Select!RunSlow, Select!redis
  <2>3. QED
    BY <2>1, <2>2
<1>2. /\ ~rows'.throws
      /\ rows'.tuples \subseteq [name : StoredNames, desc : StoredDescs, access : Access,
                                 value : StoredValues \cup {""}]
  BY <1>1, LoadTypes
<1>3. IsFiniteSet(list')
  BY <1>1, FS_Subset DEF SelectInv
<1>4. Select!TypeOK'
  BY <1>1, <1>2 DEF SelectInv, Select!TypeOK
<1>5. QED
  BY <1>1, <1>3, <1>4 DEF SelectInv, Remaining

(* Values come and go without a connection's doing.                        *)
LEMMA ValueStep ==
    ASSUME SelectInv, NEW n \in StoredNames,
           Select!Expire(n) \/ \E v \in StoredValues : Select!InsertData(n, v)
    PROVE  SelectInv'
<1>1. /\ UNCHANGED <<list, id, desc, access, pipe, rows>>
      /\ \E v \in StoredValues \cup {Null} : value' = [value EXCEPT ![n] = v]
  BY DEF Select!Expire, Select!InsertData
<1>2. QED
  <2>1. Select!TypeOK'
    BY <1>1 DEF SelectInv, Select!TypeOK
  <2>2. \A t \in QueryThreads : Remaining(pipe'[t], access', desc')
    BY <1>1 DEF SelectInv, Remaining
  <2>3. QED
    BY <1>1, <2>1, <2>2 DEF SelectInv

LEMMA PipeStep ==
    ASSUME SelectInv, NEW t \in QueryThreads, NEW s,
           pipe' = [pipe EXCEPT ![t] = s]
    PROVE  /\ pipe'[t] = s /\ \A u \in QueryThreads : u # t => pipe'[u] = pipe[u]
           /\ DOMAIN pipe' = QueryThreads
BY DEF SelectInv

LEMMA InsertStep ==
    ASSUME SelectInv, NEW t \in QueryThreads, NEW n \in StoredNames, NEW d \in StoredDescs,
           NEW a \in Access, Select!InsertCookie(t, n, d, a)
    PROVE  SelectInv'
<1>1. /\ UNCHANGED <<list, id, desc, access, value, rows>>
      /\ \E s : /\ pipe' = [pipe EXCEPT ![t] = s]
                /\ s = <<<<"SADD", n, Null>>>> \/ s = Insertion(n, d, a)
  BY DEF Select!InsertCookie, Select!redis, Insertion
<1>2. PICK s : /\ pipe' = [pipe EXCEPT ![t] = s]
               /\ s = <<<<"SADD", n, Null>>>> \/ s = Insertion(n, d, a)
  BY <1>1
<1>3. Remaining(s, access, desc) /\ Len(s) <= 4
  <2>1. CASE s = <<<<"SADD", n, Null>>>>
    BY <2>1 DEF Remaining
  <2>2. CASE s = Insertion(n, d, a)
    <3>1. Remaining(s, access, desc)
      BY <2>2 DEF Remaining
    <3>2. Len(s) = 4
      BY <2>2 DEF Insertion
    <3>3. QED
      BY <3>1, <3>2
  <2>3. QED
    BY <1>2, <2>1, <2>2
<1>4. Remaining(s, access', desc')
  BY <1>1, <1>3 DEF Remaining
<1>5. /\ pipe'[t] = s /\ \A u \in QueryThreads : u # t => pipe'[u] = pipe[u]
      /\ DOMAIN pipe' = QueryThreads
  BY <1>2, PipeStep
<1>6. \A u \in QueryThreads : Remaining(pipe'[u], access', desc')
  BY <1>1, <1>4, <1>5 DEF SelectInv, Remaining
<1>7. Select!TypeOK'
  BY <1>1, <1>3, <1>5 DEF SelectInv, Select!TypeOK
<1>8. QED
  BY <1>1, <1>5, <1>6, <1>7 DEF SelectInv

(* A command that is executed is the first one left, and those that remain *)
(* follow from what it wrote.                                              *)
Command(c) ==
    /\ list' = IF c[1] = "SADD" THEN list \cup {c[2]} ELSE list
    /\ id' = IF c[1] = "id" THEN [id EXCEPT ![c[2]] = c[3]] ELSE id
    /\ desc' = IF c[1] = "desc" THEN [desc EXCEPT ![c[2]] = c[3]] ELSE desc
    /\ access' = IF c[1] = "access" THEN [access EXCEPT ![c[2]] = c[3]] ELSE access

Kept ==
    /\ list' \subseteq StoredNames /\ IsFiniteSet(list')
    /\ id' \in [StoredNames -> {"1", Null}]
    /\ desc' \in [StoredNames -> StoredDescs \cup {Null}]
    /\ access' \in [StoredNames -> Access \cup {Null}]
    /\ \A n \in StoredNames : /\ id'[n] # Null => desc'[n] # Null /\ access'[n] # Null
                              /\ desc[n] # Null => desc'[n] # Null
                              /\ access[n] # Null => access'[n] # Null

(* A sequence of up to four commands, taken one by one                     *)
LEMMA Taken ==
    ASSUME NEW c, NEW d, NEW e, NEW f
    PROVE  /\ Head(<<c>>) = c /\ Tail(<<c>>) = <<>>
           /\ Head(<<c, d>>) = c /\ Tail(<<c, d>>) = <<d>>
           /\ Head(<<c, d, e>>) = c /\ Tail(<<c, d, e>>) = <<d, e>>
           /\ Head(<<c, d, e, f>>) = c /\ Tail(<<c, d, e, f>>) = <<d, e, f>>
           /\ Len(<<>>) = 0 /\ Len(<<d>>) = 1 /\ Len(<<d, e>>) = 2 /\ Len(<<d, e, f>>) = 3
OBVIOUS

LEMMA CommandDoes ==
    ASSUME NEW k, NEW n, NEW v, Command(<<k, n, v>>)
    PROVE  /\ list' = IF k = "SADD" THEN list \cup {n} ELSE list
           /\ id' = IF k = "id" THEN [id EXCEPT ![n] = v] ELSE id
           /\ desc' = IF k = "desc" THEN [desc EXCEPT ![n] = v] ELSE desc
           /\ access' = IF k = "access" THEN [access EXCEPT ![n] = v] ELSE access
<1> DEFINE c == <<k, n, v>>
<1>1. c[1] = k /\ c[2] = n /\ c[3] = v
  OBVIOUS
<1>2. Command(c)
  OBVIOUS
<1> HIDE DEF c
<1>3. QED
  BY <1>1, <1>2 DEF Command

(* The name goes on the list: nothing that was there is lost.              *)
LEMMA ListKept ==
    ASSUME SelectInv, NEW n \in StoredNames, Command(<<"SADD", n, Null>>)
    PROVE  Kept
<1>1. list' = list \cup {n} /\ id' = id /\ desc' = desc /\ access' = access
  BY CommandDoes
<1>2. IsFiniteSet(list \cup {n})
  BY FS_AddElement DEF SelectInv
<1>3. QED
  BY <1>1, <1>2 DEF SelectInv, Select!TypeOK, Kept

LEMMA AccessKept ==
    ASSUME SelectInv, NEW n \in StoredNames, NEW a \in Access, Command(<<"access", n, a>>)
    PROVE  Kept /\ access'[n] # Null
<1>1. list' = list /\ id' = id /\ desc' = desc /\ access' = [access EXCEPT ![n] = a]
  BY CommandDoes
<1>2. a # Null
  BY SelectConstants
<1>3. QED
  BY <1>1, <1>2 DEF SelectInv, Select!TypeOK, Kept

LEMMA DescKept ==
    ASSUME SelectInv, NEW n \in StoredNames, NEW d \in StoredDescs, Command(<<"desc", n, d>>)
    PROVE  Kept /\ desc'[n] # Null
<1>1. list' = list /\ id' = id /\ access' = access /\ desc' = [desc EXCEPT ![n] = d]
  BY CommandDoes
<1>2. d # Null
  BY SelectConstants
<1>3. QED
  BY <1>1, <1>2 DEF SelectInv, Select!TypeOK, Kept

(* The id comes last: a name that has one has the other two.               *)
LEMMA IdKept ==
    ASSUME SelectInv, NEW n \in StoredNames, Command(<<"id", n, "1">>),
           access[n] # Null, desc[n] # Null
    PROVE  Kept
<1>1. list' = list /\ access' = access /\ desc' = desc /\ id' = [id EXCEPT ![n] = "1"]
  BY CommandDoes
<1>2. QED
  BY <1>1 DEF SelectInv, Select!TypeOK, Kept

LEMMA CommandKept ==
    ASSUME SelectInv, NEW s, s # <<>>, Remaining(s, access, desc), Command(Head(s))
    PROVE  Kept /\ Remaining(Tail(s), access', desc') /\ Len(Tail(s)) <= 4
<1> DEFINE first == Head(s)
           rest == Tail(s)
           Done == Kept /\ Remaining(rest, access', desc') /\ Len(rest) <= 4
           list1(n) == <<"SADD", n, Null>>
           access1(n, a) == <<"access", n, a>>
           desc1(n, d) == <<"desc", n, d>>
           id1(n) == <<"id", n, "1">>
<1>0. Command(first)
  OBVIOUS
<1> HIDE DEF first, rest
<1>1. ASSUME NEW n \in StoredNames, s = <<list1(n)>>  PROVE Done
  <2> HIDE DEF list1
  <2>1. first = list1(n) /\ rest = <<>> /\ Len(rest) = 0
    BY <1>1, Taken DEF first, rest
  <2>2. Kept
    BY <1>0, <2>1, ListKept DEF list1
  <2>3. QED
    BY <2>1, <2>2 DEF Remaining
<1>2. ASSUME NEW n \in StoredNames, NEW d \in StoredDescs, NEW a \in Access
      PROVE  /\ s = <<list1(n), access1(n, a), desc1(n, d), id1(n)>> => Done
             /\ s = <<access1(n, a), desc1(n, d), id1(n)>> => Done
             /\ s = <<desc1(n, d), id1(n)>> /\ access[n] # Null => Done
             /\ s = <<id1(n)>> /\ access[n] # Null /\ desc[n] # Null => Done
  <2>1. Remaining(<<access1(n, a), desc1(n, d), id1(n)>>, access', desc')
    BY DEF Remaining
  <2>2. access'[n] # Null => Remaining(<<desc1(n, d), id1(n)>>, access', desc')
    BY DEF Remaining
  <2>3. access'[n] # Null /\ desc'[n] # Null => Remaining(<<id1(n)>>, access', desc')
    BY DEF Remaining
  <2>4. Remaining(<<>>, access', desc')
    BY DEF Remaining
  <2>5. /\ Command(list1(n)) => Kept
        /\ Command(access1(n, a)) => Kept /\ access'[n] # Null
        /\ Command(desc1(n, d)) => Kept /\ desc'[n] # Null
        /\ Command(id1(n)) /\ access[n] # Null /\ desc[n] # Null => Kept
    BY ListKept, AccessKept, DescKept, IdKept
  <2> HIDE DEF list1, access1, desc1, id1
  <2>6. CASE s = <<list1(n), access1(n, a), desc1(n, d), id1(n)>>
    <3>1. /\ first = list1(n) /\ rest = <<access1(n, a), desc1(n, d), id1(n)>>
          /\ Len(rest) = 3
      BY <2>6, Taken DEF first, rest
    <3>2. QED
      BY <1>0, <2>1, <2>5, <3>1
  <2>7. CASE s = <<access1(n, a), desc1(n, d), id1(n)>>
    <3>1. /\ first = access1(n, a) /\ rest = <<desc1(n, d), id1(n)>>
          /\ Len(rest) = 2
      BY <2>7, Taken DEF first, rest
    <3>2. QED
      BY <1>0, <2>2, <2>5, <3>1
  <2>8. CASE s = <<desc1(n, d), id1(n)>> /\ access[n] # Null
    <3>1. first = desc1(n, d) /\ rest = <<id1(n)>> /\ Len(rest) = 1
      BY <2>8, Taken DEF first, rest
    <3>2. access'[n] # Null
      BY <1>0, <2>5, <2>8, <3>1 DEF Kept
    <3>3. QED
      BY <1>0, <2>3, <2>5, <3>1, <3>2
  <2>9. CASE s = <<id1(n)>> /\ access[n] # Null /\ desc[n] # Null
    <3>1. first = id1(n) /\ rest = <<>> /\ Len(rest) = 0
      BY <2>9, Taken DEF first, rest
    <3>2. QED
      BY <1>0, <2>4, <2>5, <2>9, <3>1
  <2>10. QED
    BY <2>6, <2>7, <2>8, <2>9
<1>3. QED
  BY <1>1, <1>2 DEF Remaining, Insertion, first, rest

(* Whatever another connection had left, its hypotheses still hold.        *)
LEMMA StaysRemaining ==
    ASSUME Kept, NEW s, Remaining(s, access, desc)  PROVE Remaining(s, access', desc')
BY DEF Remaining, Kept

LEMMA ExecuteStep ==
    ASSUME SelectInv, NEW t \in QueryThreads, Select!Execute(t)
    PROVE  SelectInv'
<1> DEFINE s == pipe[t]
<1>1. /\ s # <<>> /\ Command(Head(s))
      /\ pipe' = [pipe EXCEPT ![t] = Tail(s)]
      /\ UNCHANGED <<value, rows>>
  BY DEF Select!Execute, Command
<1>2. Remaining(s, access, desc) /\ Len(s) <= 4
  BY DEF SelectInv, Select!TypeOK
<1> HIDE DEF s
<1>3. Kept /\ Remaining(Tail(s), access', desc') /\ Len(Tail(s)) <= 4
  <2>1. /\ s # <<>> /\ Command(Head(s)) /\ Remaining(s, access, desc)
    BY <1>1, <1>2
  <2>2. QED
    BY <2>1, CommandKept
<1>4. /\ pipe'[t] = Tail(s) /\ \A u \in QueryThreads : u # t => pipe'[u] = pipe[u]
      /\ DOMAIN pipe' = QueryThreads
  BY <1>1, PipeStep
<1>5. \A u \in QueryThreads : u # t => Remaining(pipe'[u], access', desc')
  <2>1. ASSUME NEW u \in QueryThreads, u # t  PROVE Remaining(pipe'[u], access', desc')
    <3>1. Remaining(pipe[u], access, desc) /\ pipe'[u] = pipe[u]
      BY <1>4, <2>1 DEF SelectInv
    <3>2. QED
      BY <1>3, <3>1, StaysRemaining
  <2>2. QED
    BY <2>1
<1>6. \A u \in QueryThreads : Remaining(pipe'[u], access', desc')
  BY <1>3, <1>4, <1>5
<1>7. Select!TypeOK'
  BY <1>1, <1>3, <1>4 DEF SelectInv, Select!TypeOK, Kept
<1>8. QED
  BY <1>3, <1>4, <1>6, <1>7 DEF SelectInv, Kept

LEMMA SelectStep ==
    ASSUME SelectInv, Select!Next  PROVE SelectInv'
<1>1. \/ Select!RunScript \/ Select!RunSlow
      \/ \E t \in QueryThreads :
            \/ Select!Execute(t)
            \/ \E n \in StoredNames, d \in StoredDescs, a \in Access :
                  Select!InsertCookie(t, n, d, a)
      \/ \E n \in StoredNames :
            Select!Expire(n) \/ \E v \in StoredValues : Select!InsertData(n, v)
  BY DEF Select!Next
<1>2. QED
  BY <1>1, LoadStep, ValueStep, InsertStep, ExecuteStep

LEMMA SelectIdle ==
    ASSUME SelectInv, UNCHANGED selectVars  PROVE SelectInv'
<1>1. UNCHANGED <<list, id, desc, access, value, pipe, rows>>
  BY DEF selectVars
<1>2. QED
  BY <1>1 DEF SelectInv, Select!TypeOK, Remaining

(* A load by either path gives every cookie that has an id (the script:    *)
(* that is also on the list) with its description, access level and the    *)
(* player's value, and throws nothing, whatever other connections are      *)
(* registering (query.cpp:167-259).                                        *)
THEOREM LoadsAreExact == Spec => LoadIsExact
<1>1. Init => SelectInv
  BY SelectInit DEF Init
<1>2. SelectInv /\ [Next]_vars => SelectInv'
  BY OnePart, SelectStep, SelectIdle
<1>3. SelectInv => Select!TypeOK
  BY DEF SelectInv
<1>4. SelectInv => [/\ Select!RunScript =>
                          rows' = Select!Results(Select!Expected(list \cap Select!Known))
                    /\ Select!RunSlow =>
                          rows' = Select!Results(Select!Expected(Select!Known))]_(Select!vars)
  BY FastIsExact, SlowIsExact DEF Select!RunScript, Select!RunSlow
<1>5. QED
  BY <1>1, <1>2, <1>3, <1>4, PTL DEF Spec, LoadIsExact, Select!LoadIsExact

-----------------------------------------------------------------------------
(* The free list                                                           *)

(* The threads that have taken a reference to a node in try_get            *)
Holds(t, n) ==
    \/ takerPc[t] \in {"next", "pop", "check", "drop"} /\ head[t] = n
    \/ takerPc[t] = "undo" /\ seen[t] = n
Holders(n) == {t \in Threads : Holds(t, n)}

Adds(t, n) == Pool!Adding(t) /\ node[t] = n

(* The reference that is the list's, until the node's taker drops it       *)
Counted(n) ==
    \/ owner[n] = Null /\ ~refs[n].bit
    \/ \E t \in Threads : takerPc[t] \in {"check", "drop"} /\ head[t] = n

Listed(n) == owner[n] = Null /\ ~refs[n].bit /\ \A t \in Threads : ~Adds(t, n)

PoolTypes ==
    /\ freeListHead \in Nodes \cup {Null}
    /\ refs \in [Nodes -> [n : Nat, bit : BOOLEAN]]
    /\ next \in [Nodes -> Nodes \cup {Null}]
    /\ owner \in [Nodes -> Threads \cup {Null}]
    /\ takerPc \in [Threads -> Pool!PCs]
    /\ head \in [Threads -> Nodes \cup {Null}]
    /\ node \in [Threads -> Nodes \cup {Null}]
    /\ DOMAIN seen = Threads
    /\ \A t \in Threads :
          /\ takerPc[t] \in {"refs", "grab", "next", "pop", "check", "drop"} => head[t] \in Nodes
          /\ takerPc[t] = "undo" => seen[t] \in Nodes
          /\ takerPc[t] = "grab" => seen[t].n # 0
          /\ takerPc[t] \in {"add", "link", "open", "push", "defer"} => node[t] \in Nodes
          /\ Pool!Adding(t) => seen[t] \in Nodes \cup {Null}

(* A node's count is the references to it.                                 *)
PoolCounts ==
    \A n \in Nodes :
        refs[n].n = Cardinality(Holders(n)) + IF Counted(n) THEN 1 ELSE 0

(* A flagged node is nobody's, and somebody adds it or has a reference to  *)
(* it; who adds one does so alone, and nothing refers to it until it is    *)
(* open.                                                                   *)
PoolFlags ==
    /\ \A n \in Nodes : refs[n].bit => /\ owner[n] = Null
                                       /\ refs[n].n # 0 \/ \E t \in Threads : Adds(t, n)
    /\ \A t \in Threads :
          /\ takerPc[t] \in {"check", "drop"} => owner[head[t]] = t
          /\ takerPc[t] = "add" => owner[node[t]] = t
          /\ Pool!Adding(t) => owner[node[t]] = Null
          /\ takerPc[t] \in {"link", "open"} => refs[node[t]].bit /\ refs[node[t]].n = 0
          /\ takerPc[t] \in {"push", "defer"} => ~refs[node[t]].bit
          /\ takerPc[t] = "pop" => next[head[t]] = seen[t]
          /\ takerPc[t] \in {"open", "push"} => next[node[t]] = seen[t]
    /\ \A t, u \in Threads : Pool!Adding(t) /\ Pool!Adding(u) /\ node[t] = node[u] => t = u

(* The head is listed, and the next of what is listed; every other node    *)
(* that is listed is the next of one closer to the head, of only one.      *)
PoolChain ==
    /\ freeListHead # Null => Listed(freeListHead)
    /\ \A n \in Nodes : Listed(n) /\ next[n] # Null =>
                            Listed(next[n]) /\ next[n] # freeListHead
    /\ \A m, n \in Nodes : Listed(m) /\ Listed(n) /\ next[m] = next[n] /\ next[m] # Null => m = n
    /\ \E rank \in [Nodes -> Nat] :
          \A n \in Nodes : Listed(n) /\ n # freeListHead =>
              \E m \in Nodes : Listed(m) /\ next[m] = n /\ rank[m] < rank[n]

PoolInv == PoolTypes /\ PoolCounts /\ PoolFlags /\ PoolChain

LEMMA PoolConstants ==
    IsFiniteSet(Nodes) /\ IsFiniteSet(Threads) /\ Null \notin Nodes \cup Threads
BY PartsAssumption DEF PartsAssumption, Pool!FreeListAssumption, Pool!IsFiniteSet, IsFiniteSet

(* The count and the flag of a node are all there is to it.                *)
LEMMA RefFields ==
    ASSUME NEW r \in [n : Nat, bit : BOOLEAN], NEW k \in Nat, NEW b \in BOOLEAN
    PROVE  /\ r = Pool!Ref(k, b) <=> r.n = k /\ r.bit = b
           /\ Pool!Ref(k, b).n = k /\ Pool!Ref(k, b).bit = b
           /\ Pool!Ref(k, b) \in [n : Nat, bit : BOOLEAN]
BY DEF Pool!Ref

(* One node's count and flag change.                                       *)
Changes(h, k, b) ==
    /\ refs' \in [Nodes -> [n : Nat, bit : BOOLEAN]]
    /\ refs'[h].n = k /\ refs'[h].bit = b
    /\ \A m \in Nodes : m # h => refs'[m] = refs[m]

LEMMA RefsChange ==
    ASSUME PoolTypes, NEW h \in Nodes, NEW k \in Nat, NEW b \in BOOLEAN
    PROVE  /\ refs' = [refs EXCEPT ![h] = Pool!Ref(k, b)] => Changes(h, k, b)
           /\ refs' = [refs EXCEPT ![h].n = k] => Changes(h, k, refs[h].bit)
           /\ refs' = [refs EXCEPT ![h].bit = b] => Changes(h, refs[h].n, b)
<1>1. refs \in [Nodes -> [n : Nat, bit : BOOLEAN]] /\ refs[h] \in [n : Nat, bit : BOOLEAN]
  BY DEF PoolTypes
<1>2. ASSUME refs' = [refs EXCEPT ![h] = Pool!Ref(k, b)]
      PROVE  Changes(h, k, b)
  <2>1. /\ Pool!Ref(k, b) \in [n : Nat, bit : BOOLEAN]
        /\ Pool!Ref(k, b).n = k /\ Pool!Ref(k, b).bit = b
    BY <1>1, RefFields
  <2>2. QED
    BY <1>1, <1>2, <2>1 DEF Changes
<1>3. ASSUME refs' = [refs EXCEPT ![h].n = k]
      PROVE  Changes(h, k, refs[h].bit)
  BY <1>1, <1>3 DEF Changes
<1>4. ASSUME refs' = [refs EXCEPT ![h].bit = b]
      PROVE  Changes(h, refs[h].n, b)
  BY <1>1, <1>4 DEF Changes
<1>5. QED
  BY <1>2, <1>3, <1>4

LEMMA PoolInit ==
    ASSUME Pool!Init  PROVE PoolInv
<1>1. PoolTypes
  BY DEF Pool!Init, PoolTypes, Pool!Ref, Pool!PCs, Pool!Adding
<1>2. /\ \A n \in Nodes : refs[n].n = 0 /\ ~refs[n].bit /\ owner[n] \in Threads
      /\ \A t \in Threads : takerPc[t] = "idle"
      /\ freeListHead = Null
  BY DEF Pool!Init, Pool!Ref
<1>3. \A n \in Nodes : Holders(n) = {} /\ ~Counted(n)
  BY <1>2, PoolConstants DEF Holders, Holds, Counted
<1>4. PoolCounts
  <2>1. Cardinality({}) = 0
    BY FS_EmptySet
  <2>2. ASSUME NEW n \in Nodes
        PROVE  refs[n].n = Cardinality(Holders(n)) + IF Counted(n) THEN 1 ELSE 0
    <3>1. refs[n].n = 0 /\ Holders(n) = {} /\ ~Counted(n)
      BY <1>2, <1>3
    <3>2. QED
      BY <2>1, <3>1
  <2>3. QED
    BY <2>2 DEF PoolCounts
<1>5. PoolFlags
  BY <1>2 DEF PoolFlags, Pool!Adding
<1>6. PoolChain
  <2>1. \A n \in Nodes : ~Listed(n)
    BY <1>2, PoolConstants DEF Listed
  <2>2. [n \in Nodes |-> 0] \in [Nodes -> Nat]
    OBVIOUS
  <2>3. QED
    BY <1>2, <2>1, <2>2 DEF PoolChain
<1>7. QED
  BY <1>1, <1>4, <1>5, <1>6 DEF PoolInv

(* Of a step only one thread's local variables change.                     *)
Others(t) ==
    \A u \in Threads : u # t =>
        /\ takerPc'[u] = takerPc[u] /\ head'[u] = head[u]
        /\ seen'[u] = seen[u] /\ node'[u] = node[u]

LEMMA HoldersChange ==
    ASSUME NEW t \in Threads, Others(t), NEW n
    PROVE  /\ Holds(t, n)' => Holders(n)' = Holders(n) \cup {t}
           /\ ~Holds(t, n)' => Holders(n)' = Holders(n) \ {t}
           /\ (Holds(t, n)' <=> Holds(t, n)) => Holders(n)' = Holders(n)
<1>1. \A u \in Threads : u # t => (Holds(u, n)' <=> Holds(u, n))
  BY DEF Others, Holds
<1> DEFINE old(u) == Holds(u, n)
           new(u) == Holds(u, n)'
<1>2. Holders(n) = {u \in Threads : old(u)} /\ Holders(n)' = {u \in Threads : new(u)}
  BY DEF Holders
<1>3. \A u \in Threads : u # t => (new(u) <=> old(u))
  BY <1>1
<1> HIDE DEF old, new
<1>4. /\ new(t) => Holders(n)' = Holders(n) \cup {t}
      /\ ~new(t) => Holders(n)' = Holders(n) \ {t}
      /\ (new(t) <=> old(t)) => Holders(n)' = Holders(n)
  BY <1>2, <1>3
<1>5. QED
  BY <1>4 DEF old, new

LEMMA HoldersCounted ==
    ASSUME NEW n, NEW t \in Threads
    PROVE  /\ IsFiniteSet(Holders(n)) /\ Cardinality(Holders(n)) \in Nat
           /\ Cardinality(Holders(n)) <= Cardinality(Threads)
           /\ t \in Holders(n) => /\ Cardinality(Holders(n)) # 0
                                  /\ Cardinality(Holders(n) \ {t}) = Cardinality(Holders(n)) - 1
           /\ t \notin Holders(n) =>
                 Cardinality(Holders(n) \cup {t}) = Cardinality(Holders(n)) + 1
           /\ t \in Holders(n) <=> Holds(t, n)
<1>1. Holders(n) \subseteq Threads /\ (t \in Holders(n) <=> Holds(t, n))
  BY DEF Holders
<1> DEFINE S == Holders(n)
<1>2. S \subseteq Threads
  BY <1>1
<1> HIDE DEF S
<1>3. IsFiniteSet(S) /\ Cardinality(S) \in Nat /\ Cardinality(S) <= Cardinality(Threads)
  BY <1>2, PoolConstants, FS_Subset, FS_CardinalityType
<1>4. t \in S => Cardinality(S) # 0 /\ Cardinality(S \ {t}) = Cardinality(S) - 1
  BY <1>3, FS_RemoveElement, FS_EmptySet
<1>5. t \notin S => Cardinality(S \cup {t}) = Cardinality(S) + 1
  BY <1>3, FS_AddElement
<1>6. QED
  BY <1>1, <1>3, <1>4, <1>5 DEF S

(* What of a node is looked at in the counts, and in the chain             *)
LEMMA CountsKept ==
    ASSUME PoolCounts,
           \A n \in Nodes : /\ refs'[n].n = refs[n].n /\ Holders(n)' = Holders(n)
                            /\ (Counted(n)' <=> Counted(n))
    PROVE  PoolCounts'
<1> DEFINE c(n) == Counted(n)
           d(n) == Counted(n)'
           h(n) == Holders(n)
           k(n) == Holders(n)'
<1>1. \A n \in Nodes : refs[n].n = Cardinality(h(n)) + IF c(n) THEN 1 ELSE 0
  BY DEF PoolCounts
<1>2. \A n \in Nodes : refs'[n].n = refs[n].n /\ k(n) = h(n) /\ (d(n) <=> c(n))
  OBVIOUS
<1> HIDE DEF c, d, h, k
<1>3. \A n \in Nodes : refs'[n].n = Cardinality(k(n)) + IF d(n) THEN 1 ELSE 0
  BY <1>1, <1>2
<1>4. QED
  BY <1>3 DEF PoolCounts, d, k

LEMMA ChainKept ==
    ASSUME PoolTypes, PoolChain, next' = next, freeListHead' = freeListHead,
           \A n \in Nodes : Listed(n)' <=> Listed(n)
    PROVE  PoolChain'
<1> DEFINE old(n) == Listed(n)
           new(n) == Listed(n)'
<1>1. PICK rank \in [Nodes -> Nat] :
         \A n \in Nodes : old(n) /\ n # freeListHead =>
             \E m \in Nodes : old(m) /\ next[m] = n /\ rank[m] < rank[n]
  BY DEF PoolChain
<1>2. /\ freeListHead # Null => old(freeListHead)
      /\ \A n \in Nodes : old(n) /\ next[n] # Null => old(next[n]) /\ next[n] # freeListHead
      /\ \A m, n \in Nodes : old(m) /\ old(n) /\ next[m] = next[n] /\ next[m] # Null => m = n
  BY DEF PoolChain
<1>3. /\ \A n \in Nodes : new(n) <=> old(n)
      /\ freeListHead \in Nodes \cup {Null} /\ next \in [Nodes -> Nodes \cup {Null}]
  BY DEF PoolTypes
<1> HIDE DEF old, new
<1>4. /\ freeListHead # Null => new(freeListHead)
      /\ \A n \in Nodes : new(n) /\ next[n] # Null => new(next[n]) /\ next[n] # freeListHead
      /\ \A m, n \in Nodes : new(m) /\ new(n) /\ next[m] = next[n] /\ next[m] # Null => m = n
  BY <1>2, <1>3
<1>5. \A n \in Nodes : new(n) /\ n # freeListHead =>
         \E m \in Nodes : new(m) /\ next[m] = n /\ rank[m] < rank[n]
  BY <1>1, <1>3
<1>6. PoolChain'
  BY <1>4, <1>5 DEF PoolChain, new
<1>7. QED
  BY <1>6

(* A step after which every node is where it was                           *)
LEMMA QuietStep ==
    ASSUME PoolInv, NEW t \in Threads, Others(t), PoolTypes',
           UNCHANGED <<freeListHead, refs, next, owner>>,
           ~Pool!Adding(t), ~Pool!Adding(t)',
           \A n \in Nodes : Holds(t, n)' <=> Holds(t, n),
           takerPc'[t] \in {"check", "drop"} <=> takerPc[t] \in {"check", "drop"},
           takerPc[t] \in {"check", "drop"} => head'[t] = head[t],
           takerPc'[t] = "add" => owner[node'[t]] = t,
           takerPc'[t] = "pop" => next[head'[t]] = seen'[t]
    PROVE  PoolInv'
<1>1. \A u \in Threads, n \in Nodes : Adds(u, n)' <=> Adds(u, n)
  BY DEF Others, Adds, Pool!Adding
<1>2. \A n \in Nodes : Counted(n)' <=> Counted(n)
  BY DEF Others, Counted
<1>3. PoolCounts'
  <2>1. \A n \in Nodes : Holders(n)' = Holders(n)
    BY HoldersChange
  <2>2. QED
    BY <1>2, <2>1, CountsKept DEF PoolInv
<1>4. PoolFlags'
  BY <1>1 DEF PoolInv, PoolFlags, PoolTypes, Others, Pool!Adding
<1>5. PoolChain'
  <2>1. \A n \in Nodes : Listed(n)' <=> Listed(n)
    BY <1>1 DEF Listed
  <2>2. QED
    BY <2>1, ChainKept DEF PoolInv
<1>6. QED
  BY <1>3, <1>4, <1>5 DEF PoolInv

LEMMA TryGetStep ==
    ASSUME PoolInv, NEW t \in Threads, Pool!TryGet(t)  PROVE PoolInv'
<1>1. /\ takerPc[t] = "idle" /\ takerPc' = [takerPc EXCEPT ![t] = "refs"]
      /\ head' = [head EXCEPT ![t] = freeListHead] /\ freeListHead # Null
      /\ UNCHANGED <<freeListHead, refs, next, owner, seen, node>>
  BY DEF Pool!TryGet, Pool!Loop, Pool!Go, Pool!shared
<1>2. Others(t) /\ takerPc'[t] = "refs"
  BY <1>1 DEF PoolInv, PoolTypes, Others
<1>3. PoolTypes'
  BY <1>1, <1>2 DEF PoolInv, PoolTypes, Pool!PCs, Pool!Adding
<1>4. QED
  BY <1>1, <1>2, <1>3, QuietStep DEF Holds, Pool!Adding

(* A thread that starts over with the head of the moment                   *)
LEMMA LoopStep ==
    ASSUME PoolInv, NEW t \in Threads, takerPc[t] \in {"refs", "grab"},
           Pool!Loop(t, freeListHead), NEW s, seen' = [seen EXCEPT ![t] = s],
           UNCHANGED <<freeListHead, refs, next, owner, node>>
    PROVE  PoolInv'
<1>1. PICK w \in {"idle", "refs"} :
         /\ takerPc' = [takerPc EXCEPT ![t] = w]
         /\ w = "refs" => freeListHead \in Nodes
         /\ head' = [head EXCEPT ![t] = freeListHead]
  BY DEF Pool!Loop, Pool!Go, PoolInv, PoolTypes
<1>2. Others(t) /\ takerPc'[t] = w /\ head'[t] = freeListHead
  BY <1>1 DEF PoolInv, PoolTypes, Others
<1>3. PoolTypes'
  BY <1>1, <1>2 DEF PoolInv, PoolTypes, Pool!PCs, Pool!Adding
<1>4. QED
  BY <1>1, <1>2, <1>3, QuietStep DEF Holds, Pool!Adding

LEMMA LoadRefsStep ==
    ASSUME PoolInv, NEW t \in Threads, Pool!LoadRefs(t)  PROVE PoolInv'
<1>1. CASE refs[head[t]].n = 0
  BY <1>1, LoopStep DEF Pool!LoadRefs, Pool!shared
<1>2. CASE refs[head[t]].n # 0
  <2>1. /\ takerPc[t] = "refs" /\ takerPc' = [takerPc EXCEPT ![t] = "grab"]
        /\ seen' = [seen EXCEPT ![t] = refs[head[t]]]
        /\ UNCHANGED <<freeListHead, refs, next, owner, head, node>>
    BY <1>2 DEF Pool!LoadRefs, Pool!Go, Pool!shared
  <2>2. Others(t) /\ takerPc'[t] = "grab" /\ seen'[t] = refs[head[t]]
    BY <2>1 DEF PoolInv, PoolTypes, Others
  <2>3. PoolTypes'
    BY <1>2, <2>1, <2>2 DEF PoolInv, PoolTypes, Pool!PCs, Pool!Adding
  <2>4. QED
    BY <2>1, <2>2, <2>3, QuietStep DEF Holds, Pool!Adding
<1>3. QED
  BY <1>1, <1>2

LEMMA LoadNextStep ==
    ASSUME PoolInv, NEW t \in Threads, Pool!LoadNext(t)  PROVE PoolInv'
<1>1. /\ takerPc[t] = "next" /\ takerPc' = [takerPc EXCEPT ![t] = "pop"]
      /\ seen' = [seen EXCEPT ![t] = next[head[t]]]
      /\ UNCHANGED <<freeListHead, refs, next, owner, head, node>>
  BY DEF Pool!LoadNext, Pool!Go, Pool!shared
<1>2. Others(t) /\ takerPc'[t] = "pop" /\ seen'[t] = next[head[t]]
  BY <1>1 DEF PoolInv, PoolTypes, Others
<1>3. PoolTypes'
  BY <1>1, <1>2 DEF PoolInv, PoolTypes, Pool!PCs, Pool!Adding
<1>4. QED
  BY <1>1, <1>2, <1>3, QuietStep DEF Holds, Pool!Adding

LEMMA CheckStep ==
    ASSUME PoolInv, NEW t \in Threads, Pool!Check(t)  PROVE PoolInv'
<1>1. /\ takerPc[t] = "check" /\ takerPc' = [takerPc EXCEPT ![t] = "drop"]
      /\ UNCHANGED <<freeListHead, refs, next, owner, head, seen, node>>
  BY DEF Pool!Check, Pool!Go, Pool!shared
<1>2. Others(t) /\ takerPc'[t] = "drop"
  BY <1>1 DEF PoolInv, PoolTypes, Others
<1>3. PoolTypes'
  BY <1>1, <1>2 DEF PoolInv, PoolTypes, Pool!PCs, Pool!Adding
<1>4. QED
  BY <1>1, <1>2, <1>3, QuietStep DEF Holds, Pool!Adding

LEMMA AddStep ==
    ASSUME PoolInv, NEW t \in Threads, NEW n \in Nodes, Pool!Add(t, n)  PROVE PoolInv'
<1>1. /\ takerPc[t] = "idle" /\ takerPc' = [takerPc EXCEPT ![t] = "add"]
      /\ owner[n] = t /\ node' = [node EXCEPT ![t] = n]
      /\ UNCHANGED <<freeListHead, refs, next, owner, head, seen>>
  BY DEF Pool!Add, Pool!Go, Pool!shared
<1>2. Others(t) /\ takerPc'[t] = "add" /\ node'[t] = n
  BY <1>1 DEF PoolInv, PoolTypes, Others
<1>3. PoolTypes'
  BY <1>1, <1>2 DEF PoolInv, PoolTypes, Pool!PCs, Pool!Adding
<1>4. QED
  BY <1>1, <1>2, <1>3, QuietStep DEF Holds, Pool!Adding

(* A step after which one node's count is another                          *)
LEMMA CountsAt ==
    ASSUME PoolInv, NEW t \in Threads, NEW h \in Nodes,
           \A n \in Nodes : n # h => /\ refs'[n] = refs[n] /\ Holders(n)' = Holders(n)
                                     /\ (Counted(n)' <=> Counted(n)),
           NEW H, Holders(h)' = H, NEW c \in BOOLEAN, Counted(h)' <=> c,
           refs'[h].n = Cardinality(H) + IF c THEN 1 ELSE 0
    PROVE  PoolCounts'
<1> DEFINE old(n) == Counted(n)
           new(n) == Counted(n)'
           g(n) == Holders(n)
           k(n) == Holders(n)'
<1>1. \A n \in Nodes : refs[n].n = Cardinality(g(n)) + IF old(n) THEN 1 ELSE 0
  BY DEF PoolInv, PoolCounts
<1>2. \A n \in Nodes : n # h => refs'[n] = refs[n] /\ k(n) = g(n) /\ (new(n) <=> old(n))
  OBVIOUS
<1>3. k(h) = H /\ (new(h) <=> c)
  OBVIOUS
<1> HIDE DEF old, new, g, k
<1>4. \A n \in Nodes : refs'[n].n = Cardinality(k(n)) + IF new(n) THEN 1 ELSE 0
  BY <1>1, <1>2, <1>3
<1>5. QED
  BY <1>4 DEF PoolCounts, new, k

LEMMA CountOf ==
    ASSUME PoolInv, NEW n \in Nodes
    PROVE  /\ refs[n] \in [n : Nat, bit : BOOLEAN]
           /\ refs[n].n = Cardinality(Holders(n)) + IF Counted(n) THEN 1 ELSE 0
           /\ refs[n].n \in Nat /\ Cardinality(Holders(n)) \in Nat
           /\ \A t \in Threads : Holds(t, n) => Cardinality(Holders(n)) # 0 /\ refs[n].n # 0
<1>1. /\ refs[n] \in [n : Nat, bit : BOOLEAN]
      /\ refs[n].n = Cardinality(Holders(n)) + IF Counted(n) THEN 1 ELSE 0
  BY DEF PoolInv, PoolTypes, PoolCounts
<1>2. refs[n].n \in Nat
  BY <1>1
<1>3. IsFiniteSet(Holders(n))
  <2>1. Holders(n) \subseteq Threads
    BY DEF Holders
  <2>2. QED
    BY <2>1, PoolConstants, FS_Subset
<1>4. Cardinality(Holders(n)) \in Nat
  BY <1>3, FS_CardinalityType
<1>5. ASSUME NEW t \in Threads, Holds(t, n)
      PROVE  Cardinality(Holders(n)) # 0 /\ refs[n].n # 0
  <2>1. Cardinality(Holders(n)) # 0
    BY <1>5, HoldersCounted
  <2>2. QED
    BY <1>1, <1>4, <2>1
<1>6. QED
  BY <1>1, <1>2, <1>4, <1>5

LEMMA GrabStep ==
    ASSUME PoolInv, NEW t \in Threads, Pool!Grab(t)  PROVE PoolInv'
<1>0. PICK h : h = head[t]
  OBVIOUS
<1>1. CASE refs[h] # seen[t]
  BY <1>0, <1>1, LoopStep DEF Pool!Grab
<1>2. CASE refs[h] = seen[t]
  <2>1. /\ takerPc[t] = "grab" /\ takerPc' = [takerPc EXCEPT ![t] = "next"]
        /\ seen' = [seen EXCEPT ![t] = Null]
        /\ refs' = [refs EXCEPT ![h].n = refs[h].n + 1]
        /\ UNCHANGED <<freeListHead, next, owner, head, node>>
    BY <1>0, <1>2 DEF Pool!Grab, Pool!Go
  <2>2. h \in Nodes /\ refs[h].n # 0 /\ refs[h].n \in Nat /\ refs[h].bit \in BOOLEAN
    BY <1>0, <1>2, <2>1 DEF PoolInv, PoolTypes
  <2>3. Changes(h, refs[h].n + 1, refs[h].bit)
    BY <2>1, <2>2 DEF PoolInv, PoolTypes, Changes
  <2>4. Others(t) /\ takerPc'[t] = "next" /\ head'[t] = h
    BY <1>0, <2>1 DEF PoolInv, PoolTypes, Others
  <2>5. PoolTypes'
    BY <1>0, <2>1, <2>2, <2>3, <2>4 DEF PoolInv, PoolTypes, Pool!PCs, Pool!Adding, Changes
  <2>6. \A u \in Threads, n \in Nodes : Adds(u, n)' <=> Adds(u, n)
    BY <2>1, <2>4 DEF Others, Adds, Pool!Adding
  <2>7. \A n \in Nodes : Counted(n)' <=> Counted(n)
    BY <2>1, <2>3, <2>4 DEF Others, Counted, Changes
  <2>8. PoolCounts'
    <3>1. \A n \in Nodes : n # h => Holders(n)' = Holders(n)
      BY <2>1, <2>4, HoldersChange DEF Holds
    <3>2. Holders(h)' = Holders(h) \cup {t} /\ ~Holds(t, h)
      BY <2>1, <2>4, HoldersChange DEF Holds
    <3>3. Cardinality(Holders(h) \cup {t}) = Cardinality(Holders(h)) + 1
      BY <3>2, HoldersCounted
    <3>4. refs'[h].n = Cardinality(Holders(h)) + (IF Counted(h) THEN 1 ELSE 0) + 1
      BY <2>2, <2>3, CountOf DEF Changes
    <3>5. PICK H : H = Holders(h) \cup {t}
      OBVIOUS
    <3>6. PICK c \in BOOLEAN : c <=> Counted(h)
      OBVIOUS
    <3>7. refs'[h].n = Cardinality(H) + IF c THEN 1 ELSE 0
      BY <2>2, <3>3, <3>4, <3>5, <3>6, CountOf
    <3>8. \A n \in Nodes : n # h => /\ refs'[n] = refs[n] /\ Holders(n)' = Holders(n)
                                     /\ (Counted(n)' <=> Counted(n))
      BY <2>3, <2>7, <3>1 DEF Changes
    <3>9. Holders(h)' = H /\ (Counted(h)' <=> c)
      BY <2>2, <2>7, <3>2, <3>5, <3>6
    <3>10. QED
      BY <2>2, <3>7, <3>8, <3>9, CountsAt
  <2>9. PoolFlags'
    BY <1>0, <2>1, <2>2, <2>3, <2>4, <2>6 DEF PoolInv, PoolFlags, PoolTypes, Others, Pool!Adding, Changes
  <2>10. PoolChain'
    <3>1. \A n \in Nodes : Listed(n)' <=> Listed(n)
      BY <2>1, <2>3, <2>6 DEF Listed, Changes
    <3>2. QED
      BY <2>1, <3>1, ChainKept DEF PoolInv
  <2>11. QED
    BY <2>5, <2>8, <2>9, <2>10 DEF PoolInv
<1>3. QED
  BY <1>1, <1>2

(* The thread that takes the head has relied on its next, which nobody has *)
(* changed since: what is left of the list is still a list.                *)
LEMMA PopStep ==
    ASSUME PoolInv, NEW t \in Threads, Pool!Pop(t)
    PROVE  PoolInv' /\ (owner' # owner => \E n \in Nodes : Pool!Pool!Get(t, n))
<1>0. PICK h : h = head[t]
  OBVIOUS
<1>1. CASE freeListHead # h
  <2>1. /\ takerPc[t] = "pop" /\ takerPc' = [takerPc EXCEPT ![t] = "undo"]
        /\ seen' = [seen EXCEPT ![t] = h] /\ head' = [head EXCEPT ![t] = freeListHead]
        /\ UNCHANGED <<freeListHead, refs, next, owner, node>>
    BY <1>0, <1>1 DEF Pool!Pop, Pool!Go
  <2>2. Others(t) /\ takerPc'[t] = "undo" /\ seen'[t] = h
    BY <2>1 DEF PoolInv, PoolTypes, Others
  <2>3. PoolTypes'
    BY <1>0, <2>1, <2>2 DEF PoolInv, PoolTypes, Pool!PCs, Pool!Adding
  <2>4. \A n \in Nodes : Holds(t, n)' <=> Holds(t, n)
    BY <1>0, <2>1, <2>2 DEF Holds
  <2>5. QED
    BY <2>1, <2>2, <2>3, <2>4, QuietStep DEF Pool!Adding
<1>2. CASE freeListHead = h
  <2>1. /\ takerPc[t] = "pop" /\ takerPc' = [takerPc EXCEPT ![t] = "check"]
        /\ seen' = [seen EXCEPT ![t] = Null]
        /\ freeListHead' = seen[t] /\ owner' = [owner EXCEPT ![h] = t]
        /\ UNCHANGED <<refs, next, head, node>>
    BY <1>0, <1>2 DEF Pool!Pop, Pool!Go
  <2>2. h \in Nodes /\ h # Null /\ Listed(h) /\ next[h] = seen[t]
    BY <1>0, <1>2, <2>1, PoolConstants DEF PoolInv, PoolTypes, PoolFlags, PoolChain
  <2>3. owner[h] = Null /\ ~refs[h].bit /\ \A u \in Threads : ~Adds(u, h)
    BY <2>2 DEF Listed
  <2>4. /\ Others(t) /\ takerPc'[t] = "check" /\ head'[t] = h /\ owner'[h] = t
        /\ \A n \in Nodes : n # h => owner'[n] = owner[n]
    BY <1>0, <2>1, <2>2 DEF PoolInv, PoolTypes, Others
  <2>5. PoolTypes'
    BY <1>0, <2>1, <2>2, <2>4 DEF PoolInv, PoolTypes, Pool!PCs, Pool!Adding
  <2>6. \A u \in Threads, n \in Nodes : Adds(u, n)' <=> Adds(u, n)
    BY <2>1, <2>4 DEF Others, Adds, Pool!Adding
  <2>7. PoolCounts'
    <3>1. \A n \in Nodes : Holders(n)' = Holders(n)
      BY <1>0, <2>1, <2>4, HoldersChange DEF Holds
    <3>2. \A n \in Nodes : Counted(n)' <=> Counted(n)
      <4>1. ASSUME NEW n \in Nodes, n # h  PROVE Counted(n)' <=> Counted(n)
        BY <1>0, <2>1, <2>4, <4>1 DEF Others, Counted
      <4>2. Counted(h)' /\ Counted(h)
        BY <2>3, <2>4 DEF Counted
      <4>3. QED
        BY <4>1, <4>2
    <3>3. QED
      BY <2>1, <3>1, <3>2, CountsKept DEF PoolInv
  <2>8. PoolFlags'
    BY <1>0, <2>1, <2>2, <2>3, <2>4, <2>6, PoolConstants
       DEF PoolInv, PoolFlags, PoolTypes, Others, Adds, Pool!Adding
  <2>9. PoolChain'
    <3> DEFINE old(n) == Listed(n)
               new(n) == Listed(n)'
    <3>1. \A n \in Nodes : new(n) <=> old(n) /\ n # h
      <4>1. ASSUME NEW n \in Nodes, n # h  PROVE Listed(n)' <=> Listed(n)
        BY <2>1, <2>4, <2>6, <4>1 DEF Listed
      <4>2. ~Listed(h)'
        BY <2>4, PoolConstants DEF Listed
      <4>3. QED
        BY <4>1, <4>2
    <3>2. PICK rank \in [Nodes -> Nat] :
             \A n \in Nodes : old(n) /\ n # h =>
                 \E m \in Nodes : old(m) /\ next[m] = n /\ rank[m] < rank[n]
      BY <1>2 DEF PoolInv, PoolChain
    <3>3. /\ \A n \in Nodes : old(n) /\ next[n] # Null => old(next[n]) /\ next[n] # h
          /\ \A m, n \in Nodes :
                old(m) /\ old(n) /\ next[m] = next[n] /\ next[m] # Null => m = n
      BY <1>2 DEF PoolInv, PoolChain
    <3>. PICK g : g = next[h]
      OBVIOUS
    <3>4. /\ next \in [Nodes -> Nodes \cup {Null}] /\ freeListHead' = g /\ g = next[h] /\ next' = next
          /\ old(h)
      BY <2>1, <2>2 DEF PoolInv, PoolTypes
    <3> HIDE DEF old, new
    <3>5. /\ g # Null => new(g)
          /\ \A n \in Nodes : new(n) /\ next[n] # Null =>
                                  new(next[n]) /\ next[n] # g
          /\ \A m, n \in Nodes : new(m) /\ new(n) /\ next[m] = next[n] /\ next[m] # Null => m = n
      BY <2>2, <3>1, <3>3, <3>4
    <3>6. \A n \in Nodes : new(n) /\ n # g =>
             \E m \in Nodes : new(m) /\ next[m] = n /\ rank[m] < rank[n]
      BY <2>2, <3>1, <3>2, <3>4
    <3>7. QED
      BY <3>4, <3>5, <3>6 DEF PoolChain, new
  <2>10. \E n \in Nodes : Pool!Pool!Get(t, n)
    BY <2>1, <2>2, <2>3 DEF Pool!Pool!Get
  <2>11. QED
    BY <2>5, <2>7, <2>8, <2>9, <2>10 DEF PoolInv
<1>3. QED
  BY <1>1, <1>2

LEMMA DropStep ==
    ASSUME PoolInv, NEW t \in Threads, Pool!Drop(t)  PROVE PoolInv'
<1>0. PICK h : h = head[t]
  OBVIOUS
<1>1. /\ takerPc[t] = "drop" /\ takerPc' = [takerPc EXCEPT ![t] = "idle"]
      /\ head' = [head EXCEPT ![t] = Null]
      /\ refs' = [refs EXCEPT ![h].n = refs[h].n - 2]
      /\ UNCHANGED <<freeListHead, next, owner, seen, node>>
  BY <1>0 DEF Pool!Drop, Pool!Go
<1>2. h \in Nodes /\ owner[h] = t /\ Holds(t, h) /\ Counted(h) /\ t # Null
  BY <1>0, <1>1, PoolConstants DEF PoolInv, PoolTypes, PoolFlags, Holds, Counted
<1>3. /\ refs[h].n = Cardinality(Holders(h)) + 1 /\ Cardinality(Holders(h)) # 0
      /\ Cardinality(Holders(h)) \in Nat /\ refs[h].bit \in BOOLEAN
  BY <1>2, CountOf
<1>4. Changes(h, refs[h].n - 2, refs[h].bit)
  <2>1. PICK k \in Nat : k = refs[h].n - 2
    BY <1>3
  <2>2. refs' = [refs EXCEPT ![h].n = k]
    BY <1>1, <2>1
  <2>3. QED
    BY <1>2, <1>3, <2>1, <2>2 DEF PoolInv, PoolTypes, Changes
<1>5. Others(t) /\ takerPc'[t] = "idle" /\ head'[t] = Null
  BY <1>1 DEF PoolInv, PoolTypes, Others
<1>6. PoolTypes'
  BY <1>1, <1>4, <1>5 DEF PoolInv, PoolTypes, Pool!PCs, Pool!Adding, Changes
<1>7. \A u \in Threads, n \in Nodes : Adds(u, n)' <=> Adds(u, n)
  BY <1>1, <1>5 DEF Others, Adds, Pool!Adding
<1>8. \A n \in Nodes : n # h => (Counted(n)' <=> Counted(n))
  BY <1>0, <1>1, <1>4, <1>5 DEF Others, Counted, Changes
<1>9. ~Counted(h)'
  BY <1>1, <1>2, <1>5 DEF PoolInv, PoolFlags, PoolTypes, Others, Counted
<1>10. PoolCounts'
  <2>1. \A n \in Nodes : n # h => Holders(n)' = Holders(n)
    BY <1>0, <1>1, <1>5, HoldersChange DEF Holds
  <2>2. Holders(h)' = Holders(h) \ {t}
    BY <1>5, HoldersChange DEF Holds
  <2>3. Cardinality(Holders(h) \ {t}) = Cardinality(Holders(h)) - 1
    BY <1>2, HoldersCounted
  <2>4. PICK H : H = Holders(h) \ {t}
    OBVIOUS
  <2>5. refs'[h].n = Cardinality(H) + IF FALSE THEN 1 ELSE 0
    BY <1>3, <1>4, <2>3, <2>4 DEF Changes
  <2>6. \A n \in Nodes : n # h => /\ refs'[n] = refs[n] /\ Holders(n)' = Holders(n)
                                   /\ (Counted(n)' <=> Counted(n))
    BY <1>4, <1>8, <2>1 DEF Changes
  <2>7. Holders(h)' = H /\ (Counted(h)' <=> FALSE)
    BY <1>9, <2>2, <2>4
  <2>8. QED
    BY <1>2, <2>5, <2>6, <2>7, CountsAt
<1>11. PoolFlags'
  BY <1>1, <1>2, <1>4, <1>5, <1>7 DEF PoolInv, PoolFlags, PoolTypes, Others, Pool!Adding, Changes
<1>12. PoolChain'
  <2>1. \A n \in Nodes : Listed(n)' <=> Listed(n)
    BY <1>1, <1>4, <1>7 DEF Listed, Changes
  <2>2. QED
    BY <1>1, <2>1, ChainKept DEF PoolInv
<1>13. QED
  BY <1>6, <1>10, <1>11, <1>12 DEF PoolInv

(* Who drops the last reference to a flagged node adds it, and nobody else *)
(* is doing that.                                                          *)
LEMMA UndoStep ==
    ASSUME PoolInv, NEW t \in Threads, Pool!Undo(t)  PROVE PoolInv'
<1>0. PICK h : h = seen[t]
  OBVIOUS
<1>1. /\ takerPc[t] = "undo" /\ h \in Nodes /\ Holds(t, h)
      /\ UNCHANGED <<freeListHead, next, owner, head>>
  BY <1>0 DEF PoolInv, PoolTypes, Holds, Pool!Undo
<1>2. /\ refs[h].n = Cardinality(Holders(h)) + IF Counted(h) THEN 1 ELSE 0
      /\ refs[h].n \in Nat /\ refs[h].n # 0 /\ refs[h].bit \in BOOLEAN
      /\ Cardinality(Holders(h)) \in Nat
  BY <1>1, CountOf
<1>3. PICK k \in Nat : k = refs[h].n - 1
  BY <1>2
<1> DEFINE Back(w, s) ==
         /\ w \in {"link", "idle", "refs"}
         /\ takerPc' = [takerPc EXCEPT ![t] = w]
         /\ seen' = [seen EXCEPT ![t] = s]
         /\ node' = [node EXCEPT ![t] = IF w = "link" THEN h ELSE node[t]]
         /\ Changes(h, k, refs[h].bit)
         /\ w = "link" => refs[h].bit = TRUE /\ k = 0 /\ s = freeListHead
         /\ refs[h].bit = TRUE => k # 0 \/ w = "link"
         /\ w = "refs" => head[t] \in Nodes
<1>4. \E w, s : Back(w, s)
  <2>1. refs[h] = Pool!Ref(1, TRUE) <=> refs[h].n = 1 /\ refs[h].bit = TRUE
    <3>1. PICK r \in [n : Nat, bit : BOOLEAN] : r = refs[h]
      BY <1>1, CountOf
    <3>2. r = [n |-> 1, bit |-> TRUE] <=> r.n = 1 /\ r.bit = TRUE
      OBVIOUS
    <3>3. QED
      BY <3>1, <3>2 DEF Pool!Ref
  <2>2. CASE refs[h] = Pool!Ref(1, TRUE)
    <3>1. /\ takerPc' = [takerPc EXCEPT ![t] = "link"]
          /\ refs' = [refs EXCEPT ![h] = Pool!Ref(0, TRUE)]
          /\ node' = [node EXCEPT ![t] = h]
          /\ seen' = [seen EXCEPT ![t] = freeListHead]
      BY <1>0, <2>2 DEF Pool!Undo, Pool!Go
    <3>2. k = 0 /\ refs[h].bit = TRUE
      <4>1. refs[h].n = 1 /\ refs[h].bit = TRUE
        BY <2>1, <2>2
      <4>2. QED
        BY <1>3, <4>1
    <3>3. 0 \in Nat /\ TRUE \in BOOLEAN /\ PoolTypes
      BY DEF PoolInv
    <3>4. Changes(h, 0, TRUE)
      BY <1>1, <3>1, <3>3, RefsChange
    <3>5. Changes(h, k, refs[h].bit)
      BY <3>2, <3>4
    <3>6. Back("link", freeListHead)
      BY <3>1, <3>2, <3>5
    <3> HIDE DEF Back
    <3>7. QED
      BY <3>6
  <2>3. CASE refs[h] # Pool!Ref(1, TRUE)
    <3>1. PICK w \in {"idle", "refs"} : w = IF head[t] = Null THEN "idle" ELSE "refs"
      OBVIOUS
    <3>2. /\ takerPc' = [takerPc EXCEPT ![t] = w]
          /\ refs' = [refs EXCEPT ![h].n = k]
          /\ node' = node
          /\ seen' = [seen EXCEPT ![t] = Null]
      BY <1>0, <1>3, <2>3, <3>1 DEF Pool!Undo, Pool!Go
    <3>3. refs[h].bit = TRUE => k # 0
      <4>1. refs[h].bit = TRUE => refs[h].n # 1
        BY <2>1, <2>3
      <4>2. QED
        BY <1>2, <1>3, <4>1
    <3>4. w = "refs" => head[t] \in Nodes
      BY <3>1 DEF PoolInv, PoolTypes
    <3>5. Changes(h, k, refs[h].bit)
      BY <1>1, <1>2, <3>2 DEF PoolInv, PoolTypes, Changes
    <3>6. node' = [node EXCEPT ![t] = node[t]]
      BY <3>2 DEF PoolInv, PoolTypes
    <3>7. w # "link"
      BY <3>1
    <3>8. [node EXCEPT ![t] = IF w = "link" THEN h ELSE node[t]] = [node EXCEPT ![t] = node[t]]
      BY <3>7
    <3>9. Back(w, Null)
      BY <3>1, <3>2, <3>3, <3>4, <3>5, <3>6, <3>7, <3>8
    <3> HIDE DEF Back
    <3>10. QED
      BY <3>9
  <2>4. QED
    BY <2>2, <2>3
<1>. PICK w, s : Back(w, s)
  BY <1>4
<1>5. Changes(h, k, refs[h].bit)
  OBVIOUS
<1>6. /\ Others(t) /\ takerPc'[t] = w /\ seen'[t] = s
      /\ node'[t] = IF w = "link" THEN h ELSE node[t]
  BY <1>1 DEF PoolInv, PoolTypes, Others
<1>7. PoolTypes'
  <2>1. /\ node' \in [Threads -> Nodes \cup {Null}] /\ takerPc' \in [Threads -> Pool!PCs]
        /\ DOMAIN seen' = Threads
    BY <1>1 DEF PoolInv, PoolTypes, Pool!PCs
  <2>2. QED
    BY <1>1, <1>5, <1>6, <2>1 DEF PoolInv, PoolTypes, Pool!Adding, Changes, Others
<1>8. \A u \in Threads, n \in Nodes :
         Adds(u, n)' <=> Adds(u, n) \/ (u = t /\ n = h /\ w = "link")
  BY <1>1, <1>6 DEF Others, Adds, Pool!Adding
<1>9. \A n \in Nodes : Counted(n)' <=> Counted(n)
  BY <1>1, <1>5, <1>6 DEF Others, Counted, Changes
<1>10. PoolCounts'
  <2>1. \A n \in Nodes : n # h => Holders(n)' = Holders(n)
    BY <1>0, <1>1, <1>6, HoldersChange DEF Holds
  <2>2. Holders(h)' = Holders(h) \ {t}
    BY <1>6, HoldersChange DEF Holds
  <2>3. Cardinality(Holders(h) \ {t}) = Cardinality(Holders(h)) - 1
    BY <1>1, HoldersCounted
  <2>4. PICK H : H = Holders(h) \ {t}
    OBVIOUS
  <2>5. PICK c \in BOOLEAN : c <=> Counted(h)
    OBVIOUS
  <2>6. refs'[h].n = Cardinality(H) + IF c THEN 1 ELSE 0
    BY <1>2, <1>3, <1>5, <2>3, <2>4, <2>5 DEF Changes
  <2>7. \A n \in Nodes : n # h => /\ refs'[n] = refs[n] /\ Holders(n)' = Holders(n)
                                   /\ (Counted(n)' <=> Counted(n))
    BY <1>5, <1>9, <2>1 DEF Changes
  <2>8. Holders(h)' = H /\ (Counted(h)' <=> c)
    BY <1>1, <1>9, <2>2, <2>4, <2>5
  <2>9. QED
    BY <1>1, <2>6, <2>7, <2>8, CountsAt
<1>11. \A u \in Threads : w = "link" => ~Adds(u, h)
  <2>1. ASSUME NEW u \in Threads, w = "link", Adds(u, h)  PROVE FALSE
    <3>1. refs[h].bit /\ refs[h].n # 0
      BY <1>2, <2>1
    <3>2. node[u] = h /\ takerPc[u] \in {"link", "open", "push", "defer"}
      BY <2>1 DEF Adds, Pool!Adding
    <3>3. QED
      BY <3>1, <3>2 DEF PoolInv, PoolFlags
  <2>2. QED
    BY <2>1
<1>12. PoolFlags'
  <2>1. \A n \in Nodes : refs'[n].bit => /\ owner'[n] = Null
                                         /\ refs'[n].n # 0 \/ \E u \in Threads : Adds(u, n)'
    BY <1>1, <1>5, <1>8 DEF PoolInv, PoolFlags, Changes
  <2>2. \A u \in Threads :
          /\ takerPc'[u] \in {"check", "drop"} => owner'[head'[u]] = u
          /\ takerPc'[u] = "add" => owner'[node'[u]] = u
          /\ Pool!Adding(u)' => owner'[node'[u]] = Null
          /\ takerPc'[u] \in {"link", "open"} => refs'[node'[u]].bit /\ refs'[node'[u]].n = 0
          /\ takerPc'[u] \in {"push", "defer"} => ~refs'[node'[u]].bit
          /\ takerPc'[u] = "pop" => next'[head'[u]] = seen'[u]
          /\ takerPc'[u] \in {"open", "push"} => next'[node'[u]] = seen'[u]
    <3>1. ASSUME NEW u \in Threads, u # t
          PROVE  /\ takerPc'[u] \in {"check", "drop"} => owner'[head'[u]] = u
                 /\ takerPc'[u] = "add" => owner'[node'[u]] = u
                 /\ Pool!Adding(u)' => owner'[node'[u]] = Null
                 /\ takerPc'[u] \in {"link", "open"} =>
                       refs'[node'[u]].bit /\ refs'[node'[u]].n = 0
                 /\ takerPc'[u] \in {"push", "defer"} => ~refs'[node'[u]].bit
                 /\ takerPc'[u] = "pop" => next'[head'[u]] = seen'[u]
                 /\ takerPc'[u] \in {"open", "push"} => next'[node'[u]] = seen'[u]
      <4> HIDE DEF Back
      <4>1. QED
        BY <1>1, <1>2, <1>5, <1>6, <3>1
           DEF PoolInv, PoolFlags, PoolTypes, Others, Pool!Adding, Changes
    <3>2. w = "link" => owner[h] = Null
      BY <1>1 DEF PoolInv, PoolFlags
    <3>3. QED
      <4>1. /\ takerPc'[t] \notin {"check", "drop", "add", "open", "push", "defer", "pop"}
            /\ Pool!Adding(t)' => /\ owner'[node'[t]] = Null
                                  /\ refs'[node'[t]].bit /\ refs'[node'[t]].n = 0
        BY <1>1, <1>6, <3>2 DEF Pool!Adding, Changes
      <4>2. QED
        BY <3>1, <4>1 DEF Pool!Adding
  <2>3. \A u, v \in Threads :
           Pool!Adding(u)' /\ Pool!Adding(v)' /\ node'[u] = node'[v] => u = v
    BY <1>1, <1>6, <1>11 DEF PoolInv, PoolFlags, Others, Adds, Pool!Adding
  <2>4. QED
    BY <2>1, <2>2, <2>3 DEF PoolFlags
<1>13. PoolChain'
  <2>1. \A n \in Nodes : Listed(n)' <=> Listed(n)
    BY <1>1, <1>5, <1>8 DEF Listed, Changes
  <2>2. QED
    BY <1>1, <2>1, ChainKept DEF PoolInv
<1>14. QED
  BY <1>7, <1>10, <1>12, <1>13 DEF PoolInv

(* A node is flagged: by its owner, who then gives it up.                  *)
LEMMA SetBitStep ==
    ASSUME PoolInv, NEW t \in Threads, Pool!SetBit(t)
    PROVE  PoolInv' /\ \E n \in Nodes : Pool!Pool!Add(t, n)
<1>0. PICK h : h = node[t]
  OBVIOUS
<1>1. /\ takerPc[t] = "add" /\ owner' = [owner EXCEPT ![h] = Null]
      /\ refs' = [refs EXCEPT ![h].bit = TRUE]
      /\ UNCHANGED <<freeListHead, next, head>>
  BY <1>0 DEF Pool!SetBit
<1>2. h \in Nodes /\ owner[h] = t /\ t # Null /\ ~refs[h].bit
  BY <1>0, <1>1, PoolConstants DEF PoolInv, PoolTypes, PoolFlags
<1>3. refs[h].n \in Nat /\ refs[h].bit = FALSE
  <2>1. refs[h].bit \in BOOLEAN
    BY <1>2, CountOf
  <2>2. QED
    BY <1>2, <2>1, CountOf
<1>4. Changes(h, refs[h].n, TRUE)
  BY <1>1, <1>2, <1>3 DEF PoolInv, PoolTypes, Changes
<1> DEFINE Back(w, s) ==
         /\ w \in {"link", "idle"}
         /\ takerPc' = [takerPc EXCEPT ![t] = w]
         /\ DOMAIN seen' = Threads /\ seen'[t] = s
         /\ \A u \in Threads : u # t => seen'[u] = seen[u]
         /\ node' = [node EXCEPT ![t] = IF w = "link" THEN h ELSE Null]
         /\ w = "link" => refs[h].n = 0 /\ s = freeListHead
         /\ refs[h].n # 0 \/ w = "link"
<1>5. \E w, s : Back(w, s)
  <2>1. refs[h] = Pool!Ref(0, FALSE) <=> refs[h].n = 0
    <3>1. PICK r \in [n : Nat, bit : BOOLEAN] : r = refs[h]
      BY <1>2, CountOf
    <3>2. r = [n |-> 0, bit |-> FALSE] <=> r.n = 0 /\ r.bit = FALSE
      OBVIOUS
    <3>3. QED
      BY <1>3, <3>1, <3>2 DEF Pool!Ref
  <2>2. CASE refs[h] = Pool!Ref(0, FALSE)
    <3>1. /\ takerPc' = [takerPc EXCEPT ![t] = "link"]
          /\ seen' = [seen EXCEPT ![t] = freeListHead] /\ node' = node
      BY <1>0, <2>2 DEF Pool!SetBit, Pool!Go
    <3>2. node' = [node EXCEPT ![t] = h]
      BY <1>0, <3>1 DEF PoolInv, PoolTypes
    <3>3. Back("link", freeListHead)
      BY <2>1, <2>2, <3>1, <3>2 DEF PoolInv, PoolTypes
    <3> HIDE DEF Back
    <3>4. QED
      BY <3>3
  <2>3. CASE refs[h] # Pool!Ref(0, FALSE)
    <3>1. /\ takerPc' = [takerPc EXCEPT ![t] = "idle"]
          /\ seen' = seen /\ node' = [node EXCEPT ![t] = Null]
      BY <1>0, <2>3 DEF Pool!SetBit, Pool!Go
    <3>2. Back("idle", seen[t])
      BY <2>1, <2>3, <3>1 DEF PoolInv, PoolTypes
    <3> HIDE DEF Back
    <3>3. QED
      BY <3>2
  <2>4. QED
    BY <2>2, <2>3
<1>. PICK w, s : Back(w, s)
  BY <1>5
<1>6. /\ Others(t) /\ takerPc'[t] = w /\ seen'[t] = s /\ owner'[h] = Null
      /\ node'[t] = IF w = "link" THEN h ELSE Null
      /\ \A n \in Nodes : n # h => owner'[n] = owner[n]
  BY <1>1, <1>2 DEF PoolInv, PoolTypes, Others
<1>7. PoolTypes'
  BY <1>1, <1>2, <1>4, <1>6 DEF PoolInv, PoolTypes, Pool!PCs, Pool!Adding, Changes
<1>8. \A u \in Threads, n \in Nodes :
         Adds(u, n)' <=> Adds(u, n) \/ (u = t /\ n = h /\ w = "link")
  BY <1>1, <1>6 DEF Others, Adds, Pool!Adding
<1>9. \A u \in Threads : ~Adds(u, h) /\ ~(takerPc[u] \in {"check", "drop"} /\ head[u] = h)
  BY <1>1, <1>2 DEF PoolInv, PoolFlags, Adds
<1>10. PoolCounts'
  <2>1. \A n \in Nodes : Holders(n)' = Holders(n)
    BY <1>1, <1>6, HoldersChange DEF Holds
  <2>2. \A n \in Nodes : Counted(n)' <=> Counted(n)
    <3>1. ASSUME NEW n \in Nodes, n # h  PROVE Counted(n)' <=> Counted(n)
      BY <1>1, <1>4, <1>6, <3>1 DEF Others, Counted, Changes
    <3>2. ~Counted(h)
      BY <1>2, <1>9 DEF Counted
    <3>3. ~Counted(h)'
      BY <1>1, <1>4, <1>6, <1>9 DEF Others, Counted, Changes
    <3>4. QED
      BY <3>1, <3>2, <3>3
  <2>3. \A n \in Nodes : refs'[n].n = refs[n].n
    BY <1>4 DEF Changes
  <2>4. QED
    BY <2>1, <2>2, <2>3, CountsKept DEF PoolInv
<1>11. PoolFlags'
  <2>1. \A n \in Nodes : refs'[n].bit => /\ owner'[n] = Null
                                         /\ refs'[n].n # 0 \/ \E u \in Threads : Adds(u, n)'
    BY <1>1, <1>4, <1>6, <1>8 DEF PoolInv, PoolFlags, Changes
  <2>2. \A u \in Threads :
          /\ takerPc'[u] \in {"check", "drop"} => owner'[head'[u]] = u
          /\ takerPc'[u] = "add" => owner'[node'[u]] = u
          /\ Pool!Adding(u)' => owner'[node'[u]] = Null
          /\ takerPc'[u] \in {"link", "open"} => refs'[node'[u]].bit /\ refs'[node'[u]].n = 0
          /\ takerPc'[u] \in {"push", "defer"} => ~refs'[node'[u]].bit
          /\ takerPc'[u] = "pop" => next'[head'[u]] = seen'[u]
          /\ takerPc'[u] \in {"open", "push"} => next'[node'[u]] = seen'[u]
    <3>1. ASSUME NEW u \in Threads, u # t
          PROVE  /\ takerPc'[u] \in {"check", "drop"} => owner'[head'[u]] = u
                 /\ takerPc'[u] = "add" => owner'[node'[u]] = u
                 /\ Pool!Adding(u)' => owner'[node'[u]] = Null
                 /\ takerPc'[u] \in {"link", "open"} =>
                       refs'[node'[u]].bit /\ refs'[node'[u]].n = 0
                 /\ takerPc'[u] \in {"push", "defer"} => ~refs'[node'[u]].bit
                 /\ takerPc'[u] = "pop" => next'[head'[u]] = seen'[u]
                 /\ takerPc'[u] \in {"open", "push"} => next'[node'[u]] = seen'[u]
      <4> HIDE DEF Back
      <4>1. QED
        BY <1>1, <1>2, <1>4, <1>6, <1>9, <3>1
           DEF PoolInv, PoolFlags, PoolTypes, Others, Adds, Pool!Adding, Changes
    <3>2. /\ takerPc'[t] \notin {"check", "drop", "add", "open", "push", "defer", "pop"}
          /\ Pool!Adding(t)' => /\ owner'[node'[t]] = Null
                                /\ refs'[node'[t]].bit /\ refs'[node'[t]].n = 0
      BY <1>4, <1>6 DEF Pool!Adding, Changes
    <3>3. QED
      BY <3>1, <3>2 DEF Pool!Adding
  <2>3. \A u, v \in Threads :
           Pool!Adding(u)' /\ Pool!Adding(v)' /\ node'[u] = node'[v] => u = v
    BY <1>6, <1>9 DEF PoolInv, PoolFlags, Others, Adds, Pool!Adding
  <2>4. QED
    BY <2>1, <2>2, <2>3 DEF PoolFlags
<1>12. PoolChain'
  <2>1. \A n \in Nodes : Listed(n)' <=> Listed(n)
    BY <1>2, <1>4, <1>6, <1>8 DEF Listed, Changes
  <2>2. QED
    BY <1>1, <2>1, ChainKept DEF PoolInv
<1>13. \E n \in Nodes : Pool!Pool!Add(t, n)
  BY <1>1, <1>2 DEF Pool!Pool!Add
<1>14. QED
  BY <1>7, <1>10, <1>11, <1>12, <1>13 DEF PoolInv

(* Nobody relies on the next of a node that is linked anew.                *)
LEMMA LinkStep ==
    ASSUME PoolInv, NEW t \in Threads, Pool!Link(t)  PROVE PoolInv'
<1>0. PICK h : h = node[t]
  OBVIOUS
<1>1. /\ takerPc[t] = "link" /\ takerPc' = [takerPc EXCEPT ![t] = "open"]
      /\ next' = [next EXCEPT ![h] = seen[t]]
      /\ UNCHANGED <<freeListHead, refs, owner, head, seen, node>>
  BY <1>0 DEF Pool!Link, Pool!Go
<1>2. /\ h \in Nodes /\ refs[h].n = 0 /\ refs[h].bit /\ Adds(t, h)
      /\ seen[t] \in Nodes \cup {Null}
  BY <1>0, <1>1 DEF PoolInv, PoolTypes, PoolFlags, Adds, Pool!Adding
<1>3. /\ Others(t) /\ takerPc'[t] = "open" /\ next'[h] = seen[t]
      /\ \A n \in Nodes : n # h => next'[n] = next[n]
  BY <1>1, <1>2 DEF PoolInv, PoolTypes, Others
<1>4. PoolTypes'
  BY <1>1, <1>2, <1>3 DEF PoolInv, PoolTypes, Pool!PCs, Pool!Adding
<1>5. \A u \in Threads, n \in Nodes : Adds(u, n)' <=> Adds(u, n)
  BY <1>1, <1>3 DEF Others, Adds, Pool!Adding
<1>6. PoolCounts'
  <2>1. \A n \in Nodes : Holders(n)' = Holders(n)
    BY <1>1, <1>3, HoldersChange DEF Holds
  <2>2. \A n \in Nodes : Counted(n)' <=> Counted(n)
    BY <1>1, <1>3 DEF Others, Counted
  <2>3. QED
    BY <1>1, <2>1, <2>2, CountsKept DEF PoolInv
<1>7. PoolFlags'
  <2>1. \A u \in Threads : takerPc[u] = "pop" => head[u] # h
    BY <1>2, CountOf DEF Holds
  <2>2. \A u \in Threads : u # t /\ Pool!Adding(u) => node[u] # h
    BY <1>0, <1>1 DEF PoolInv, PoolFlags, Pool!Adding
  <2>3. \A u \in Threads : /\ takerPc'[u] = "pop" => next'[head'[u]] = seen'[u]
                           /\ takerPc'[u] \in {"open", "push"} => next'[node'[u]] = seen'[u]
    BY <1>0, <1>1, <1>3, <2>1, <2>2
       DEF PoolInv, PoolFlags, PoolTypes, Others, Pool!Adding
  <2>4. QED
    BY <1>1, <1>2, <1>3, <1>5, <2>3 DEF PoolInv, PoolFlags, PoolTypes, Others, Pool!Adding
<1>8. PoolChain'
  <2> DEFINE old(n) == Listed(n)
             new(n) == Listed(n)'
  <2>1. \A n \in Nodes : new(n) <=> old(n)
    BY <1>1, <1>5 DEF Listed
  <2>2. ~old(h)
    BY <1>2 DEF Listed
  <2>3. PICK rank \in [Nodes -> Nat] :
           \A n \in Nodes : old(n) /\ n # freeListHead =>
               \E m \in Nodes : old(m) /\ next[m] = n /\ rank[m] < rank[n]
    BY DEF PoolInv, PoolChain
  <2>4. /\ freeListHead # Null => old(freeListHead)
        /\ \A n \in Nodes : old(n) /\ next[n] # Null => old(next[n]) /\ next[n] # freeListHead
        /\ \A m, n \in Nodes : old(m) /\ old(n) /\ next[m] = next[n] /\ next[m] # Null => m = n
    BY DEF PoolInv, PoolChain
  <2>5. next \in [Nodes -> Nodes \cup {Null}] /\ freeListHead \in Nodes \cup {Null}
    BY DEF PoolInv, PoolTypes
  <2>6. PICK f : f = next'
    OBVIOUS
  <2>7. \A n \in Nodes : n # h => f[n] = next[n]
    BY <1>3, <2>6
  <2> HIDE DEF old, new
  <2>8. /\ freeListHead # Null => new(freeListHead)
        /\ \A n \in Nodes : new(n) /\ f[n] # Null => new(f[n]) /\ f[n] # freeListHead
        /\ \A m, n \in Nodes : new(m) /\ new(n) /\ f[m] = f[n] /\ f[m] # Null => m = n
        /\ \A n \in Nodes : new(n) /\ n # freeListHead =>
               \E m \in Nodes : new(m) /\ f[m] = n /\ rank[m] < rank[n]
    BY <2>1, <2>2, <2>3, <2>4, <2>5, <2>7
  <2>9. QED
    BY <1>1, <2>6, <2>8 DEF PoolChain, new
<1>9. QED
  BY <1>4, <1>6, <1>7, <1>8 DEF PoolInv

LEMMA OpenStep ==
    ASSUME PoolInv, NEW t \in Threads, Pool!Open(t)  PROVE PoolInv'
<1>0. PICK h : h = node[t]
  OBVIOUS
<1>1. /\ takerPc[t] = "open" /\ takerPc' = [takerPc EXCEPT ![t] = "push"]
      /\ refs' = [refs EXCEPT ![h] = Pool!Ref(1, FALSE)]
      /\ UNCHANGED <<freeListHead, next, owner, head, seen, node>>
  BY <1>0 DEF Pool!Open, Pool!Go
<1>2. /\ h \in Nodes /\ refs[h].n = 0 /\ refs[h].bit /\ Adds(t, h) /\ owner[h] = Null
      /\ \A u \in Threads : u # t => ~Adds(u, h)
  BY <1>0, <1>1 DEF PoolInv, PoolTypes, PoolFlags, Adds, Pool!Adding
<1>3. Others(t) /\ takerPc'[t] = "push"
  BY <1>1 DEF PoolInv, PoolTypes, Others
<1>4. Changes(h, 1, FALSE)
  <2>1. 1 \in Nat /\ FALSE \in BOOLEAN /\ PoolTypes
    BY DEF PoolInv
  <2>2. QED
    BY <1>1, <1>2, <2>1, RefsChange
<1>5. PoolTypes'
  BY <1>1, <1>3, <1>4 DEF PoolInv, PoolTypes, Pool!PCs, Pool!Adding, Changes
<1>6. \A u \in Threads, n \in Nodes : Adds(u, n)' <=> Adds(u, n)
  BY <1>1, <1>3 DEF Others, Adds, Pool!Adding
<1>7. PoolCounts'
  <2>1. \A n \in Nodes : Holders(n)' = Holders(n)
    BY <1>1, <1>3, HoldersChange DEF Holds
  <2>2. Cardinality(Holders(h)) = 0
    BY <1>2, CountOf
  <2>3. PICK H : H = Holders(h)
    OBVIOUS
  <2>4. refs'[h].n = Cardinality(H) + IF TRUE THEN 1 ELSE 0
    BY <1>4, <2>2, <2>3 DEF Changes
  <2>5. \A n \in Nodes : n # h => /\ refs'[n] = refs[n] /\ Holders(n)' = Holders(n)
                                   /\ (Counted(n)' <=> Counted(n))
    BY <1>1, <1>3, <1>4, <2>1 DEF Others, Counted, Changes
  <2>6. Holders(h)' = H /\ (Counted(h)' <=> TRUE)
    BY <1>1, <1>2, <1>4, <2>1, <2>3 DEF Counted, Changes
  <2>7. QED
    BY <1>2, <2>4, <2>5, <2>6, CountsAt
<1>8. PoolFlags'
  <2>1. \A n \in Nodes : refs'[n].bit => /\ owner'[n] = Null
                                         /\ refs'[n].n # 0 \/ \E u \in Threads : Adds(u, n)'
    BY <1>1, <1>4, <1>6 DEF PoolInv, PoolFlags, Changes
  <2>2. ASSUME NEW u \in Threads, u # t
        PROVE  /\ takerPc'[u] \in {"check", "drop"} => owner'[head'[u]] = u
               /\ takerPc'[u] = "add" => owner'[node'[u]] = u
               /\ Pool!Adding(u)' => owner'[node'[u]] = Null
               /\ takerPc'[u] \in {"link", "open"} => refs'[node'[u]].bit /\ refs'[node'[u]].n = 0
               /\ takerPc'[u] \in {"push", "defer"} => ~refs'[node'[u]].bit
               /\ takerPc'[u] = "pop" => next'[head'[u]] = seen'[u]
               /\ takerPc'[u] \in {"open", "push"} => next'[node'[u]] = seen'[u]
    <3>1. /\ takerPc'[u] = takerPc[u] /\ head'[u] = head[u]
          /\ seen'[u] = seen[u] /\ node'[u] = node[u]
          /\ next' = next /\ owner' = owner
      BY <1>1, <1>3, <2>2 DEF Others
    <3>2. Pool!Adding(u) => refs'[node[u]] = refs[node[u]]
      BY <1>2, <1>4, <2>2 DEF Adds, Changes, PoolInv, PoolTypes, Pool!Adding
    <3>3. QED
      BY <3>1, <3>2 DEF PoolInv, PoolFlags, Pool!Adding
  <2>3. /\ takerPc'[t] = "push" /\ owner'[node'[t]] = Null /\ ~refs'[node'[t]].bit
        /\ next'[node'[t]] = seen'[t]
    BY <1>0, <1>1, <1>2, <1>3, <1>4 DEF PoolInv, PoolFlags, Changes
  <2>4. \A u, v \in Threads :
           Pool!Adding(u)' /\ Pool!Adding(v)' /\ node'[u] = node'[v] => u = v
    BY <1>1, <1>3 DEF PoolInv, PoolFlags, Others, Pool!Adding
  <2>5. QED
    BY <2>1, <2>2, <2>3, <2>4 DEF PoolFlags, Pool!Adding
<1>9. PoolChain'
  <2>1. \A n \in Nodes : Listed(n)' <=> Listed(n)
    BY <1>1, <1>2, <1>4, <1>6 DEF Listed, Changes
  <2>2. QED
    BY <1>1, <2>1, ChainKept DEF PoolInv
<1>10. QED
  BY <1>5, <1>7, <1>8, <1>9 DEF PoolInv

(* What Added leaves of a thread's local variables                         *)
LEMMA AddedLeaves ==
    ASSUME PoolInv, NEW t \in Threads, Pool!Added(t), head' = head
    PROVE  /\ Others(t) /\ takerPc'[t] \in {"idle", "refs"} /\ node'[t] = Null
           /\ takerPc' \in [Threads -> Pool!PCs] /\ node' \in [Threads -> Nodes \cup {Null}]
           /\ DOMAIN seen' = Threads
           /\ takerPc'[t] = "refs" => head[t] \in Nodes
<1>1. PICK w \in {"idle", "refs"} : w = IF head[t] = Null THEN "idle" ELSE "refs"
  OBVIOUS
<1>2. /\ takerPc' = [takerPc EXCEPT ![t] = w]
      /\ seen' = [seen EXCEPT ![t] = Null] /\ node' = [node EXCEPT ![t] = Null]
  BY <1>1 DEF Pool!Added, Pool!Go
<1>3. /\ takerPc \in [Threads -> Pool!PCs] /\ node \in [Threads -> Nodes \cup {Null}]
      /\ DOMAIN seen = Threads /\ head[t] \in Nodes \cup {Null}
      /\ w \in Pool!PCs
  BY DEF PoolInv, PoolTypes, Pool!PCs
<1>4. w = "refs" => head[t] \in Nodes
  BY <1>1, <1>3
<1>5. QED
  BY <1>2, <1>3, <1>4 DEF Others

(* A node that is added is the head, and the old head its next.            *)
LEMMA PushStep ==
    ASSUME PoolInv, NEW t \in Threads, Pool!Push(t)  PROVE PoolInv'
<1>0. PICK h : h = node[t]
  OBVIOUS
<1>1. /\ takerPc[t] = "push" /\ UNCHANGED <<refs, next, owner, head>>
  BY DEF Pool!Push
<1>2. /\ h \in Nodes /\ h # Null /\ ~refs[h].bit /\ Adds(t, h) /\ owner[h] = Null
      /\ next[h] = seen[t]
      /\ \A u \in Threads : u # t => ~Adds(u, h)
  BY <1>0, <1>1, PoolConstants DEF PoolInv, PoolTypes, PoolFlags, Adds, Pool!Adding
<1>3. CASE freeListHead = seen[t]
  <2>1. freeListHead' = h /\ Pool!Added(t)
    BY <1>0, <1>3 DEF Pool!Push
  <2>2. /\ Others(t) /\ takerPc'[t] \in {"idle", "refs"} /\ node'[t] = Null
        /\ takerPc' \in [Threads -> Pool!PCs] /\ node' \in [Threads -> Nodes \cup {Null}]
        /\ DOMAIN seen' = Threads
        /\ takerPc'[t] = "refs" => head[t] \in Nodes
    BY <1>1, <2>1, AddedLeaves
  <2>3. PoolTypes'
    BY <1>1, <1>2, <2>1, <2>2 DEF PoolInv, PoolTypes, Pool!Adding, Others
  <2>4. \A u \in Threads, n \in Nodes : Adds(u, n)' <=> Adds(u, n) /\ n # h
    BY <1>0, <1>1, <1>2, <2>2 DEF Others, Adds, Pool!Adding
  <2>5. PoolCounts'
    <3>1. \A n \in Nodes : Holders(n)' = Holders(n)
      BY <1>1, <2>2, HoldersChange DEF Holds
    <3>2. \A n \in Nodes : Counted(n)' <=> Counted(n)
      BY <1>1, <2>2 DEF Others, Counted
    <3>3. QED
      BY <1>1, <3>1, <3>2, CountsKept DEF PoolInv
  <2>6. PoolFlags'
    <3>1. \A n \in Nodes : refs'[n].bit => /\ owner'[n] = Null
                                           /\ refs'[n].n # 0 \/ \E u \in Threads : Adds(u, n)'
      BY <1>1, <1>2, <2>4 DEF PoolInv, PoolFlags
    <3>2. QED
      BY <1>1, <2>2, <3>1 DEF PoolInv, PoolFlags, Others, Pool!Adding
  <2>7. PoolChain'
    <3> DEFINE old(n) == Listed(n)
               new(n) == Listed(n)'
    <3>1. \A n \in Nodes : new(n) <=> old(n) \/ n = h
      BY <1>1, <1>2, <2>4 DEF Listed
    <3>2. ~old(h) /\ next[h] = freeListHead
      BY <1>2, <1>3 DEF Listed
    <3>3. PICK rank \in [Nodes -> Nat] :
             \A n \in Nodes : old(n) /\ n # freeListHead =>
                 \E m \in Nodes : old(m) /\ next[m] = n /\ rank[m] < rank[n]
      BY DEF PoolInv, PoolChain
    <3>4. /\ freeListHead # Null => old(freeListHead)
          /\ \A n \in Nodes : old(n) /\ next[n] # Null => old(next[n]) /\ next[n] # freeListHead
          /\ \A m, n \in Nodes :
                old(m) /\ old(n) /\ next[m] = next[n] /\ next[m] # Null => m = n
      BY DEF PoolInv, PoolChain
    <3>5. next \in [Nodes -> Nodes \cup {Null}] /\ freeListHead \in Nodes \cup {Null}
      BY DEF PoolInv, PoolTypes
    <3>6. PICK far \in [Nodes -> Nat] :
             /\ far[h] = 0 /\ \A n \in Nodes : n # h => far[n] = rank[n] + 1
      <4>1. [n \in Nodes |-> IF n = h THEN 0 ELSE rank[n] + 1] \in [Nodes -> Nat]
        OBVIOUS
      <4>2. QED
        BY <1>2, <4>1
    <3> HIDE DEF old, new
    <3>7. /\ new(h)
          /\ \A n \in Nodes : new(n) /\ next[n] # Null => new(next[n]) /\ next[n] # h
          /\ \A m, n \in Nodes : new(m) /\ new(n) /\ next[m] = next[n] /\ next[m] # Null => m = n
      BY <1>2, <3>1, <3>2, <3>4, <3>5
    <3>8. ASSUME NEW n \in Nodes, new(n), n # h
          PROVE  \E m \in Nodes : new(m) /\ next[m] = n /\ far[m] < far[n]
      <4>1. old(n) /\ far[n] = rank[n] + 1 /\ rank[n] \in Nat
        BY <3>1, <3>6, <3>8
      <4>2. CASE n = freeListHead
        <5>1. new(h) /\ next[h] = n /\ far[h] < far[n]
          BY <1>2, <3>1, <3>2, <3>6, <4>1, <4>2
        <5>2. QED
          BY <1>2, <5>1
      <4>3. CASE n # freeListHead
        <5>1. PICK m \in Nodes : old(m) /\ next[m] = n /\ rank[m] < rank[n]
          BY <3>3, <4>1, <4>3
        <5>2. far[m] = rank[m] + 1 /\ rank[m] \in Nat /\ new(m)
          BY <3>1, <3>2, <3>6, <5>1
        <5>3. QED
          BY <4>1, <5>1, <5>2
      <4>4. QED
        BY <4>2, <4>3
    <3>9. QED
      BY <1>1, <2>1, <3>7, <3>8 DEF PoolChain, new
  <2>8. QED
    BY <2>3, <2>5, <2>6, <2>7 DEF PoolInv
<1>4. CASE freeListHead # seen[t]
  <2>1. /\ takerPc' = [takerPc EXCEPT ![t] = "defer"]
        /\ seen' = [seen EXCEPT ![t] = freeListHead]
        /\ UNCHANGED <<freeListHead, node>>
    BY <1>4 DEF Pool!Push, Pool!Go
  <2>2. Others(t) /\ takerPc'[t] = "defer" /\ seen'[t] = freeListHead
    BY <1>1, <2>1 DEF PoolInv, PoolTypes, Others
  <2>3. PoolTypes'
    BY <1>0, <1>1, <1>2, <2>1, <2>2 DEF PoolInv, PoolTypes, Pool!PCs, Pool!Adding
  <2>4. \A u \in Threads, n \in Nodes : Adds(u, n)' <=> Adds(u, n)
    BY <1>1, <2>1, <2>2 DEF Others, Adds, Pool!Adding
  <2>5. PoolCounts'
    <3>1. \A n \in Nodes : Holders(n)' = Holders(n)
      BY <1>1, <2>2, HoldersChange DEF Holds
    <3>2. \A n \in Nodes : Counted(n)' <=> Counted(n)
      BY <1>1, <2>2 DEF Others, Counted
    <3>3. QED
      BY <1>1, <3>1, <3>2, CountsKept DEF PoolInv
  <2>6. PoolFlags'
    BY <1>1, <2>1, <2>2, <2>4 DEF PoolInv, PoolFlags, PoolTypes, Others, Pool!Adding
  <2>7. PoolChain'
    <3>1. \A n \in Nodes : Listed(n)' <=> Listed(n)
      BY <1>1, <2>4 DEF Listed
    <3>2. QED
      BY <1>1, <2>1, <3>1, ChainKept DEF PoolInv
  <2>8. QED
    BY <2>3, <2>5, <2>6, <2>7 DEF PoolInv
<1>5. QED
  BY <1>3, <1>4

(* A node that could not be added is left to the last reference, or, if    *)
(* there is none, tried again.                                             *)
LEMMA DeferStep ==
    ASSUME PoolInv, NEW t \in Threads, Pool!Defer(t)  PROVE PoolInv'
<1>0. PICK h : h = node[t]
  OBVIOUS
<1>1. /\ takerPc[t] = "defer" /\ UNCHANGED <<freeListHead, next, owner, head>>
      /\ refs' = [refs EXCEPT ![h] = Pool!Ref(refs[h].n - 1, TRUE)]
  BY <1>0 DEF Pool!Defer
<1>2. /\ h \in Nodes /\ ~refs[h].bit /\ Adds(t, h) /\ owner[h] = Null /\ Counted(h)
      /\ \A u \in Threads : u # t => ~Adds(u, h)
      /\ \A u \in Threads : ~(takerPc[u] \in {"check", "drop"} /\ head[u] = h)
  BY <1>0, <1>1, PoolConstants DEF PoolInv, PoolTypes, PoolFlags, Adds, Pool!Adding, Counted
<1>3. /\ refs[h].n = Cardinality(Holders(h)) + 1 /\ Cardinality(Holders(h)) \in Nat
      /\ refs[h].bit = FALSE
  <2>1. refs[h].bit \in BOOLEAN
    BY <1>2, CountOf
  <2>2. QED
    BY <1>2, <2>1, CountOf
<1>4. Changes(h, Cardinality(Holders(h)), TRUE)
  <2>1. PICK k \in Nat : k = Cardinality(Holders(h))
    BY <1>3
  <2>2. refs' = [refs EXCEPT ![h] = Pool!Ref(k, TRUE)]
    <3>1. refs[h].n - 1 = k
      BY <1>3, <2>1
    <3>2. QED
      BY <1>1, <3>1
  <2>3. TRUE \in BOOLEAN /\ PoolTypes
    BY DEF PoolInv
  <2>4. Changes(h, k, TRUE)
    BY <1>2, <2>2, <2>3, RefsChange
  <2>5. QED
    BY <2>1, <2>4
<1>5. refs[h] = Pool!Ref(1, FALSE) <=> refs[h].n = 1
  <2>1. PICK r \in [n : Nat, bit : BOOLEAN] : r = refs[h]
    BY <1>2, CountOf
  <2>2. r = [n |-> 1, bit |-> FALSE] <=> r.n = 1 /\ r.bit = FALSE
    OBVIOUS
  <2>3. QED
    BY <1>3, <2>1, <2>2 DEF Pool!Ref
<1>6. \/ /\ refs'[h].n = 0 /\ takerPc'[t] = "link" /\ node' = node /\ seen' = seen
      \/ /\ refs'[h].n # 0 /\ takerPc'[t] \in {"idle", "refs"} /\ node'[t] = Null
  <2>1. CASE refs[h] = Pool!Ref(1, FALSE)
    <3>1. takerPc' = [takerPc EXCEPT ![t] = "link"] /\ node' = node /\ seen' = seen
      BY <1>0, <2>1 DEF Pool!Defer, Pool!Go
    <3>2. refs'[h].n = 0
      BY <1>3, <1>4, <1>5, <2>1 DEF Changes
    <3>3. QED
      BY <3>1, <3>2 DEF PoolInv, PoolTypes
  <2>2. CASE refs[h] # Pool!Ref(1, FALSE)
    <3>1. Pool!Added(t)
      BY <1>0, <2>2 DEF Pool!Defer
    <3>2. refs'[h].n # 0
      <4>1. refs[h].n # 1
        BY <1>5, <2>2
      <4>2. QED
        BY <1>3, <1>4, <4>1 DEF Changes
    <3>3. QED
      BY <1>1, <3>1, <3>2, AddedLeaves
  <2>3. QED
    BY <2>1, <2>2
<1>7. /\ Others(t)
      /\ takerPc' \in [Threads -> Pool!PCs] /\ node' \in [Threads -> Nodes \cup {Null}]
      /\ DOMAIN seen' = Threads
      /\ takerPc'[t] = "refs" => head[t] \in Nodes
  <2>1. CASE refs[h] = Pool!Ref(1, FALSE)
    <3>1. takerPc' = [takerPc EXCEPT ![t] = "link"] /\ node' = node /\ seen' = seen
      BY <1>0, <2>1 DEF Pool!Defer, Pool!Go
    <3>2. QED
      BY <1>1, <3>1 DEF PoolInv, PoolTypes, Pool!PCs, Others
  <2>2. CASE refs[h] # Pool!Ref(1, FALSE)
    <3>1. Pool!Added(t)
      BY <1>0, <2>2 DEF Pool!Defer
    <3>2. QED
      BY <1>1, <3>1, AddedLeaves
  <2>3. QED
    BY <2>1, <2>2
<1>8. PoolTypes'
  <2>1. /\ takerPc'[t] = "refs" => head'[t] \in Nodes
        /\ takerPc'[t] \in {"idle", "refs", "link"}
        /\ takerPc'[t] = "link" => node'[t] \in Nodes /\ seen'[t] \in Nodes \cup {Null}
    BY <1>0, <1>1, <1>2, <1>6, <1>7 DEF PoolInv, PoolTypes, Pool!Adding
  <2>2. ASSUME NEW u \in Threads, u # t
        PROVE  /\ takerPc'[u] \in {"refs", "grab", "next", "pop", "check", "drop"} =>
                     head'[u] \in Nodes
               /\ takerPc'[u] = "undo" => seen'[u] \in Nodes
               /\ takerPc'[u] = "grab" => seen'[u].n # 0
               /\ takerPc'[u] \in {"add", "link", "open", "push", "defer"} => node'[u] \in Nodes
               /\ Pool!Adding(u)' => seen'[u] \in Nodes \cup {Null}
    BY <1>7, <2>2 DEF PoolInv, PoolTypes, Pool!Adding, Others
  <2>3. QED
    BY <1>1, <1>4, <1>7, <2>1, <2>2 DEF PoolInv, PoolTypes, Pool!Adding, Changes
<1>9. \A u \in Threads, n \in Nodes :
         Adds(u, n)' <=> Adds(u, n) /\ (n # h \/ takerPc'[t] = "link")
  BY <1>0, <1>1, <1>2, <1>6, <1>7 DEF Others, Adds, Pool!Adding
<1>10. PoolCounts'
  <2>1. \A n \in Nodes : Holders(n)' = Holders(n)
    BY <1>1, <1>6, <1>7, HoldersChange DEF Holds
  <2>2. PICK H : H = Holders(h)
    OBVIOUS
  <2>3. refs'[h].n = Cardinality(H) + IF FALSE THEN 1 ELSE 0
    BY <1>3, <1>4, <2>2 DEF Changes
  <2>4. \A n \in Nodes : n # h => /\ refs'[n] = refs[n] /\ Holders(n)' = Holders(n)
                                   /\ (Counted(n)' <=> Counted(n))
    BY <1>1, <1>4, <1>6, <1>7, <2>1 DEF Others, Counted, Changes
  <2>5. Holders(h)' = H /\ (Counted(h)' <=> FALSE)
    BY <1>1, <1>2, <1>4, <1>6, <1>7, <2>1, <2>2 DEF Others, Counted, Changes
  <2>6. QED
    BY <1>2, <2>3, <2>4, <2>5, CountsAt
<1>11. PoolFlags'
  <2>1. \A n \in Nodes : refs'[n].bit => /\ owner'[n] = Null
                                         /\ refs'[n].n # 0 \/ \E u \in Threads : Adds(u, n)'
    <3>1. ASSUME NEW n \in Nodes, n # h, refs'[n].bit
          PROVE  /\ owner'[n] = Null
                 /\ refs'[n].n # 0 \/ \E u \in Threads : Adds(u, n)'
      BY <1>1, <1>4, <1>9, <3>1 DEF PoolInv, PoolFlags, Changes
    <3>2. owner'[h] = Null
      BY <1>1, <1>2
    <3>3. CASE refs'[h].n # 0
      BY <3>1, <3>2, <3>3
    <3>4. CASE refs'[h].n = 0
      <4>1. Adds(t, h)'
        BY <1>2, <1>6, <1>9, <3>4
      <4>2. QED
        BY <3>1, <3>2, <4>1
    <3>5. QED
      BY <3>3, <3>4
  <2>2. ASSUME NEW u \in Threads, u # t
        PROVE  /\ takerPc'[u] \in {"check", "drop"} => owner'[head'[u]] = u
               /\ takerPc'[u] = "add" => owner'[node'[u]] = u
               /\ Pool!Adding(u)' => owner'[node'[u]] = Null
               /\ takerPc'[u] \in {"link", "open"} => refs'[node'[u]].bit /\ refs'[node'[u]].n = 0
               /\ takerPc'[u] \in {"push", "defer"} => ~refs'[node'[u]].bit
               /\ takerPc'[u] = "pop" => next'[head'[u]] = seen'[u]
               /\ takerPc'[u] \in {"open", "push"} => next'[node'[u]] = seen'[u]
    <3>1. /\ takerPc'[u] = takerPc[u] /\ head'[u] = head[u]
          /\ seen'[u] = seen[u] /\ node'[u] = node[u]
          /\ next' = next /\ owner' = owner
      BY <1>1, <1>7, <2>2 DEF Others
    <3>2. Pool!Adding(u) => refs'[node[u]] = refs[node[u]]
      BY <1>2, <1>4, <2>2 DEF Adds, Changes, PoolInv, PoolTypes, Pool!Adding
    <3>3. QED
      BY <3>1, <3>2 DEF PoolInv, PoolFlags, Pool!Adding
  <2>3. /\ takerPc'[t] \notin {"check", "drop", "add", "open", "push", "defer", "pop"}
        /\ takerPc'[t] = "link" => /\ owner'[node'[t]] = Null
                                   /\ refs'[node'[t]].bit /\ refs'[node'[t]].n = 0
    BY <1>0, <1>1, <1>2, <1>4, <1>6 DEF Changes
  <2>4. \A u, v \in Threads :
           Pool!Adding(u)' /\ Pool!Adding(v)' /\ node'[u] = node'[v] => u = v
    <3>1. \A u \in Threads : u # t => /\ Pool!Adding(u)' <=> Pool!Adding(u)
                                     /\ node'[u] = node[u]
      BY <1>7 DEF Others, Pool!Adding
    <3>2. Pool!Adding(t)' => Pool!Adding(t) /\ node'[t] = node[t]
      BY <1>1, <1>6 DEF Pool!Adding
    <3>3. \A u \in Threads : Pool!Adding(u)' => Pool!Adding(u) /\ node'[u] = node[u]
      BY <3>1, <3>2
    <3>4. \A u, v \in Threads :
             Pool!Adding(u) /\ Pool!Adding(v) /\ node[u] = node[v] => u = v
      BY DEF PoolInv, PoolFlags
    <3>5. QED
      BY <3>3, <3>4
  <2>5. QED
    BY <2>1, <2>2, <2>3, <2>4 DEF PoolFlags, Pool!Adding
<1>12. PoolChain'
  <2>1. \A n \in Nodes : Listed(n)' <=> Listed(n)
    BY <1>1, <1>2, <1>4, <1>9 DEF Listed, Changes
  <2>2. QED
    BY <1>1, <2>1, ChainKept DEF PoolInv
<1>13. QED
  BY <1>8, <1>10, <1>11, <1>12 DEF PoolInv

(* Every step keeps the list, and hands a node out or takes one back, or   *)
(* does neither.                                                           *)
LEMMA PoolStep ==
    ASSUME PoolInv, Pool!Next
    PROVE  PoolInv' /\ (Pool!Pool!Next \/ UNCHANGED owner)
<1>1. PICK t \in Threads :
         \/ Pool!TryGet(t) \/ Pool!LoadRefs(t) \/ Pool!Grab(t) \/ Pool!LoadNext(t) \/ Pool!Pop(t)
         \/ Pool!Check(t) \/ Pool!Drop(t) \/ Pool!Undo(t)
         \/ \E n \in Nodes : Pool!Add(t, n)
         \/ Pool!SetBit(t) \/ Pool!Link(t) \/ Pool!Open(t) \/ Pool!Push(t) \/ Pool!Defer(t)
  BY DEF Pool!Next
<1>2. CASE Pool!TryGet(t)
  BY <1>2, TryGetStep DEF Pool!TryGet, Pool!shared
<1>3. CASE Pool!LoadRefs(t)
  BY <1>3, LoadRefsStep DEF Pool!LoadRefs, Pool!shared
<1>4. CASE Pool!Grab(t)
  BY <1>4, GrabStep DEF Pool!Grab
<1>5. CASE Pool!LoadNext(t)
  BY <1>5, LoadNextStep DEF Pool!LoadNext, Pool!shared
<1>6. CASE Pool!Pop(t)
  BY <1>6, PopStep DEF Pool!Pool!Next
<1>7. CASE Pool!Check(t)
  BY <1>7, CheckStep DEF Pool!Check, Pool!shared
<1>8. CASE Pool!Drop(t)
  BY <1>8, DropStep DEF Pool!Drop
<1>9. CASE Pool!Undo(t)
  BY <1>9, UndoStep DEF Pool!Undo
<1>10. ASSUME NEW n \in Nodes, Pool!Add(t, n)
       PROVE  PoolInv' /\ UNCHANGED owner
  BY <1>10, AddStep DEF Pool!Add, Pool!shared
<1>11. CASE Pool!SetBit(t)
  BY <1>11, SetBitStep DEF Pool!Pool!Next
<1>12. CASE Pool!Link(t)
  BY <1>12, LinkStep DEF Pool!Link
<1>13. CASE Pool!Open(t)
  BY <1>13, OpenStep DEF Pool!Open
<1>14. CASE Pool!Push(t)
  BY <1>14, PushStep DEF Pool!Push
<1>15. CASE Pool!Defer(t)
  BY <1>15, DeferStep DEF Pool!Defer
<1>16. QED
  BY <1>1, <1>2, <1>3, <1>4, <1>5, <1>6, <1>7, <1>8, <1>9, <1>10, <1>11, <1>12, <1>13,
     <1>14, <1>15

LEMMA PoolIdle ==
    ASSUME PoolInv, UNCHANGED poolVars  PROVE PoolInv'
<1>1. UNCHANGED <<freeListHead, refs, next, owner, takerPc, head, seen, node>>
  BY DEF poolVars
<1>2. PoolTypes' /\ PoolFlags'
  BY <1>1 DEF PoolInv, PoolTypes, PoolFlags, Adds, Pool!Adding
<1>3. PoolCounts'
  BY <1>1 DEF PoolInv, PoolCounts, Holders, Holds, Counted
<1>4. PoolChain'
  BY <1>1 DEF PoolInv, PoolChain, Listed, Adds, Pool!Adding
<1>5. QED
  BY <1>2, <1>3, <1>4 DEF PoolInv

(* A set of numbers with a member has a first one.                         *)
LEMMA FirstOf ==
    ASSUME NEW S, S \subseteq Nat, S # {}
    PROVE  \E i \in S : \A j \in S : i <= j
<1> DEFINE R == OpToRel(<, Nat)
<1>1. \A x, y \in Nat : y < x => <<y, x>> \in R
  BY DEF OpToRel
<1>2. IsWellFoundedOn(R, Nat)
  BY NatLessThanWellFounded
<1> HIDE DEF R
<1>3. PICK i \in S : \A j \in S : ~ (<<j, i>> \in R)
  BY <1>2, WFMin
<1>4. ASSUME NEW j \in S  PROVE i <= j
  <2>1. i \in Nat /\ j \in Nat
    OBVIOUS
  <2>2. ~ (j < i)
    BY <1>1, <1>3, <2>1
  <2>3. QED
    BY <2>1, <2>2
<1>5. QED
  BY <1>4

(* With nobody at work what is listed is what is nobody's.                 *)
LEMMA IdleIsExact ==
    ASSUME PoolInv, \A t \in Threads : takerPc[t] = "idle"
    PROVE  Pool!ListIsExact
<1> DEFINE rest == {n \in Nodes : owner[n] = Null}
           l(n) == Listed(n)
<1>1. \A n \in Nodes : l(n) <=> owner[n] = Null
  <2>1. ASSUME NEW n \in Nodes, owner[n] = Null, refs[n].bit  PROVE FALSE
    <3>1. \A t \in Threads : ~Holds(t, n) /\ ~Adds(t, n)
                             /\ takerPc[t] \notin {"check", "drop"}
      BY DEF Holds, Adds, Pool!Adding
    <3>2. Holders(n) = {} /\ ~Counted(n)
      BY <2>1, <3>1 DEF Holders, Counted
    <3>3. Cardinality(Holders(n)) = 0
      BY <3>2, FS_EmptySet
    <3>4. refs[n].n = 0
      <4>1. refs[n].n = Cardinality(Holders(n)) + IF Counted(n) THEN 1 ELSE 0
        BY <2>1, CountOf
      <4>2. QED
        BY <3>2, <3>3, <4>1
    <3>5. QED
      BY <2>1, <3>1, <3>4 DEF PoolInv, PoolFlags
  <2>2. \A t \in Threads, n \in Nodes : ~Adds(t, n)
    BY DEF Adds, Pool!Adding
  <2>3. QED
    BY <2>1, <2>2 DEF Listed
<1>2. PICK rank \in [Nodes -> Nat] :
         \A n \in Nodes : l(n) /\ n # freeListHead =>
             \E m \in Nodes : l(m) /\ next[m] = n /\ rank[m] < rank[n]
  BY DEF PoolInv, PoolChain
<1>3. /\ freeListHead # Null => l(freeListHead)
      /\ \A n \in Nodes : l(n) /\ next[n] # Null => l(next[n])
  BY DEF PoolInv, PoolChain
<1>4. next \in [Nodes -> Nodes \cup {Null}] /\ freeListHead \in Nodes \cup {Null}
  BY DEF PoolInv, PoolTypes
<1> HIDE DEF l
<1>5. Pool!Closed(rest)
  BY <1>1, <1>3, <1>4 DEF Pool!Closed
<1>6. ASSUME NEW S \in SUBSET rest, Pool!Closed(S)  PROVE S = rest
  <2> DEFINE far == {rank[n] : n \in rest \ S}
  <2>1. SUFFICES ASSUME S # rest  PROVE FALSE
    OBVIOUS
  <2>2. far \subseteq Nat /\ far # {}
    BY <2>1
  <2>3. PICK i \in far : \A j \in far : i <= j
    <3> HIDE DEF far
    <3>1. QED
      BY <2>2, FirstOf
  <2>4. PICK n \in rest \ S : rank[n] = i
    OBVIOUS
  <2>5. l(n) /\ n # freeListHead /\ n \in Nodes
    BY <1>1, <1>6, <2>4, PoolConstants DEF Pool!Closed
  <2>6. PICK m \in Nodes : l(m) /\ next[m] = n /\ rank[m] < rank[n]
    BY <1>2, <2>5
  <2>7. CASE m \in S
    BY <1>6, <2>4, <2>5, <2>6, <2>7, PoolConstants DEF Pool!Closed
  <2>8. CASE m \notin S
    <3>1. rank[m] \in far
      BY <1>1, <2>6, <2>8
    <3>2. i <= rank[m] /\ i \in Nat /\ rank[m] \in Nat
      BY <2>2, <2>3, <3>1
    <3>3. QED
      BY <2>4, <2>6, <3>2
  <2>9. QED
    BY <2>7, <2>8
<1>7. QED
  BY <1>5, <1>6 DEF Pool!ListIsExact

LEMMA PoolIsWhole ==
    ASSUME PoolInv  PROVE Pool!FreeListInv
<1>1. Pool!TypeOK
  <2>1. refs \in [Nodes -> [n : 0 .. Pool!Cardinality(Threads) + 2, bit : BOOLEAN]]
    <3>1. ASSUME NEW n \in Nodes
          PROVE  refs[n] \in [n : 0 .. Pool!Cardinality(Threads) + 2, bit : BOOLEAN]
      <4>1. /\ refs[n] \in [n : Nat, bit : BOOLEAN]
            /\ refs[n].n = Cardinality(Holders(n)) + IF Counted(n) THEN 1 ELSE 0
            /\ Cardinality(Holders(n)) \in Nat
        BY CountOf
      <4>2. /\ Cardinality(Holders(n)) <= Cardinality(Threads)
            /\ Cardinality(Threads) \in Nat
        <5>1. Holders(n) \subseteq Threads
          BY DEF Holders
        <5>2. QED
          BY <5>1, PoolConstants, FS_Subset, FS_CardinalityType
      <4>3. Pool!Cardinality(Threads) = Cardinality(Threads)
        BY DEF Pool!Cardinality, Cardinality
      <4>4. refs[n].n \in 0 .. Pool!Cardinality(Threads) + 2
        BY <4>1, <4>2, <4>3
      <4>5. QED
        BY <4>1, <4>4
    <3>2. QED
      BY <3>1 DEF PoolInv, PoolTypes
  <2>2. QED
    BY <2>1 DEF PoolInv, PoolTypes, Pool!TypeOK
<1>2. Pool!OneAdder
  BY DEF PoolInv, PoolFlags, Pool!OneAdder, Pool!Adding
<1>3. Pool!TakenIsNotFlagged
  BY PoolConstants DEF PoolInv, PoolTypes, PoolFlags, Pool!TakenIsNotFlagged
<1>4. Pool!NextIsStable
  BY DEF PoolInv, PoolFlags, Pool!NextIsStable
<1>5. Pool!ListIsExact
  BY IdleIsExact DEF Pool!ListIsExact
<1>6. QED
  BY <1>1, <1>2, <1>3, <1>4, <1>5 DEF Pool!FreeListInv

(* However many threads take nodes and put them back, at whatever moments: *)
(* no node is added twice at once, none that was taken is flagged, nobody  *)
(* swings the head to a stale next, and when all is quiet the list holds   *)
(* exactly the nodes that are nobody's (concurrentqueue.h:1374-1466).      *)
THEOREM FreeListIsWhole == Spec => []FreeListInv
<1>1. Init => PoolInv
  BY PoolInit DEF Init
<1>2. PoolInv /\ [Next]_vars => PoolInv'
  BY OnePart, PoolStep, PoolIdle
<1>3. PoolInv => FreeListInv
  BY PoolIsWhole DEF FreeListInv
<1>4. QED
  BY <1>1, <1>2, <1>3, PTL DEF Spec

(* The free list is a pool: a node is handed out once, to one thread, who  *)
(* has it until it gives it back (concurrentqueue.h:1389-1426).            *)
THEOREM FreeListPools == Spec => FreeListIsPool
<1>1. Init => PoolInv /\ Pool!Pool!Init
  BY PoolInit DEF Init, Pool!Init, Pool!Pool!Init
<1>2. PoolInv /\ [Next]_vars => PoolInv' /\ [Pool!Pool!Next]_owner
  BY OnePart, PoolStep, PoolIdle DEF poolVars
<1>3. QED
  BY <1>1, <1>2, PTL DEF Spec, FreeListIsPool, Pool!PoolSpec, Pool!Pool!Spec
=============================================================================

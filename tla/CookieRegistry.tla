--------------------------- MODULE CookieRegistry ---------------------------
(***************************************************************************)
(* How cookies are found by name (cookie.cpp:66-100, cookie.h:70-108), and *)
(* the InsertCookie queries that give them their ids (query.cpp:140-165),  *)
(* on connections that may be lost.                                        *)
(*                                                                         *)
(* A cookie is stored under the name it was created with, but has only its *)
(* first MAX_NAME_LENGTH - 1 characters as its own name, and it is that    *)
(* name the lookup compares with (Cookie::matches): plugins that register  *)
(* one long name get a cookie each.  QueryPipeline has names that are not  *)
(* cut, ids whose hash is 0 and what else an InsertCookie writes.          *)
(***************************************************************************)
EXTENDS Integers, Sequences

CONSTANTS
    Names,          \* the names plugins use, and those cut short
    Cut(_),         \* UTIL_strncpy(this->name, name, MAX_NAME_LENGTH)
    Hash(_),        \* std::hash<std::string>, & 0x7FFFFFFF
    OldIds,         \* ids left in Redis by a build with another std::hash
    Threads,
    MaxCookies      \* bound: cookies created

None == 0           \* no id, no cookie

RegistryAssumption ==
    /\ \A n \in Names : Cut(n) \in Names /\ Cut(Cut(n)) = Cut(n)
    /\ \A n \in Names : Hash(n) \in Nat \ {None}
    /\ OldIds \subseteq Nat \ {None}
    /\ MaxCookies \in Nat

VARIABLES
    cookieList,     \* the cookies, in the order of creation: the name given
                    \* (key), the name kept and dbid
    queue,          \* the cookies of the InsertCookie queries not yet taken
    thread,         \* the query threads: the cookie whose query each runs,
                    \* and what Redis answered to its GET
    pipe,           \* of each thread's connection: the id whose SET was
                    \* appended and is not executed, with the name it is for
    results,        \* ids on their way back to the game thread
    ids             \* Redis: cookies.id.* by name

vars == <<cookieList, queue, thread, pipe, results, ids>>

NotAsked == -1
Resting == [cookie |-> None, answer |-> NotAsked]
Empty == [name |-> None, id |-> None]

-----------------------------------------------------------------------------
(* cookieFinder.retrieve: the entry has the hash of the name looked up,    *)
(* that is, it was stored under it, and the cookie's own name is equal     *)
FindCookie(n) ==
    LET found == {i \in 1 .. Len(cookieList) :
                    cookieList[i].key = n /\ cookieList[i].name = n}
    IN  IF found = {} THEN None ELSE CHOOSE i \in found : \A j \in found : i <= j

(* CreateCookie, for RegClientCookie and for the rows of a load; nothing   *)
(* of a cookie that is found matters here.                                 *)
CreateCookie(n) ==
    /\ FindCookie(n) = None
    /\ Len(cookieList) < MaxCookies
    /\ cookieList' = Append(cookieList, [key |-> n, name |-> Cut(n), dbid |-> -1])
    /\ queue' = Append(queue, Len(cookieList) + 1)
    /\ UNCHANGED <<thread, pipe, results, ids>>

InsertCookieCallback ==
    \E r \in results :
        /\ cookieList' = [cookieList EXCEPT ![r.cookie].dbid = r.id]
        /\ results' = results \ {r}
        /\ UNCHANGED <<queue, thread, pipe, ids>>

-----------------------------------------------------------------------------
(* Query threads                                                           *)

GetQuery(t) ==
    /\ thread[t] = Resting /\ queue # <<>>
    /\ thread' = [thread EXCEPT ![t].cookie = Head(queue)]
    /\ queue' = Tail(queue)
    /\ UNCHANGED <<cookieList, pipe, results, ids>>

Name(t) == cookieList[thread[t].cookie].name

(* GET cookies.id.<name>: Redis executes it after what was appended before.*)
(* (A GET that is lost or refused is QueryThread's business: the thread    *)
(* dereferences a null reply, or takes the name for a new one.)            *)
BugGet(t) ==                    \* whatever id there is is not asked for
    /\ thread[t].cookie # None /\ thread[t].answer = NotAsked
    /\ pipe[t] = Empty
    /\ thread' = [thread EXCEPT ![t].answer = None]
    /\ UNCHANGED <<cookieList, queue, pipe, results, ids>>
Get(t) ==
    /\ thread[t].cookie # None /\ thread[t].answer = NotAsked
    /\ pipe[t] = Empty
    /\ thread' = [thread EXCEPT ![t].answer = ids[Name(t)]]
    /\ UNCHANGED <<cookieList, queue, pipe, results, ids>>

PutResult(t, id) ==
    /\ results' = results \cup {[cookie |-> thread[t].cookie, id |-> id]}
    /\ thread' = [thread EXCEPT ![t] = Resting]

(* A name that has an id keeps it; else SADD and the SETs are appended, and*)
(* the result is put without waiting for them.                             *)
InsertCookie(t) ==
    /\ thread[t].cookie # None /\ thread[t].answer # NotAsked
    /\ IF thread[t].answer # None
       THEN PutResult(t, thread[t].answer) /\ UNCHANGED pipe
       ELSE /\ PutResult(t, Hash(Name(t)))
            /\ pipe' = [pipe EXCEPT ![t] = [name |-> Name(t), id |-> Hash(Name(t))]]
    /\ UNCHANGED <<cookieList, queue, ids>>

(* Redis executes the SET of the id ...                                    *)
Execute(t) ==
    /\ pipe[t] # Empty
    /\ ids' = [ids EXCEPT ![pipe[t].name] = pipe[t].id]
    /\ pipe' = [pipe EXCEPT ![t] = Empty]
    /\ UNCHANGED <<cookieList, queue, thread, results>>

(* ... or the connection is lost, and the SET with it.                     *)
Lose(t) ==
    /\ pipe[t] # Empty
    /\ pipe' = [pipe EXCEPT ![t] = Empty]
    /\ UNCHANGED <<cookieList, queue, thread, results, ids>>

-----------------------------------------------------------------------------
(* Redis has the names that were stored, which are names kept.             *)
Init ==
    /\ cookieList = <<>> /\ queue = <<>> /\ results = {}
    /\ thread = [t \in Threads |-> Resting]
    /\ pipe = [t \in Threads |-> Empty]
    /\ ids \in [Names -> {None} \cup OldIds]
    /\ \A n \in Names : Cut(n) # n => ids[n] = None

Next ==
    \/ \E n \in Names : CreateCookie(n)
    \/ InsertCookieCallback
    \/ \E t \in Threads : GetQuery(t) \/ Get(t) \/ InsertCookie(t) \/ Execute(t) \/ Lose(t)

Spec == Init /\ [][Next]_vars

-----------------------------------------------------------------------------
Cookie == [key : Names, name : Names, dbid : Int]

(* The variables have their types.                                         *)
TypeOK ==
    /\ cookieList \in Seq(Cookie)
    /\ queue \in Seq(1 .. Len(cookieList))
    /\ thread \in [Threads -> [cookie : 0 .. Len(cookieList), answer : Int]]
    /\ pipe \in [Threads -> {Empty} \cup [name : Names, id : Nat \ {None}]]
    /\ \A r \in results : r.cookie \in 1 .. Len(cookieList) /\ r.id \in Nat
    /\ ids \in [Names -> Nat]

Known(i) == cookieList[i].dbid # -1

(* Cookies of one name agree on their id, and with Redis if Redis has one: *)
(* when several plugins register one long name and several threads ask for *)
(* its id at once, both find none and both write, whatever of it Redis     *)
(* executes and whichever build wrote the id that is there                 *)
(* (query.cpp:147-164).  Without the SET a cookie has an id that Redis     *)
(* does not have.                                                          *)
IdsAgree ==
    \A i, j \in 1 .. Len(cookieList) :
        LET n == cookieList[i].name
        IN  /\ Known(i) /\ Known(j) /\ cookieList[j].name = n
                 => cookieList[i].dbid = cookieList[j].dbid
            /\ Known(i) /\ ids[n] # None => cookieList[i].dbid = ids[n]
=============================================================================

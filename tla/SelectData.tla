----------------------------- MODULE SelectData -----------------------------
(***************************************************************************)
(* What SelectData makes of Redis (query.cpp:167-259): the rows the script *)
(* returns (query.h:43-64) and those the slow path puts together from KEYS *)
(* and GET, through async_redis::reply (reply.cpp), for one Steam id.  The *)
(* content of Redis is what InsertCookie and InsertData write command by   *)
(* command and what expires.  A load is one step; what other connections   *)
(* do in the middle of the slow path is in QueryPipeline.                  *)
(***************************************************************************)
EXTENDS Naturals, Sequences, SequencesExt

CONSTANTS
    Names, Descs,
    Values,         \* "" is the empty one
    Access,         \* CookieAccess, as it is written to Redis
    Threads,        \* connections that register cookies
    Nil             \* no such key

Throws == "throws"      \* std::invalid_argument leaves BindParamsAndRun

SelectAssumption ==
    /\ "0" \in Access
    /\ Nil \notin Descs \cup Values \cup Access
    /\ Throws \notin Names \cup Descs

VARIABLES
    list,           \* the set cookies.list
    id, desc, access,   \* cookies.id.*, cookies.desc.*, cookies.access.*
    value,          \* <steamId>.<id>, by the cookie's name
    pipe,           \* the commands of each connection's InsertCookie
    results         \* m_results of the last load

redis == <<list, id, desc, access, value>>
vars == <<redis, pipe, results>>

CookieAccess_Public == "0"

-----------------------------------------------------------------------------
(* reply                                                                   *)

(* What hiredis gives: a type, and a string or the elements of an array.   *)
RawString(s) == [type |-> "string", str |-> s, element |-> <<>>]
RawArray(s) == [type |-> "arrays", str |-> "", element |-> s]
RawGet(s) == IF s = Nil THEN [type |-> "nil", str |-> "", element |-> <<>>]
             ELSE RawString(s)

(* reply::reply, of a raw reply that is no array and of one of arrays      *)
Leaf(raw) == [type |-> raw.type, str_val |-> raw.str, rows |-> <<>>]
Row(raw) == [type |-> raw.type, str_val |-> "",
             rows |-> [i \in 1 .. Len(raw.element) |-> Leaf(raw.element[i])]]
Table(raw) == [type |-> raw.type, str_val |-> "",
               rows |-> [i \in 1 .. Len(raw.element) |-> Row(raw.element[i])]]

GetString(r) == IF r.type = "string" THEN r.str_val ELSE Throws
GetArray(r) == r.rows

(* std::stoi of what GetString returns: either may throw, and is caught.   *)
ToAccess(r) == IF GetString(r) \in Access THEN GetString(r) ELSE CookieAccess_Public

(* An empty value is what a player without one has, too.                   *)
ToValue(r) == IF r.type = "string" THEN r.str_val ELSE ""

Tuple(n, d, a, v) == [name |-> n, desc |-> d, access |-> a, value |-> v]

(* The tuples of m_results, unless one of them could not be made           *)
Results(tuples) ==
    IF \E t \in tuples : Throws \in {t.name, t.desc}
    THEN [throws |-> TRUE, tuples |-> {}]
    ELSE [throws |-> FALSE, tuples |-> tuples]

-----------------------------------------------------------------------------
(* The two paths                                                           *)

Known == {n \in Names : id[n] # Nil}

(* The script's table ends at the first field that is nil.                 *)
BugScript ==
    RawArray([i \in 1 .. Cardinality(list \cap Known) |->
        LET n == SetToSeq(list \cap Known)[i]
        IN  RawArray(SelectSeq(<<RawString(n), RawGet(desc[n]), RawGet(access[n]),
                                 RawGet(value[n])>>, LAMBDA r : r.type = "string"))])
Script ==
    RawArray([i \in 1 .. Cardinality(list \cap Known) |->
        LET n == SetToSeq(list \cap Known)[i]
        IN  RawArray(<<RawString(n), RawGet(desc[n]), RawGet(access[n]),
                       RawGet(value[n])>>)])

(* The loop ends at the first row that has not the shape of one.           *)
IsRow(r) == r.type = "arrays" /\ Len(GetArray(r)) = 4

RowsRead(cookies) ==
    LET rows == GetArray(cookies)
    IN  {i \in 1 .. Len(rows) : \A j \in 1 .. i : IsRow(rows[j])}

FastRows ==
    LET cookies == Table(Script)
    IN  Results({LET c == GetArray(GetArray(cookies)[i])
                 IN  Tuple(GetString(c[1]), GetString(c[2]), ToAccess(c[3]), ToValue(c[4])) :
                    i \in RowsRead(cookies)})

(* The script removes names without an id from the list.                   *)
RunScript ==
    /\ results' = FastRows
    /\ list' = list \cap Known
    /\ UNCHANGED <<id, desc, access, value, pipe>>

SlowRows ==
    Results({Tuple(n, GetString(Leaf(RawGet(desc[n]))), ToAccess(Leaf(RawGet(access[n]))),
                   ToValue(Leaf(RawGet(value[n])))) : n \in Known})

RunSlow ==
    /\ results' = SlowRows
    /\ UNCHANGED <<redis, pipe>>

-----------------------------------------------------------------------------
(* What is written to Redis meanwhile                                      *)


(* InsertCookie: the GET of the id, and the commands that follow from it   *)
InsertCookie(t, n, d, a) ==
    /\ pipe[t] = <<>>
    /\ pipe' = [pipe EXCEPT ![t] =
          IF id[n] # Nil THEN <<<<"SADD", n, Nil>>>>
          ELSE <<<<"SADD", n, Nil>>, <<"access", n, a>>, <<"desc", n, d>>, <<"id", n, "1">>>>]
    /\ UNCHANGED <<redis, results>>

Execute(t) ==
    /\ pipe[t] # <<>>
    /\ pipe' = [pipe EXCEPT ![t] = Tail(@)]
    /\ LET c == Head(pipe[t])
           Put(f, command) == IF c[1] = command THEN [f EXCEPT ![c[2]] = c[3]] ELSE f
       IN  /\ list' = IF c[1] = "SADD" THEN list \cup {c[2]} ELSE list
           /\ id' = Put(id, "id") /\ desc' = Put(desc, "desc")
           /\ access' = Put(access, "access")
    /\ UNCHANGED <<value, results>>

(* A value is written under a cookie's id, and goes after two weeks.       *)
InsertData(n, v) ==
    /\ n \in Known
    /\ value' = [value EXCEPT ![n] = v]
    /\ UNCHANGED <<list, id, desc, access, pipe, results>>

Expire(n) ==
    /\ value[n] # Nil
    /\ value' = [value EXCEPT ![n] = Nil]
    /\ UNCHANGED <<list, id, desc, access, pipe, results>>

Init ==
    /\ list = {}
    /\ id = [n \in Names |-> Nil] /\ desc = id /\ access = id /\ value = id
    /\ pipe = [t \in Threads |-> <<>>]
    /\ results = Results({})

Next ==
    \/ RunScript \/ RunSlow
    \/ \E t \in Threads :
          \/ Execute(t)
          \/ \E n \in Names, d \in Descs, a \in Access : InsertCookie(t, n, d, a)
    \/ \E n \in Names : Expire(n) \/ \E v \in Values : InsertData(n, v)

Spec == Init /\ [][Next]_vars

-----------------------------------------------------------------------------
(* Every variable has its type.                                            *)
TypeOK ==
    /\ list \subseteq Names
    /\ id \in [Names -> {"1", Nil}]
    /\ desc \in [Names -> Descs \cup {Nil}] /\ access \in [Names -> Access \cup {Nil}]
    /\ value \in [Names -> Values \cup {Nil}]
    /\ \A t \in Threads : Len(pipe[t]) <= 4
    /\ ~results.throws
    /\ results.tuples \subseteq
          [name : Names, desc : Descs, access : Access, value : Values \cup {""}]

(* What a load should give for a set of cookies                            *)
Expected(names) ==
    {Tuple(n, desc[n], access[n], IF value[n] = Nil THEN "" ELSE value[n]) : n \in names}

(* Each path gives a tuple for each cookie that has an id, with its        *)
(* description, its access and the player's value, "" when there is none;  *)
(* none is dropped behind a row of another shape and none throws, whatever *)
(* connections are registering (query.cpp:179-205, 215-256).  The script   *)
(* gives those on the list.                                                *)
LoadIsExact ==
    [][/\ RunScript => results' = Results(Expected(list \cap Known))
       /\ RunSlow => results' = Results(Expected(Known))]_vars
=============================================================================

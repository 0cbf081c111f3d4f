------------------------- MODULE BlockingQueueProofs -------------------------
(***************************************************************************)
(* BlockingQueue hands every item to one call, in the order its producer   *)
(* enqueued it, owes no call an item that is not there, and gives a lone   *)
(* consumer an item that is, for any numbers of producers, consumers and   *)
(* items.                                                                  *)
(*                                                                         *)
(* What is hard is that a consumer decides on counters it read one after   *)
(* the other (concurrentqueue.h:2476-2542): it may have been overtaken by  *)
(* others, and what those took too much of may have been given back.  The  *)
(* inductive invariant counts, for each producer, what is claimed and what *)
(* is reserved, that is, added to dequeueOptimisticCount and not yet       *)
(* checked.  A call that has reserved can be sure of its items because     *)
(* the items claimed and those reserved up to its own all fit either under *)
(* tailIndex or under the bound it is about to compare with (Fits).        *)
(***************************************************************************)
EXTENDS BlockingQueue, FiniteSetTheorems, SequenceTheorems, TLAPS

(* What a consumer in state l has claimed of producer p, what it has       *)
(* reserved of p, and what it has reserved no later than one in state m    *)
ClaimOf(l, p) == IF l.pc = "claim" /\ l.from = p THEN l.want ELSE 0
ReserveOf(l, p) == IF l.pc = "check" /\ l.from = p THEN l.want ELSE 0
EarlierOf(l, m) == IF l.mine <= m.mine THEN ReserveOf(l, m.from) ELSE 0

Claimed(p) == [c \in Consumers |-> ClaimOf(con[c], p)]
Reserved(p) == [c \in Consumers |-> ReserveOf(con[c], p)]
Before(c) == [d \in Consumers |-> EarlierOf(con[d], con[c])]
Needs == [c \in Consumers |-> con[c].need]

(* The items of p that consumers have taken or are sure to take            *)
Accepted(p) == head[p] + Total(Claimed(p), MaxBulk)

(* What a consumer in state l knows                                        *)
Knows(l) ==
    /\ l.pc = "idle" => l.need = 0
    /\ l.pc \in {"sum", "sumHead"} => ~blocking /\ l.found = 0 /\ l.best = Null
    /\ l.pc = "list" => l.found = 0 /\ l.size = 0 /\ l.best = Null
    /\ l.pc \in {"score", "scoreHead"} =>
          /\ l.found > 0 => l.size > 0
          /\ l.size > 0 => l.best \in Producers
    /\ l.pc \in {"sumHead", "scoreHead"} => l.todo # <<>>
    /\ l.pc \in {"dequeue", "add", "check", "claim"} => l.from \in Producers
    /\ l.pc \in {"add", "check", "claim"} => l.want \in 1 .. l.need
    /\ l.pc \in {"add", "check"} => l.over <= overcommit[l.from]

(* The counters of a producer are what its consumers made of them.         *)
CountersInv(p) ==
    /\ optimistic[p] = Accepted(p) + Total(Reserved(p), MaxBulk) + overcommit[p]
    /\ Accepted(p) <= tail[p]

(* Reservations are ordered by `mine', ...                                 *)
Ordered ==
    \A c \in Consumers :
        con[c].pc = "check" =>
            /\ con[c].mine < optimistic[con[c].from]
            /\ \A d \in Consumers \ {c} :
                  con[d].pc = "check" /\ con[d].from = con[c].from =>
                      con[c].mine # con[d].mine

(* ... and those up to that of c fit.                                      *)
Fits(c) ==
    LET upto == Accepted(con[c].from) + Total(Before(c), MaxBulk)
    IN  \/ upto <= tail[con[c].from]
        \/ upto <= con[c].mine - con[c].over + con[c].want

DequeueInv ==
    /\ \A c \in Consumers : Knows(con[c])
    /\ \A p \in Producers : CountersInv(p)
    /\ Ordered
    /\ \A c \in Consumers : con[c].pc = "check" => Fits(c)

IInv == QueueTypeOK /\ DequeueInv /\ PermitsAreItems

-----------------------------------------------------------------------------
(* Sums                                                                    *)
Tallies(S, B) == [S -> 0 .. B]
Sets(f, c, k, g) == g = [f EXCEPT ![c] = k]

LEMMA TotalType ==
    ASSUME NEW S, IsFiniteSet(S), NEW B \in Nat, NEW f \in Tallies(S, B)
    PROVE  /\ IsFiniteSet({u \in S \X (1 .. B) : u[2] <= f[u[1]]})
           /\ Total(f, B) \in Nat
<1>1. IsFiniteSet(1 .. B)
  <2>1. 1 \in Int /\ B \in Int
    OBVIOUS
  <2>2. QED
    BY <2>1, FS_Interval
<1>2. IsFiniteSet(S \X (1 .. B))
  BY <1>1, FS_Product
<1>3. {u \in S \X (1 .. B) : u[2] <= f[u[1]]} \subseteq S \X (1 .. B)
  OBVIOUS
<1>4. IsFiniteSet({u \in S \X (1 .. B) : u[2] <= f[u[1]]})
  BY <1>2, <1>3, FS_Subset
<1>5. DOMAIN f = S
  BY DEF Tallies
<1>6. QED
  BY <1>4, <1>5, FS_CardinalityType DEF Total

LEMMA OnesUnits ==
    ASSUME NEW c, NEW k \in Nat
    PROVE  IsFiniteSet({c} \X (1 .. k)) /\ Cardinality({c} \X (1 .. k)) = k
<1>1. k \in Nat /\ 1 \in Int /\ k \in Int
  OBVIOUS
<1>2. IsFiniteSet(1 .. k) /\ Cardinality(1 .. k) = k
  BY <1>1, FS_Interval
<1>3. IsFiniteSet({c}) /\ Cardinality({c}) = 1
  BY FS_Singleton
<1>4. /\ IsFiniteSet({c} \X (1 .. k))
      /\ Cardinality({c} \X (1 .. k)) = Cardinality({c}) * Cardinality(1 .. k)
  BY <1>2, <1>3, FS_Product
<1>5. QED
  BY <1>1, <1>2, <1>3, <1>4

(* One value taken out                                                     *)
LEMMA TotalWithout ==
    ASSUME NEW S, IsFiniteSet(S), NEW B \in Nat, NEW f \in Tallies(S, B), NEW c \in S
    PROVE  Total(f, B) = Total([f EXCEPT ![c] = 0], B) + f[c]
<1> DEFINE g == [f EXCEPT ![c] = 0]
           all == {u \in S \X (1 .. B) : u[2] <= f[u[1]]}
           rest == {u \in S \X (1 .. B) : u[2] <= g[u[1]]}
           ones == {c} \X (1 .. f[c])
<1>1. /\ g \in Tallies(S, B) /\ DOMAIN g = S /\ \A x \in S : g[x] = IF x = c THEN 0 ELSE f[x]
      /\ f[c] \in Nat /\ f[c] <= B /\ DOMAIN f = S
  BY DEF Tallies
<1>2. all = rest \cup ones
  BY <1>1
<1>3. rest \cap ones = {}
  BY <1>1
<1>4. IsFiniteSet(rest) /\ Total(g, B) = Cardinality(rest) /\ Total(g, B) \in Nat
  <2>1. DOMAIN g = S
    BY <1>1
  <2>2. IsFiniteSet(rest) /\ Total(g, B) \in Nat
    BY <1>1, TotalType
  <2>3. QED
    BY <2>1, <2>2 DEF Total
<1>5. IsFiniteSet(ones) /\ Cardinality(ones) = f[c]
  BY <1>1, OnesUnits
<1>6. Total(f, B) = Cardinality(all)
  BY <1>1 DEF Total
<1> HIDE DEF all, rest, ones, g
<1>7. Cardinality(rest \cup ones) =
         Cardinality(rest) + Cardinality(ones) - Cardinality(rest \cap ones)
  BY <1>4, <1>5, FS_Union
<1>8. Cardinality(rest \cap ones) = 0
  BY <1>3, FS_EmptySet
<1>9. Total(f, B) = Total(g, B) + f[c]
  BY <1>1, <1>2, <1>4, <1>5, <1>6, <1>7, <1>8
<1>10. QED
  BY <1>9 DEF g

LEMMA TotalOther ==
    ASSUME NEW S, IsFiniteSet(S), NEW B \in Nat, NEW f \in Tallies(S, B), NEW c \in S,
           NEW z, Sets(f, c, 0, z)
    PROVE  Total(f, B) = Total(z, B) + f[c] /\ Total(z, B) \in Nat /\ Total(f, B) \in Nat
<1>1. z \in Tallies(S, B)
  BY DEF Tallies, Sets
<1>2. Total(z, B) \in Nat /\ Total(f, B) \in Nat
  BY <1>1, TotalType
<1>3. Total(f, B) = Total([f EXCEPT ![c] = 0], B) + f[c]
  BY TotalWithout
<1>4. QED
  BY <1>2, <1>3 DEF Sets

(* One value changed                                                       *)
LEMMA TotalChange ==
    ASSUME NEW S, IsFiniteSet(S), NEW B \in Nat, NEW f \in Tallies(S, B), NEW c \in S,
           NEW k \in 0 .. B, NEW g, Sets(f, c, k, g)
    PROVE  /\ Total(g, B) = Total(f, B) - f[c] + k
           /\ Total(f, B) \in Nat /\ Total(g, B) \in Nat /\ f[c] <= Total(f, B)
<1>1. PICK z : Sets(f, c, 0, z)
  BY DEF Sets
<1>2. g \in Tallies(S, B) /\ Sets(g, c, 0, z) /\ g[c] = k /\ f[c] \in Nat /\ k \in Nat
  <2>1. g = [f EXCEPT ![c] = k] /\ z = [f EXCEPT ![c] = 0] /\ f \in [S -> 0 .. B]
    BY <1>1 DEF Sets, Tallies
  <2>2. g \in [S -> 0 .. B] /\ g[c] = k /\ f[c] \in Nat /\ k \in Nat
    BY <2>1
  <2>3. z = [g EXCEPT ![c] = 0]
    BY <2>1
  <2>4. QED
    BY <2>2, <2>3 DEF Sets, Tallies
<1>3. Total(f, B) = Total(z, B) + f[c] /\ Total(f, B) \in Nat /\ Total(z, B) \in Nat
  BY <1>1, TotalOther
<1>4. Total(g, B) = Total(z, B) + g[c] /\ Total(g, B) \in Nat
  BY <1>2, TotalOther
<1>5. QED
  BY <1>2, <1>3, <1>4

LEMMA TotalZero ==
    ASSUME NEW S, NEW B \in Nat
    PROVE  Total([c \in S |-> 0], B) = 0
<1>1. {u \in S \X (1 .. B) : u[2] <= [c \in S |-> 0][u[1]]} = {}
  OBVIOUS
<1>2. QED
  BY <1>1, FS_EmptySet DEF Total

LEMMA TotalMonotonic ==
    ASSUME NEW S, IsFiniteSet(S), NEW B \in Nat, NEW f \in Tallies(S, B),
           NEW g \in Tallies(S, B), \A x \in S : f[x] <= g[x]
    PROVE  Total(f, B) <= Total(g, B)
<1> DEFINE F == {u \in S \X (1 .. B) : u[2] <= f[u[1]]}
           G == {u \in S \X (1 .. B) : u[2] <= g[u[1]]}
<1>1. IsFiniteSet(G)
  BY TotalType
<1>2. F \subseteq G
  BY DEF Tallies
<1>3. Total(f, B) = Cardinality(F) /\ Total(g, B) = Cardinality(G)
  BY DEF Total, Tallies
<1> HIDE DEF F, G
<1>4. Cardinality(F) <= Cardinality(G)
  BY <1>1, <1>2, FS_Subset
<1>5. QED
  BY <1>3, <1>4

-----------------------------------------------------------------------------
(* What a step of one consumer does to the sums                            *)
LEMMA TallyTypes ==
    ASSUME QueueTypeOK
    PROVE  /\ tail \in Tallies(Producers, MaxItems) /\ head \in Tallies(Producers, MaxItems)
           /\ Needs \in Tallies(Consumers, MaxBulk)
           /\ \A p : /\ Claimed(p) \in Tallies(Consumers, MaxBulk)
                     /\ Reserved(p) \in Tallies(Consumers, MaxBulk)
           /\ \A c : Before(c) \in Tallies(Consumers, MaxBulk)
<1>1. \A c \in Consumers : con[c] \in Locals
  BY DEF QueueTypeOK
<1>2. \A c \in Consumers : con[c].want \in 0 .. MaxBulk /\ con[c].need \in 0 .. MaxBulk
  BY <1>1 DEF Locals
<1>3. 0 \in 0 .. MaxBulk
  BY QueueAssumption
<1>4. \A p : \A c \in Consumers : /\ ClaimOf(con[c], p) \in 0 .. MaxBulk
                                  /\ ReserveOf(con[c], p) \in 0 .. MaxBulk
  BY <1>2, <1>3 DEF ClaimOf, ReserveOf
<1>5. \A c : \A d \in Consumers : EarlierOf(con[d], con[c]) \in 0 .. MaxBulk
  BY <1>3, <1>4 DEF EarlierOf
<1>6. tail \in Tallies(Producers, MaxItems) /\ head \in Tallies(Producers, MaxItems)
  BY DEF QueueTypeOK, Tallies
<1>7. QED
  BY <1>2, <1>4, <1>5, <1>6 DEF Tallies, Claimed, Reserved, Before, Needs

LEMMA TotalTypes ==
    ASSUME QueueTypeOK
    PROVE  /\ Published \in Nat /\ Total(head, MaxItems) \in Nat
           /\ Total(Needs, MaxBulk) \in Nat
           /\ \A p : /\ Total(Claimed(p), MaxBulk) \in Nat
                     /\ Total(Reserved(p), MaxBulk) \in Nat
           /\ \A c : Total(Before(c), MaxBulk) \in Nat
<1>1. /\ IsFiniteSet(Consumers) /\ IsFiniteSet(Producers)
      /\ MaxBulk \in Nat /\ MaxItems \in Nat
  BY QueueAssumption
<1>2. Published \in Nat /\ Total(head, MaxItems) \in Nat
  BY <1>1, TallyTypes, TotalType DEF Published
<1>3. Total(Needs, MaxBulk) \in Nat
  BY <1>1, TallyTypes, TotalType
<1>4. ASSUME NEW p
      PROVE  Total(Claimed(p), MaxBulk) \in Nat /\ Total(Reserved(p), MaxBulk) \in Nat
  BY <1>1, TallyTypes, TotalType
<1>5. ASSUME NEW c PROVE Total(Before(c), MaxBulk) \in Nat
  BY <1>1, TallyTypes, TotalType
<1>6. QED
  BY <1>2, <1>3, <1>4, <1>5

Moves(c, r) ==
    /\ con' = [con EXCEPT ![c] = r]
    /\ con'[c] = r /\ \A d \in Consumers \ {c} : con'[d] = con[d]

LEMMA Moved ==
    ASSUME QueueTypeOK, NEW c \in Consumers, NEW r \in Locals, Local(c, r)
    PROVE  Moves(c, r) /\ con' \in [Consumers -> Locals]
BY DEF Local, Moves, QueueTypeOK

LEMMA ClaimedMoves ==
    ASSUME QueueTypeOK, NEW c \in Consumers, NEW r \in Locals, Moves(c, r),
           NEW p
    PROVE  Total(Claimed(p)', MaxBulk)
              = Total(Claimed(p), MaxBulk) - ClaimOf(con[c], p) + ClaimOf(r, p)
<1>1. PICK f : f = Claimed(p)
  OBVIOUS
<1>2. PICK g : g = Claimed(p)'
  OBVIOUS
<1>3. ClaimOf(r, p) \in 0 .. MaxBulk
  BY QueueAssumption DEF ClaimOf, Locals
<1>4. g = [f EXCEPT ![c] = ClaimOf(r, p)] /\ f[c] = ClaimOf(con[c], p)
  BY <1>1, <1>2 DEF Claimed, Moves
<1>5. f \in Tallies(Consumers, MaxBulk) /\ IsFiniteSet(Consumers) /\ MaxBulk \in Nat
  BY <1>1, TallyTypes, QueueAssumption
<1>6. Sets(f, c, ClaimOf(r, p), g)
  BY <1>4 DEF Sets
<1>7. Total(g, MaxBulk) = Total(f, MaxBulk) - f[c] + ClaimOf(r, p)
  BY <1>3, <1>5, <1>6, TotalChange
<1>8. QED
  BY <1>1, <1>2, <1>4, <1>7

LEMMA ReservedMoves ==
    ASSUME QueueTypeOK, NEW c \in Consumers, NEW r \in Locals, Moves(c, r),
           NEW p
    PROVE  Total(Reserved(p)', MaxBulk)
              = Total(Reserved(p), MaxBulk) - ReserveOf(con[c], p) + ReserveOf(r, p)
<1>1. PICK f : f = Reserved(p)
  OBVIOUS
<1>2. PICK g : g = Reserved(p)'
  OBVIOUS
<1>3. ReserveOf(r, p) \in 0 .. MaxBulk
  BY QueueAssumption DEF ReserveOf, Locals
<1>4. g = [f EXCEPT ![c] = ReserveOf(r, p)] /\ f[c] = ReserveOf(con[c], p)
  BY <1>1, <1>2 DEF Reserved, Moves
<1>5. f \in Tallies(Consumers, MaxBulk) /\ IsFiniteSet(Consumers) /\ MaxBulk \in Nat
  BY <1>1, TallyTypes, QueueAssumption
<1>6. Sets(f, c, ReserveOf(r, p), g)
  BY <1>4 DEF Sets
<1>7. Total(g, MaxBulk) = Total(f, MaxBulk) - f[c] + ReserveOf(r, p)
  BY <1>3, <1>5, <1>6, TotalChange
<1>8. QED
  BY <1>1, <1>2, <1>4, <1>7

LEMMA BeforeMoves ==
    ASSUME QueueTypeOK, NEW c \in Consumers, NEW r \in Locals, Moves(c, r),
           NEW d \in Consumers, d # c
    PROVE  Total(Before(d)', MaxBulk)
              = Total(Before(d), MaxBulk) - EarlierOf(con[c], con[d]) + EarlierOf(r, con[d])
<1>1. PICK f : f = Before(d)
  OBVIOUS
<1>2. PICK g : g = Before(d)'
  OBVIOUS
<1>3. PICK k : k = EarlierOf(r, con[d])
  OBVIOUS
<1>4. k \in 0 .. MaxBulk
  BY <1>3, QueueAssumption DEF EarlierOf, ReserveOf, Locals
<1>5. con'[d] = con[d] /\ con'[c] = r /\ \A x \in Consumers \ {c} : con'[x] = con[x]
  BY DEF Moves
<1>6. f[c] = EarlierOf(con[c], con[d])
  BY <1>1 DEF Before
<1>7. g = [f EXCEPT ![c] = k]
  BY <1>1, <1>2, <1>3, <1>5 DEF Before
<1>8. f \in Tallies(Consumers, MaxBulk) /\ IsFiniteSet(Consumers) /\ MaxBulk \in Nat
  BY <1>1, TallyTypes, QueueAssumption
<1>9. Sets(f, c, k, g)
  BY <1>7 DEF Sets
<1>10. Total(g, MaxBulk) = Total(f, MaxBulk) - f[c] + k
  BY <1>4, <1>8, <1>9, TotalChange
<1>11. QED
  BY <1>1, <1>2, <1>3, <1>6, <1>10

LEMMA NeedsMoves ==
    ASSUME QueueTypeOK, NEW c \in Consumers, NEW r \in Locals, Moves(c, r)
    PROVE  Total(Needs', MaxBulk) = Total(Needs, MaxBulk) - con[c].need + r.need
<1>1. PICK f : f = Needs
  OBVIOUS
<1>2. PICK g : g = Needs'
  OBVIOUS
<1>3. r.need \in 0 .. MaxBulk
  BY DEF Locals
<1>4. g = [f EXCEPT ![c] = r.need] /\ f[c] = con[c].need
  BY <1>1, <1>2 DEF Needs, Moves
<1>5. f \in Tallies(Consumers, MaxBulk) /\ IsFiniteSet(Consumers) /\ MaxBulk \in Nat
  BY <1>1, TallyTypes, QueueAssumption
<1>6. Sets(f, c, r.need, g)
  BY <1>4 DEF Sets
<1>7. Total(g, MaxBulk) = Total(f, MaxBulk) - f[c] + r.need
  BY <1>3, <1>5, <1>6, TotalChange
<1>8. QED
  BY <1>1, <1>2, <1>4, <1>7

-----------------------------------------------------------------------------
(* Steps that leave the counters alone                                     *)
Busy == {"check", "claim"}

LEMMA KnowsKept ==
    ASSUME NEW l \in Locals, Knows(l), UNCHANGED <<blocking, overcommit>>
    PROVE  Knows(l)'
BY DEF Knows

LEMMA QuietDequeue ==
    ASSUME QueueTypeOK, DequeueInv, NEW c \in Consumers, NEW r \in Locals,
           Moves(c, r), con[c].pc \notin Busy, r.pc \notin Busy, Knows(r),
           UNCHANGED <<blocking, tail, dequeueVars>>
    PROVE  DequeueInv'
<1>1. UNCHANGED <<blocking, tail, head, optimistic, overcommit>>
  BY DEF dequeueVars
<1>2. con'[c] = r /\ \A d \in Consumers \ {c} : con'[d] = con[d]
  BY DEF Moves
<1>3. \A d \in Consumers : con[d] \in Locals
  BY DEF QueueTypeOK
<1>4. ASSUME NEW d \in Consumers PROVE Knows(con[d])'
  <2>1. PICK l \in Locals : l = con'[d] /\ Knows(l)
    <3>1. CASE d = c
      BY <1>2, <3>1
    <3>2. CASE d # c
      BY <1>2, <1>3, <3>2 DEF DequeueInv
    <3>3. QED
      BY <3>1, <3>2
  <2>2. Knows(l)'
    BY <1>1, <2>1, KnowsKept
  <2>3. QED
    BY <2>1, <2>2 DEF Knows
<1>5. \A p : ClaimOf(con[c], p) = 0 /\ ClaimOf(r, p) = 0 /\ ReserveOf(con[c], p) = 0
             /\ ReserveOf(r, p) = 0
  BY DEF ClaimOf, ReserveOf, Busy
<1>6. ASSUME NEW p
      PROVE  /\ Total(Claimed(p)', MaxBulk) = Total(Claimed(p), MaxBulk)
             /\ Total(Reserved(p)', MaxBulk) = Total(Reserved(p), MaxBulk)
  BY <1>5, ClaimedMoves, ReservedMoves, TotalTypes
<1>7. ASSUME NEW p \in Producers PROVE CountersInv(p)'
  BY <1>1, <1>6 DEF DequeueInv, CountersInv, Accepted
<1>8. ASSUME NEW d \in Consumers, con'[d].pc = "check"
      PROVE  d # c /\ con'[d] = con[d] /\ con[d].pc = "check"
  BY <1>2, <1>8 DEF Busy
<1>9. Ordered'
  BY <1>1, <1>8 DEF DequeueInv, Ordered
<1>10. ASSUME NEW d \in Consumers, con'[d].pc = "check" PROVE Fits(d)'
  <2>1. d # c /\ con'[d] = con[d] /\ con[d].pc = "check"
    BY <1>8, <1>10
  <2>2. EarlierOf(con[c], con[d]) = 0 /\ EarlierOf(r, con[d]) = 0
    BY <1>5 DEF EarlierOf
  <2>3. Total(Before(d)', MaxBulk) = Total(Before(d), MaxBulk)
    BY <2>1, <2>2, BeforeMoves, TotalTypes
  <2>4. Fits(d)
    BY <2>1 DEF DequeueInv
  <2>5. Accepted(con[d].from)' = Accepted(con[d].from)
    <3>1. PICK p : p = con[d].from
      OBVIOUS
    <3>2. Accepted(p)' = Accepted(p)
      BY <1>1, <1>6 DEF Accepted
    <3>3. QED
      BY <2>1, <3>1, <3>2 DEF Accepted, Claimed
  <2>6. QED
    BY <1>1, <2>1, <2>3, <2>4, <2>5 DEF Fits
<1>11. QED
  BY <1>4, <1>7, <1>9, <1>10 DEF DequeueInv

-----------------------------------------------------------------------------
(* A consumer reserves: dequeueOptimisticCount.fetch_add                   *)
LEMMA FitsAgain ==
    ASSUME NEW d, NEW p, p = con[d].from, con'[d] = con[d], NEW a, a = Accepted(p)',
           NEW b, b = Total(Before(d)', MaxBulk),
           a + b <= tail[p]' \/ a + b <= con[d].mine - con[d].over + con[d].want
    PROVE  Fits(d)'
<1>1. con'[d].from = p
  OBVIOUS
<1>2. Accepted(con[d].from)' = a
  BY <1>1 DEF Accepted, Claimed
<1>3. QED
  BY <1>1, <1>2 DEF Fits

LEMMA ReserveDequeue ==
    ASSUME QueueTypeOK, DequeueInv, NEW c \in Consumers, AddOptimistic(c)
    PROVE  DequeueInv' /\ (\E r \in Locals : Moves(c, r) /\ r.need = con[c].need)
                       /\ optimistic' \in [Producers -> Nat]
<1>1. PICK l \in Locals : l = con[c]
  BY DEF QueueTypeOK
<1>2. PICK p \in Producers : p = l.from
  BY <1>1 DEF AddOptimistic, DequeueInv, Knows
<1>3. /\ l.pc = "add" /\ l.want \in 1 .. l.need /\ l.need \in Nat /\ l.over <= overcommit[p]
      /\ l.want \in Nat /\ l.over \in Nat
  BY <1>1, <1>2 DEF AddOptimistic, DequeueInv, Knows, Locals
<1>4. /\ optimistic \in [Producers -> Nat] /\ overcommit \in [Producers -> Nat]
      /\ tail \in [Producers -> Nat] /\ head \in [Producers -> Nat]
  BY QueueAssumption DEF QueueTypeOK
<1>5. PICK r : r = [l EXCEPT !.pc = "check", !.mine = optimistic[p]]
  OBVIOUS
<1>6. r \in Locals
  BY <1>1, <1>4, <1>5 DEF Locals
<1>7. /\ r.pc = "check" /\ r.mine = optimistic[p] /\ r.from = p /\ r.want = l.want
      /\ r.over = l.over /\ r.need = l.need
  BY <1>1, <1>2, <1>5 DEF Locals
<1>8. Local(c, r) /\ UNCHANGED <<blocking, tail, head, overcommit>>
      /\ optimistic' = [optimistic EXCEPT ![p] = optimistic[p] + l.want]
  BY <1>1, <1>2, <1>5 DEF AddOptimistic, producerVars
<1>9. Moves(c, r) /\ con'[c] = r /\ \A d \in Consumers \ {c} : con'[d] = con[d]
  BY <1>6, <1>8, Moved DEF Moves
<1>10. /\ optimistic' \in [Producers -> Nat] /\ optimistic'[p] = optimistic[p] + l.want
       /\ \A q \in Producers \ {p} : optimistic'[q] = optimistic[q]
  BY <1>3, <1>4, <1>8
<1>11. \A d \in Consumers : con[d] \in Locals
  BY DEF QueueTypeOK
<1>12. Knows(r)
  BY <1>3, <1>7 DEF Knows
<1>13. ASSUME NEW d \in Consumers PROVE Knows(con[d])'
  <2>1. PICK m \in Locals : m = con'[d] /\ Knows(m)
    <3>1. CASE d = c
      BY <1>6, <1>9, <1>12, <3>1
    <3>2. CASE d # c
      BY <1>9, <1>11, <3>2 DEF DequeueInv
    <3>3. QED
      BY <3>1, <3>2
  <2>2. Knows(m)'
    BY <1>8, <2>1, KnowsKept
  <2>3. QED
    BY <2>1, <2>2 DEF Knows
<1>14. ASSUME NEW q
       PROVE  /\ Total(Claimed(q)', MaxBulk) = Total(Claimed(q), MaxBulk)
              /\ Total(Reserved(q)', MaxBulk)
                    = Total(Reserved(q), MaxBulk) + (IF q = p THEN l.want ELSE 0)
              /\ Total(Claimed(q), MaxBulk) \in Nat /\ Total(Reserved(q), MaxBulk) \in Nat
  <2>1. /\ ClaimOf(con[c], q) = 0 /\ ClaimOf(r, q) = 0 /\ ReserveOf(con[c], q) = 0
        /\ ReserveOf(r, q) = IF q = p THEN l.want ELSE 0
    BY <1>1, <1>3, <1>7 DEF ClaimOf, ReserveOf
  <2>2. Total(Claimed(q), MaxBulk) \in Nat /\ Total(Reserved(q), MaxBulk) \in Nat
    BY TotalTypes
  <2>3. Total(Claimed(q)', MaxBulk) = Total(Claimed(q), MaxBulk)
    BY <1>6, <1>9, <2>1, <2>2, ClaimedMoves
  <2>4. Total(Reserved(q)', MaxBulk)
           = Total(Reserved(q), MaxBulk) + (IF q = p THEN l.want ELSE 0)
    BY <1>3, <1>6, <1>9, <2>1, <2>2, ReservedMoves
  <2>5. QED
    BY <2>2, <2>3, <2>4
<1>15. ASSUME NEW q \in Producers PROVE CountersInv(q)' /\ Accepted(q)' = Accepted(q)
                                        /\ Accepted(q) \in Nat
  <2>1. CountersInv(q)
    BY DEF DequeueInv
  <2>2. Accepted(q)' = Accepted(q) /\ Accepted(q) \in Nat
    BY <1>4, <1>8, <1>14 DEF Accepted
  <2>3. QED
    BY <1>3, <1>4, <1>8, <1>10, <1>14, <2>1, <2>2 DEF CountersInv
<1>16. ASSUME NEW d \in Consumers \ {c}, con'[d].pc = "check"
       PROVE  /\ con'[d] = con[d] /\ con[d].pc = "check" /\ con[d].from \in Producers
              /\ con[d].mine \in Nat /\ con[d].want \in Nat /\ con[d].over \in Nat
              /\ con[d].mine < optimistic[con[d].from] /\ Fits(d)
  <2>1. con'[d] = con[d] /\ con[d].pc = "check" /\ con[d] \in Locals
    BY <1>9, <1>11, <1>16
  <2>2. con[d].mine \in Nat /\ con[d].want \in Nat /\ con[d].over \in Nat
    <3>1. PICK m \in Locals : m = con[d]
      BY <2>1
    <3>2. m.mine \in Nat /\ m.want \in 0 .. MaxBulk /\ m.over \in Nat
      BY DEF Locals
    <3>3. m.want \in Nat
      BY <3>2, QueueAssumption
    <3>4. QED
      BY <3>1, <3>2, <3>3
  <2>3. con[d].from \in Producers
    BY <2>1 DEF DequeueInv, Knows
  <2>4. con[d].mine < optimistic[con[d].from] /\ Fits(d)
    BY <2>1 DEF DequeueInv, Ordered
  <2>5. QED
    BY <2>1, <2>2, <2>3, <2>4
<1>17. Ordered'
  <2>1. ASSUME NEW d \in Consumers, con'[d].pc = "check"
        PROVE  con'[d].mine < optimistic'[con'[d].from]
    BY <1>3, <1>4, <1>7, <1>9, <1>10, <1>16, <2>1
  <2>2. ASSUME NEW d \in Consumers, NEW e \in Consumers \ {d},
               con'[d].pc = "check", con'[e].pc = "check", con'[e].from = con'[d].from
        PROVE  con'[d].mine # con'[e].mine
    <3>1. CASE d = c
      BY <1>4, <1>7, <1>9, <1>16, <2>2, <3>1
    <3>2. CASE e = c
      BY <1>4, <1>7, <1>9, <1>16, <2>2, <3>2
    <3>3. CASE d # c /\ e # c
      BY <1>16, <2>2, <3>3 DEF DequeueInv, Ordered
    <3>4. QED
      BY <3>1, <3>2, <3>3
  <2>3. QED
    BY <2>1, <2>2 DEF Ordered
<1>18. ASSUME NEW d \in Consumers \ {c}, con'[d].pc = "check" PROVE Fits(d)'
  <2>1. PICK q \in Producers : q = con[d].from
    BY <1>16, <1>18
  <2>2. EarlierOf(con[c], con[d]) = 0
    BY <1>1, <1>3 DEF EarlierOf, ReserveOf
  <2>3. EarlierOf(r, con[d]) = 0
    BY <1>4, <1>7, <1>16, <1>18 DEF EarlierOf, ReserveOf
  <2>4. Total(Before(d)', MaxBulk) = Total(Before(d), MaxBulk)
    BY <1>6, <1>9, <2>2, <2>3, BeforeMoves, TotalTypes
  <2>5. Accepted(q)' = Accepted(q)
    BY <1>15
  <2>6. \/ Accepted(q) + Total(Before(d), MaxBulk) <= tail[q]
        \/ Accepted(q) + Total(Before(d), MaxBulk) <= con[d].mine - con[d].over + con[d].want
    BY <1>16, <1>18, <2>1 DEF Fits
  <2>7. con'[d] = con[d] /\ tail[q]' = tail[q]
    BY <1>8, <1>16, <1>18
  <2>8. QED
    BY <2>1, <2>4, <2>5, <2>6, <2>7, FitsAgain
<1>19. Fits(c)'
  <2>1. Before(c)' = Reserved(p)'
    <3>1. ASSUME NEW d \in Consumers
          PROVE  EarlierOf(con'[d], con'[c]) = ReserveOf(con'[d], p)
      <4>1. con'[c].from = p /\ con'[c].mine = optimistic[p]
        BY <1>7, <1>9
      <4>2. CASE con'[d].pc = "check" /\ con'[d].from = p
        <5>1. con'[d].mine <= con'[c].mine
          BY <1>4, <1>7, <1>9, <1>16, <4>1, <4>2
        <5>2. QED
          BY <4>1, <5>1 DEF EarlierOf
      <4>3. CASE ~(con'[d].pc = "check" /\ con'[d].from = p)
        BY <4>1, <4>3 DEF EarlierOf, ReserveOf
      <4>4. QED
        BY <4>2, <4>3
    <3>2. QED
      BY <3>1 DEF Before, Reserved
  <2>2. Total(Before(c)', MaxBulk) = Total(Reserved(p), MaxBulk) + l.want
    BY <1>14, <2>1
  <2>3. optimistic[p] = Accepted(p) + Total(Reserved(p), MaxBulk) + overcommit[p]
    BY DEF DequeueInv, CountersInv
  <2>4. PICK a, b : a = Accepted(p)' /\ b = Total(Before(c)', MaxBulk)
    OBVIOUS
  <2>5. a + b <= optimistic[p] - l.over + l.want
    BY <1>3, <1>4, <1>14, <1>15, <2>2, <2>3, <2>4
  <2>6. Accepted(con[c].from)' = a
    BY <1>7, <1>9, <2>4 DEF Accepted, Claimed
  <2>7. QED
    BY <1>7, <1>9, <2>4, <2>5, <2>6 DEF Fits
<1>20. DequeueInv'
  BY <1>13, <1>15, <1>17, <1>18, <1>19 DEF DequeueInv
<1>21. QED
  BY <1>1, <1>6, <1>7, <1>9, <1>10, <1>20

-----------------------------------------------------------------------------
(* It compares what it has reserved with tailIndex.                        *)
LEMMA EarlierTotals ==
    ASSUME QueueTypeOK, NEW c \in Consumers, NEW d \in Consumers, d # c,
           con[c].pc = "check", con[d].pc = "check", con[d].from = con[c].from,
           con[d].mine < con[c].mine
    PROVE  Total(Before(d), MaxBulk) + con[c].want <= Total(Before(c), MaxBulk)
<1>1. \A x \in Consumers : con[x] \in Locals
  BY DEF QueueTypeOK
<1>2. /\ con[c].want \in 0 .. MaxBulk /\ con[c].mine \in Nat /\ con[d].mine \in Nat
      /\ \A x \in Consumers : con[x].mine \in Nat /\ con[x].want \in Nat
  <2>1. \A x \in Consumers : con[x].mine \in Nat /\ con[x].want \in 0 .. MaxBulk
    BY <1>1 DEF Locals
  <2>2. QED
    BY <2>1, QueueAssumption
<1>3. PICK f : f = Before(c)
  OBVIOUS
<1>4. PICK z : Sets(f, c, 0, z)
  BY DEF Sets
<1>5. f \in Tallies(Consumers, MaxBulk) /\ IsFiniteSet(Consumers) /\ MaxBulk \in Nat
  BY <1>3, TallyTypes, QueueAssumption
<1>6. f[c] = con[c].want
  BY <1>2, <1>3 DEF Before, EarlierOf, ReserveOf
<1>7. Total(f, MaxBulk) = Total(z, MaxBulk) + f[c] /\ Total(z, MaxBulk) \in Nat
  BY <1>4, <1>5, TotalOther
<1>8. z = [f EXCEPT ![c] = 0] /\ f \in [Consumers -> 0 .. MaxBulk]
  BY <1>4, <1>5 DEF Sets, Tallies
<1>9. z \in [Consumers -> 0 .. MaxBulk] /\ z[c] = 0 /\ \A x \in Consumers \ {c} : z[x] = f[x]
  BY <1>8, <1>5
<1>10. PICK b : b = Before(d)
  OBVIOUS
<1>11. b \in Tallies(Consumers, MaxBulk) /\ z \in Tallies(Consumers, MaxBulk)
  BY <1>9, <1>10, TallyTypes DEF Tallies
<1>12. ASSUME NEW x \in Consumers PROVE b[x] <= z[x]
  <2>1. b[x] = EarlierOf(con[x], con[d]) /\ f[x] = EarlierOf(con[x], con[c])
    BY <1>3, <1>10 DEF Before
  <2>2. CASE x = c
    BY <1>2, <1>9, <2>1, <2>2 DEF EarlierOf
  <2>3. CASE x # c
    BY <1>2, <1>9, <2>1, <2>3 DEF EarlierOf, ReserveOf
  <2>4. QED
    BY <2>2, <2>3
<1>13. Total(b, MaxBulk) <= Total(z, MaxBulk)
  BY <1>5, <1>11, <1>12, TotalMonotonic
<1>14. Total(b, MaxBulk) \in Nat
  BY <1>10, TotalTypes
<1>15. QED
  BY <1>2, <1>3, <1>6, <1>7, <1>10, <1>13, <1>14

LEMMA OwnBefore ==
    ASSUME QueueTypeOK, NEW c \in Consumers, con[c].pc = "check"
    PROVE  con[c].want <= Total(Before(c), MaxBulk)
<1>1. con[c] \in Locals
  BY DEF QueueTypeOK
<1>2. con[c].mine \in Nat
  BY <1>1 DEF Locals
<1>3. PICK f : f = Before(c)
  OBVIOUS
<1>4. f[c] = con[c].want
  BY <1>2, <1>3 DEF Before, EarlierOf, ReserveOf
<1>5. PICK z : Sets(f, c, 0, z)
  BY DEF Sets
<1>6. f \in Tallies(Consumers, MaxBulk) /\ IsFiniteSet(Consumers) /\ MaxBulk \in Nat
  BY <1>3, TallyTypes, QueueAssumption
<1>7. Total(f, MaxBulk) = Total(z, MaxBulk) + f[c] /\ Total(z, MaxBulk) \in Nat
  BY <1>5, <1>6, TotalOther
<1>8. con[c].want \in Nat
  BY <1>1, QueueAssumption DEF Locals
<1>9. QED
  BY <1>3, <1>4, <1>7, <1>8

LEMMA KnowsGrows ==
    ASSUME NEW l \in Locals, Knows(l), UNCHANGED blocking,
           overcommit \in [Producers -> Nat], overcommit' \in [Producers -> Nat],
           \A p \in Producers : overcommit[p] <= overcommit'[p]
    PROVE  Knows(l)'
<1>1. l.over \in Nat
  BY DEF Locals
<1>2. l.pc \in {"add", "check"} => l.over <= overcommit'[l.from]
  <2>1. ASSUME l.pc \in {"add", "check"} PROVE l.over <= overcommit'[l.from]
    <3>1. l.from \in Producers /\ l.over <= overcommit[l.from]
      BY <2>1 DEF Knows
    <3>2. QED
      BY <1>1, <3>1
  <2>2. QED
    BY <2>1
<1>3. QED
  BY <1>2 DEF Knows

LEMMA FailedLocal ==
    ASSUME QueueTypeOK, NEW c \in Consumers, NEW r, r = Failed(c),
           con[c].pc \in {"dequeue", "check"}
    PROVE  /\ r \in Locals /\ Knows(r) /\ r.pc \in {"others", "next"} /\ r.need = con[c].need
           /\ r.want = 0
<1>1. con[c] \in Locals
  BY DEF QueueTypeOK
<1>2. 0 \in 0 .. MaxBulk
  BY QueueAssumption
<1>3. r \in Locals /\ r.pc \in {"others", "next"} /\ r.need = con[c].need /\ r.want = 0
  BY <1>1, <1>2 DEF Failed, Locals
<1>4. QED
  BY <1>3 DEF Knows

LEMMA CheckDequeue ==
    ASSUME QueueTypeOK, DequeueInv, NEW c \in Consumers, AddOvercommit(c)
    PROVE  DequeueInv' /\ (\E r \in Locals : Moves(c, r) /\ r.need = con[c].need)
                       /\ overcommit' \in [Producers -> Nat]
<1>1. PICK l \in Locals : l = con[c]
  BY DEF QueueTypeOK
<1>2. PICK p \in Producers : p = l.from
  BY <1>1 DEF AddOvercommit, DequeueInv, Knows
<1>3. l.pc = "check" /\ l.want \in 1 .. l.need /\ Fits(c)
  BY <1>1 DEF AddOvercommit, DequeueInv, Knows
<1>4. /\ l.want \in Nat /\ l.over \in Nat /\ l.mine \in Nat /\ l.need \in 0 .. MaxBulk
      /\ l.want >= 1 /\ l.need \in Nat
  BY <1>3, QueueAssumption DEF Locals
<1>5. /\ optimistic \in [Producers -> Nat] /\ overcommit \in [Producers -> Nat]
      /\ tail \in [Producers -> Nat] /\ head \in [Producers -> Nat]
  BY QueueAssumption DEF QueueTypeOK
<1>6. PICK n : n = There(p, l.mine - l.over, l.want)
  OBVIOUS
<1>7. PICK a \in Nat, b \in Nat :
         a = Accepted(p) /\ b = Total(Before(c), MaxBulk)
  BY <1>5, TotalTypes DEF Accepted
<1>8. l.want <= b
  BY <1>1, <1>3, <1>7, OwnBefore
<1>9. a <= tail[p] /\ (a + b <= tail[p] \/ a + b <= (l.mine - l.over) + l.want)
  BY <1>1, <1>2, <1>3, <1>7 DEF DequeueInv, CountersInv, Fits
<1>10. /\ n \in 0 .. l.want /\ a + n <= tail[p]
       /\ \A e \in Nat : n > 0 /\ e + l.want <= b => a + n + e <= tail[p]
  <2>1. PICK t \in Nat, m \in Int, w \in Nat :
           t = tail[p] /\ m = l.mine - l.over /\ w = l.want
    BY <1>4, <1>5
  <2>2. n = (IF m < t THEN SmallerOf(w, t - m) ELSE 0)
    BY <1>6, <2>1 DEF There
  <2>3. w <= b /\ a <= t /\ (a + b <= t \/ a + b <= m + w)
    BY <1>8, <1>9, <2>1
  <2>4. /\ n \in 0 .. w /\ a + n <= t
        /\ \A e \in Nat : n > 0 /\ e + w <= b => a + n + e <= t
    <3>1. CASE a + b <= t
      BY <2>2, <2>3, <3>1 DEF SmallerOf
    <3>2. CASE a + b <= m + w
      BY <2>2, <2>3, <3>2 DEF SmallerOf
    <3>3. QED
      BY <2>3, <3>1, <3>2
  <2>5. QED
    BY <2>1, <2>4
<1>11. PICK r : r = IF n = 0 THEN Failed(c) ELSE [l EXCEPT !.pc = "claim", !.want = n]
  OBVIOUS
<1>12. /\ r \in Locals /\ Knows(r) /\ r.need = l.need /\ r.pc # "check"
       /\ \A q : ClaimOf(r, q) = IF q = p THEN n ELSE 0
  <2>1. CASE n = 0
    <3>1. r \in Locals /\ Knows(r) /\ r.pc \in {"others", "next"} /\ r.need = l.need
      BY <1>1, <1>3, <1>11, <2>1, FailedLocal
    <3>2. QED
      BY <2>1, <3>1 DEF ClaimOf
  <2>2. CASE n # 0
    <3>1. n \in 0 .. MaxBulk /\ n \in 1 .. l.need
      BY <1>3, <1>4, <1>10, <2>2, QueueAssumption
    <3>2. r \in Locals /\ r.need = l.need /\ r.pc = "claim" /\ r.want = n /\ r.from = p
      BY <1>2, <1>11, <2>2, <3>1 DEF Locals
    <3>3. QED
      BY <3>1, <3>2 DEF ClaimOf, Knows
  <2>3. QED
    BY <2>1, <2>2
<1>13. /\ Local(c, r) /\ UNCHANGED <<blocking, tail, head, optimistic>>
       /\ overcommit' = [overcommit EXCEPT ![p] = overcommit[p] + l.want - n]
  BY <1>1, <1>2, <1>6, <1>11 DEF AddOvercommit, producerVars
<1>14. Moves(c, r) /\ con'[c] = r /\ \A d \in Consumers \ {c} : con'[d] = con[d]
  BY <1>12, <1>13, Moved DEF Moves
<1>15. /\ overcommit' \in [Producers -> Nat]
       /\ overcommit'[p] = overcommit[p] + l.want - n
       /\ \A q \in Producers \ {p} : overcommit'[q] = overcommit[q]
       /\ \A q \in Producers : overcommit[q] <= overcommit'[q]
  <2>1. overcommit[p] + l.want - n \in Nat /\ overcommit[p] <= overcommit[p] + l.want - n
    BY <1>4, <1>5, <1>10
  <2>2. QED
    BY <1>5, <1>13, <2>1
<1>16. \A d \in Consumers : con[d] \in Locals
  BY DEF QueueTypeOK
<1>17. ASSUME NEW d \in Consumers PROVE Knows(con[d])'
  <2>1. PICK m \in Locals : m = con'[d] /\ Knows(m)
    <3>1. CASE d = c
      BY <1>12, <1>14, <3>1
    <3>2. CASE d # c
      BY <1>14, <1>16, <3>2 DEF DequeueInv
    <3>3. QED
      BY <3>1, <3>2
  <2>2. Knows(m)'
    BY <1>5, <1>13, <1>15, <2>1, KnowsGrows
  <2>3. QED
    BY <2>1, <2>2 DEF Knows
<1>18. ASSUME NEW q
       PROVE  /\ Total(Claimed(q)', MaxBulk)
                    = Total(Claimed(q), MaxBulk) + (IF q = p THEN n ELSE 0)
              /\ Total(Reserved(q)', MaxBulk)
                    = Total(Reserved(q), MaxBulk) - (IF q = p THEN l.want ELSE 0)
              /\ Total(Claimed(q), MaxBulk) \in Nat /\ Total(Reserved(q), MaxBulk) \in Nat
  <2>1. /\ ClaimOf(con[c], q) = 0 /\ ClaimOf(r, q) = (IF q = p THEN n ELSE 0)
        /\ ReserveOf(con[c], q) = (IF q = p THEN l.want ELSE 0) /\ ReserveOf(r, q) = 0
    BY <1>1, <1>2, <1>3, <1>12 DEF ClaimOf, ReserveOf
  <2>2. Total(Claimed(q), MaxBulk) \in Nat /\ Total(Reserved(q), MaxBulk) \in Nat
    BY TotalTypes
  <2>3. Total(Claimed(q)', MaxBulk) = Total(Claimed(q), MaxBulk) + (IF q = p THEN n ELSE 0)
    BY <1>10, <1>12, <1>14, <2>1, <2>2, ClaimedMoves
  <2>4. Total(Reserved(q)', MaxBulk)
           = Total(Reserved(q), MaxBulk) - (IF q = p THEN l.want ELSE 0)
    BY <1>4, <1>12, <1>14, <2>1, <2>2, ReservedMoves
  <2>5. QED
    BY <2>2, <2>3, <2>4
<1>19. ASSUME NEW q \in Producers
       PROVE  CountersInv(q)' /\ Accepted(q)' = Accepted(q) + (IF q = p THEN n ELSE 0)
  <2>1. CountersInv(q)
    BY DEF DequeueInv
  <2>2. /\ Accepted(q)' = Accepted(q) + (IF q = p THEN n ELSE 0) /\ Accepted(q) \in Nat
        /\ n \in Nat
    BY <1>5, <1>10, <1>13, <1>18 DEF Accepted
  <2>3. CASE q = p
    BY <1>4, <1>5, <1>7, <1>10, <1>13, <1>15, <1>18, <2>1, <2>2, <2>3 DEF CountersInv
  <2>4. CASE q # p
    BY <1>5, <1>13, <1>15, <1>18, <2>1, <2>2, <2>4 DEF CountersInv
  <2>5. QED
    BY <2>2, <2>3, <2>4
<1>20. ASSUME NEW d \in Consumers, con'[d].pc = "check"
       PROVE  /\ d # c /\ con'[d] = con[d] /\ con[d].pc = "check" /\ con[d].from \in Producers
              /\ con[d].mine \in Nat /\ con[d].want \in Nat /\ con[d].over \in Nat
              /\ con[d].mine < optimistic[con[d].from] /\ Fits(d)
  <2>1. d # c /\ con'[d] = con[d] /\ con[d].pc = "check" /\ con[d] \in Locals
    BY <1>12, <1>14, <1>16, <1>20
  <2>2. con[d].mine \in Nat /\ con[d].want \in Nat /\ con[d].over \in Nat
    <3>1. PICK m \in Locals : m = con[d]
      BY <2>1
    <3>2. m.mine \in Nat /\ m.want \in 0 .. MaxBulk /\ m.over \in Nat
      BY DEF Locals
    <3>3. m.want \in Nat
      BY <3>2, QueueAssumption
    <3>4. QED
      BY <3>1, <3>2, <3>3
  <2>3. con[d].from \in Producers
    BY <2>1 DEF DequeueInv, Knows
  <2>4. con[d].mine < optimistic[con[d].from] /\ Fits(d)
    BY <2>1 DEF DequeueInv, Ordered
  <2>5. QED
    BY <2>1, <2>2, <2>3, <2>4
<1>21. Ordered'
  BY <1>13, <1>20 DEF DequeueInv, Ordered
<1>22. ASSUME NEW d \in Consumers, con'[d].pc = "check" PROVE Fits(d)'
  <2>1. PICK q \in Producers : q = con[d].from
    BY <1>20, <1>22
  <2>2. /\ d # c /\ con'[d] = con[d] /\ con[d].pc = "check" /\ tail[q]' = tail[q]
        /\ con[d].mine \in Nat /\ con[d].want \in Nat /\ con[d].over \in Nat
    BY <1>13, <1>20, <1>22
  <2>3. PICK x, y \in Nat : x = Accepted(q) /\ y = Total(Before(d), MaxBulk)
    BY <1>5, TotalTypes DEF Accepted
  <2>4. x \in Nat
    BY <1>5, <2>3, TotalTypes DEF Accepted
  <2>5. x + y <= tail[q] \/ x + y <= con[d].mine - con[d].over + con[d].want
    BY <1>20, <1>22, <2>1, <2>3 DEF Fits
  <2>6. EarlierOf(r, con[d]) = 0
    BY <1>12 DEF EarlierOf, ReserveOf
  <2>7. Accepted(q)' = x + (IF q = p THEN n ELSE 0)
    BY <1>19, <2>3
  <2>8. Total(Before(d)', MaxBulk) = y - EarlierOf(con[c], con[d])
    <3>1. EarlierOf(con[c], con[d]) \in Nat
      BY <1>1, <1>4 DEF EarlierOf, ReserveOf
    <3>2. QED
      BY <1>12, <1>14, <2>2, <2>3, <2>6, <3>1, BeforeMoves
  <2>9. CASE q # p
    <3>1. EarlierOf(con[c], con[d]) = 0
      BY <1>1, <1>2, <2>1, <2>9 DEF EarlierOf, ReserveOf
    <3>2. Accepted(q)' = x /\ Total(Before(d)', MaxBulk) = y
      BY <2>4, <2>7, <2>8, <2>9, <3>1
    <3>3. QED
      BY <2>1, <2>2, <2>5, <3>2, FitsAgain
  <2>10. CASE q = p /\ l.mine <= con[d].mine
    <3>1. EarlierOf(con[c], con[d]) = l.want
      BY <1>1, <1>2, <1>3, <2>1, <2>10 DEF EarlierOf, ReserveOf
    <3>2. PICK u, v : u = Accepted(q)' /\ v = Total(Before(d)', MaxBulk)
      OBVIOUS
    <3>3. u = x + n /\ v = y - l.want
      BY <2>7, <2>8, <2>10, <3>1, <3>2
    <3>4. u + v <= tail[q]' \/ u + v <= con[d].mine - con[d].over + con[d].want
      BY <1>4, <1>5, <1>10, <2>2, <2>3, <2>4, <2>5, <3>3
    <3>5. QED
      BY <2>1, <2>2, <3>2, <3>4, FitsAgain
  <2>11. CASE q = p /\ ~(l.mine <= con[d].mine)
    <3>1. EarlierOf(con[c], con[d]) = 0
      BY <1>1, <2>11 DEF EarlierOf
    <3>2. con[d].mine < con[c].mine
      BY <1>1, <1>4, <2>2, <2>11
    <3>3. y + l.want <= b
      BY <1>1, <1>2, <1>3, <1>7, <2>1, <2>2, <2>3, <2>11, <3>2, EarlierTotals
    <3>4. PICK u, v : u = Accepted(q)' /\ v = Total(Before(d)', MaxBulk)
      OBVIOUS
    <3>5. u = x + n /\ v = y /\ x = a
      BY <1>7, <2>3, <2>7, <2>8, <2>11, <3>1, <3>4
    <3>6. n > 0 => u + v <= tail[q]'
      BY <1>4, <1>5, <1>7, <1>10, <2>2, <2>3, <2>11, <3>3, <3>5
    <3>7. n = 0 => u + v <= tail[q]' \/ u + v <= con[d].mine - con[d].over + con[d].want
      BY <2>2, <2>4, <2>5, <3>5
    <3>8. u + v <= tail[q]' \/ u + v <= con[d].mine - con[d].over + con[d].want
      BY <1>10, <3>6, <3>7, <1>4
    <3>9. QED
      BY <2>1, <2>2, <3>4, <3>8, FitsAgain
  <2>12. QED
    BY <2>9, <2>10, <2>11
<1>23. DequeueInv'
  BY <1>17, <1>19, <1>21, <1>22 DEF DequeueInv
<1>24. QED
  BY <1>1, <1>12, <1>14, <1>15, <1>23

-----------------------------------------------------------------------------
(* It takes what it has claimed.                                           *)
LEMMA IdleLocal ==
    Idle \in Locals /\ Knows(Idle) /\ Idle.pc = "idle" /\ Idle.need = 0
<1>1. 0 \in 0 .. MaxBulk /\ <<>> \in Seq(Producers)
  BY QueueAssumption
<1>2. Idle \in Locals /\ Idle.pc = "idle" /\ Idle.need = 0
  BY <1>1 DEF Idle, Locals
<1>3. QED
  BY <1>2 DEF Knows

LEMMA ClaimDequeue ==
    ASSUME QueueTypeOK, DequeueInv, NEW c \in Consumers, Claim(c)
    PROVE  /\ DequeueInv'
           /\ \E r \in Locals : Moves(c, r) /\ r.need = con[c].need - con[c].want
           /\ con[c].from \in Producers /\ con[c].want \in 1 .. con[c].need
           /\ con[c].want \in Nat
           /\ head[con[c].from] + con[c].want <= tail[con[c].from]
<1>1. PICK l \in Locals : l = con[c]
  BY DEF QueueTypeOK
<1>2. PICK p \in Producers : p = l.from
  BY <1>1 DEF Claim, DequeueInv, Knows
<1>3. l.pc = "claim" /\ l.want \in 1 .. l.need
  BY <1>1 DEF Claim, DequeueInv, Knows
<1>4. l.want \in Nat /\ l.need \in 0 .. MaxBulk /\ l.need \in Nat /\ l.want >= 1
  BY <1>3, QueueAssumption DEF Locals
<1>5. tail \in [Producers -> Nat] /\ head \in [Producers -> Nat]
  BY QueueAssumption DEF QueueTypeOK
<1>6. PICK r : r = IF l.need - l.want = 0 THEN Idle
                   ELSE [l EXCEPT !.pc = "next", !.need = l.need - l.want,
                                  !.from = Null, !.want = 0, !.over = 0, !.mine = 0]
  OBVIOUS
<1>7. r \in Locals /\ Knows(r) /\ r.need = l.need - l.want /\ r.pc \notin Busy
  <2>1. CASE l.need - l.want = 0
    BY <1>6, <2>1, IdleLocal DEF Busy
  <2>2. CASE l.need - l.want # 0
    <3>1. l.need - l.want \in 0 .. MaxBulk /\ 0 \in 0 .. MaxBulk
      BY <1>3, <1>4, <2>2, QueueAssumption
    <3>2. r \in Locals /\ r.need = l.need - l.want /\ r.pc = "next"
      BY <1>6, <2>2, <3>1 DEF Locals
    <3>3. QED
      BY <3>2 DEF Knows, Busy
  <2>3. QED
    BY <2>1, <2>2
<1>8. /\ Local(c, r) /\ UNCHANGED <<blocking, tail, optimistic, overcommit>>
      /\ head' = [head EXCEPT ![p] = head[p] + l.want]
  BY <1>1, <1>2, <1>6 DEF Claim, producerVars
<1>9. Moves(c, r) /\ con'[c] = r /\ \A d \in Consumers \ {c} : con'[d] = con[d]
  BY <1>7, <1>8, Moved DEF Moves
<1>10. /\ head'[p] = head[p] + l.want
       /\ \A q \in Producers \ {p} : head'[q] = head[q]
  BY <1>5, <1>8
<1>11. \A d \in Consumers : con[d] \in Locals
  BY DEF QueueTypeOK
<1>12. ASSUME NEW d \in Consumers PROVE Knows(con[d])'
  <2>1. PICK m \in Locals : m = con'[d] /\ Knows(m)
    <3>1. CASE d = c
      BY <1>7, <1>9, <3>1
    <3>2. CASE d # c
      BY <1>9, <1>11, <3>2 DEF DequeueInv
    <3>3. QED
      BY <3>1, <3>2
  <2>2. Knows(m)'
    BY <1>8, <2>1, KnowsKept
  <2>3. QED
    BY <2>1, <2>2 DEF Knows
<1>13. ASSUME NEW q
       PROVE  /\ Total(Claimed(q)', MaxBulk)
                    = Total(Claimed(q), MaxBulk) - (IF q = p THEN l.want ELSE 0)
              /\ Total(Reserved(q)', MaxBulk) = Total(Reserved(q), MaxBulk)
              /\ Total(Claimed(q), MaxBulk) \in Nat /\ Total(Reserved(q), MaxBulk) \in Nat
  <2>1. /\ ClaimOf(con[c], q) = (IF q = p THEN l.want ELSE 0) /\ ClaimOf(r, q) = 0
        /\ ReserveOf(con[c], q) = 0 /\ ReserveOf(r, q) = 0
    BY <1>1, <1>2, <1>3, <1>7 DEF ClaimOf, ReserveOf, Busy
  <2>2. Total(Claimed(q), MaxBulk) \in Nat /\ Total(Reserved(q), MaxBulk) \in Nat
    BY TotalTypes
  <2>3. Total(Claimed(q)', MaxBulk)
           = Total(Claimed(q), MaxBulk) - (IF q = p THEN l.want ELSE 0)
    BY <1>4, <1>7, <1>9, <2>1, <2>2, ClaimedMoves
  <2>4. Total(Reserved(q)', MaxBulk) = Total(Reserved(q), MaxBulk)
    BY <1>7, <1>9, <2>1, <2>2, ReservedMoves
  <2>5. QED
    BY <2>2, <2>3, <2>4
<1>14. ASSUME NEW q \in Producers
       PROVE  Accepted(q)' = Accepted(q) /\ CountersInv(q)'
  <2>1. CountersInv(q)
    BY DEF DequeueInv
  <2>2. Accepted(q)' = Accepted(q)
    BY <1>4, <1>5, <1>10, <1>13 DEF Accepted
  <2>3. QED
    BY <1>8, <1>13, <2>1, <2>2 DEF CountersInv
<1>15. ASSUME NEW d \in Consumers, con'[d].pc = "check"
       PROVE  /\ d # c /\ con'[d] = con[d] /\ con[d].pc = "check" /\ con[d].from \in Producers
              /\ Fits(d)
  <2>1. d # c /\ con'[d] = con[d] /\ con[d].pc = "check"
    BY <1>7, <1>9, <1>15 DEF Busy
  <2>2. QED
    BY <2>1 DEF DequeueInv, Knows
<1>16. Ordered'
  BY <1>8, <1>15 DEF DequeueInv, Ordered
<1>17. ASSUME NEW d \in Consumers, con'[d].pc = "check" PROVE Fits(d)'
  <2>1. PICK q \in Producers : q = con[d].from
    BY <1>15, <1>17
  <2>2. /\ d # c /\ con'[d] = con[d] /\ tail[q]' = tail[q] /\ Fits(d)
    BY <1>8, <1>15, <1>17
  <2>3. EarlierOf(con[c], con[d]) = 0 /\ EarlierOf(r, con[d]) = 0
    BY <1>1, <1>3, <1>7 DEF EarlierOf, ReserveOf, Busy
  <2>4. Total(Before(d)', MaxBulk) = Total(Before(d), MaxBulk)
    BY <1>7, <1>9, <2>2, <2>3, BeforeMoves, TotalTypes
  <2>5. PICK x, y : x = Accepted(q)' /\ y = Total(Before(d)', MaxBulk)
    OBVIOUS
  <2>6. x + y <= tail[q]' \/ x + y <= con[d].mine - con[d].over + con[d].want
    BY <1>14, <2>1, <2>2, <2>4, <2>5 DEF Fits
  <2>7. QED
    BY <2>1, <2>2, <2>5, <2>6, FitsAgain
<1>18. DequeueInv'
  BY <1>12, <1>14, <1>16, <1>17 DEF DequeueInv
<1>19. head[p] + l.want <= tail[p]
  <2>1. Accepted(p) <= tail[p]
    BY DEF DequeueInv, CountersInv
  <2>2. l.want <= Total(Claimed(p), MaxBulk)
    <3>1. PICK f : f = Claimed(p)
      OBVIOUS
    <3>2. f[c] = l.want
      BY <1>1, <1>2, <1>3, <3>1 DEF Claimed, ClaimOf
    <3>3. f \in Tallies(Consumers, MaxBulk) /\ IsFiniteSet(Consumers) /\ MaxBulk \in Nat
      BY <3>1, TallyTypes, QueueAssumption
    <3>4. PICK z : Sets(f, c, 0, z)
      BY DEF Sets
    <3>5. Total(f, MaxBulk) = Total(z, MaxBulk) + f[c] /\ Total(z, MaxBulk) \in Nat
      BY <3>3, <3>4, TotalOther
    <3>6. QED
      BY <1>4, <3>1, <3>2, <3>5
  <2>3. QED
    BY <1>4, <1>5, <1>13, <2>1, <2>2 DEF Accepted
<1>20. QED
  BY <1>1, <1>2, <1>3, <1>4, <1>7, <1>9, <1>18, <1>19

-----------------------------------------------------------------------------
(* Producers                                                               *)
LEMMA EnqueueDequeue ==
    ASSUME QueueTypeOK, DequeueInv, NEW p \in Producers, Enqueue(p)
    PROVE  DequeueInv'
<1>1. /\ UNCHANGED <<blocking, con, head, optimistic, overcommit>>
      /\ tail' = [tail EXCEPT ![p] = tail[p] + 1]
  BY DEF Enqueue, dequeueVars
<1>2. tail \in [Producers -> Nat] /\ head \in [Producers -> Nat]
  BY QueueAssumption DEF QueueTypeOK
<1>3. \A q \in Producers : tail[q] <= tail'[q] /\ tail'[q] \in Nat /\ tail[q] \in Nat
  BY <1>1, <1>2
<1>4. ASSUME NEW c \in Consumers PROVE Knows(con[c])'
  <2>1. PICK l \in Locals : l = con[c] /\ Knows(l)
    BY DEF QueueTypeOK, DequeueInv
  <2>2. Knows(l)'
    BY <1>1, <2>1, KnowsKept
  <2>3. QED
    BY <1>1, <2>1, <2>2 DEF Knows
<1>5. ASSUME NEW q
      PROVE  Claimed(q)' = Claimed(q) /\ Reserved(q)' = Reserved(q)
  BY <1>1 DEF Claimed, Reserved
<1>6. ASSUME NEW q \in Producers
      PROVE  Accepted(q)' = Accepted(q) /\ CountersInv(q)' /\ Accepted(q) \in Nat
  <2>1. CountersInv(q)
    BY DEF DequeueInv
  <2>2. Accepted(q)' = Accepted(q) /\ Accepted(q) \in Nat
    BY <1>1, <1>2, <1>5, TotalTypes DEF Accepted
  <2>3. QED
    BY <1>1, <1>3, <1>5, <2>1, <2>2 DEF CountersInv
<1>7. Ordered'
  BY <1>1 DEF DequeueInv, Ordered
<1>8. ASSUME NEW d \in Consumers, con'[d].pc = "check" PROVE Fits(d)'
  <2>1. con'[d] = con[d] /\ con[d].pc = "check" /\ Fits(d)
    BY <1>1, <1>8 DEF DequeueInv
  <2>2. PICK q \in Producers : q = con[d].from
    BY <2>1 DEF DequeueInv, Knows
  <2>3. Before(d)' = Before(d)
    BY <1>1 DEF Before
  <2>4. PICK x, y \in Nat : x = Accepted(q)' /\ y = Total(Before(d)', MaxBulk)
    BY <1>6, <2>3, TotalTypes
  <2>5. x = Accepted(q) /\ y = Total(Before(d), MaxBulk)
    BY <1>6, <2>3, <2>4
  <2>6. x + y <= tail[q] \/ x + y <= con[d].mine - con[d].over + con[d].want
    BY <2>1, <2>2, <2>5 DEF Fits
  <2>7. x + y <= tail[q]' \/ x + y <= con[d].mine - con[d].over + con[d].want
    BY <1>3, <2>6
  <2>8. QED
    BY <2>1, <2>2, <2>4, <2>7, FitsAgain
<1>9. QED
  BY <1>4, <1>6, <1>7, <1>8 DEF DequeueInv

LEMMA ListDequeue ==
    ASSUME QueueTypeOK, DequeueInv,
           UNCHANGED <<blocking, tail, head, optimistic, overcommit, con>>
    PROVE  DequeueInv'
BY DEF DequeueInv, Knows, CountersInv, Accepted, Claimed, Reserved, Ordered, Fits, Before

-----------------------------------------------------------------------------
(* The other steps of a call                                               *)
Goes(c, need) ==
    /\ con[c].pc \notin Busy
    /\ \E r \in Locals : /\ Local(c, r) /\ Knows(r) /\ r.pc \notin Busy
                         /\ blocking => r.need = need

LEMMA GetResultGoes ==
    ASSUME QueueTypeOK, DequeueInv, NEW c \in Consumers, GetResult(c)
    PROVE  Goes(c, con[c].need)
<1>1. PICK r : r = [Idle EXCEPT !.pc = "sum", !.todo = list,
                                !.sure = \E p \in Producers : head[p] < tail[p]]
  OBVIOUS
<1>2. Local(c, r) /\ ~blocking /\ con[c].pc = "idle"
  BY <1>1 DEF GetResult
<1>3. Idle \in Locals /\ list \in Seq(Producers)
  BY IdleLocal DEF QueueTypeOK
<1>4. r \in Locals /\ r.pc = "sum" /\ r.found = 0 /\ r.best = Null
  <2>1. (\E p \in Producers : head[p] < tail[p]) \in BOOLEAN
    OBVIOUS
  <2>2. r \in Locals /\ r.pc = "sum"
    BY <1>1, <1>3, <2>1 DEF Locals
  <2>3. r.found = 0 /\ r.best = Null
    BY <1>1 DEF Idle
  <2>4. QED
    BY <2>2, <2>3
<1>5. QED
  BY <1>2, <1>4 DEF Goes, Knows, Busy

LEMMA LoadTailGoes ==
    ASSUME QueueTypeOK, DequeueInv, NEW c \in Consumers, LoadTail(c)
    PROVE  Goes(c, con[c].need)
<1>1. PICK l \in Locals : l = con[c] /\ Knows(l)
  BY DEF QueueTypeOK, DequeueInv
<1>2. PICK r : r = [l EXCEPT !.seen = tail[Head(l.todo)],
                             !.pc = IF @ = "sum" THEN "sumHead" ELSE "scoreHead"]
  OBVIOUS
<1>3. Local(c, r) /\ l.pc \in {"sum", "score"} /\ l.todo # <<>>
  BY <1>1, <1>2 DEF LoadTail
<1>4. tail[Head(l.todo)] \in Nat
  <2>1. Head(l.todo) \in Producers
    BY <1>3 DEF Locals
  <2>2. QED
    BY <2>1, QueueAssumption DEF QueueTypeOK
<1>5. /\ r \in Locals /\ r.pc = IF l.pc = "sum" THEN "sumHead" ELSE "scoreHead"
      /\ r.todo = l.todo /\ r.found = l.found /\ r.size = l.size /\ r.best = l.best
      /\ r.need = l.need
  BY <1>2, <1>4 DEF Locals
<1>6. Knows(r)
  BY <1>1, <1>3, <1>5 DEF Knows
<1>7. QED
  BY <1>1, <1>3, <1>5, <1>6 DEF Goes, Busy

LEMMA SizeType ==
    ASSUME QueueTypeOK, DequeueInv, NEW c \in Consumers,
           con[c].pc \in {"sumHead", "scoreHead"}
    PROVE  /\ Size(c) \in Nat /\ Head(con[c].todo) \in Producers
           /\ Tail(con[c].todo) \in Seq(Producers)
<1>1. PICK l \in Locals : l = con[c] /\ Knows(l)
  BY DEF QueueTypeOK, DequeueInv
<1>2. l.todo \in Seq(Producers) /\ l.todo # <<>> /\ l.seen \in Nat
  BY <1>1 DEF Locals, Knows
<1>3. Head(l.todo) \in Producers /\ Tail(l.todo) \in Seq(Producers)
  BY <1>2
<1>4. head[Head(l.todo)] \in Nat
  BY <1>3, QueueAssumption DEF QueueTypeOK
<1>5. QED
  BY <1>1, <1>2, <1>3, <1>4 DEF Size

LEMMA AddSizeGoes ==
    ASSUME QueueTypeOK, DequeueInv, NEW c \in Consumers, AddSize(c)
    PROVE  Goes(c, con[c].need)
<1>1. PICK l \in Locals : l = con[c] /\ Knows(l)
  BY DEF QueueTypeOK, DequeueInv
<1>2. PICK n : n = l.size + Size(c)
  OBVIOUS
<1>3. PICK r : r = [l EXCEPT !.pc = "sum", !.todo = Tail(l.todo), !.seen = 0, !.size = n]
  OBVIOUS
<1>4. Local(c, r) /\ l.pc = "sumHead"
  BY <1>1, <1>2, <1>3 DEF AddSize
<1>5. n \in Nat /\ Tail(l.todo) \in Seq(Producers)
  <2>1. l.size \in Nat
    BY DEF Locals
  <2>2. QED
    BY <1>1, <1>2, <1>4, <2>1, SizeType
<1>6. /\ r \in Locals /\ r.pc = "sum" /\ r.found = l.found /\ r.best = l.best
      /\ r.need = l.need
  BY <1>3, <1>5 DEF Locals
<1>7. Knows(r)
  BY <1>1, <1>4, <1>6 DEF Knows
<1>8. QED
  BY <1>1, <1>4, <1>6, <1>7 DEF Goes, Busy

LEMMA SummedGoes ==
    ASSUME QueueTypeOK, DequeueInv, NEW c \in Consumers, Summed(c)
    PROVE  Goes(c, con[c].need)
<1>1. PICK l \in Locals : l = con[c] /\ Knows(l)
  BY DEF QueueTypeOK, DequeueInv
<1>2. PICK r : r = IF l.size = 0 THEN Idle ELSE [l EXCEPT !.pc = "list", !.size = 0, !.need = 1]
  OBVIOUS
<1>3. Local(c, r) /\ l.pc = "sum"
  BY <1>1, <1>2 DEF Summed
<1>4. ~blocking /\ l.found = 0 /\ l.best = Null
  BY <1>1, <1>3 DEF Knows
<1>5. CASE l.size = 0
  <2>1. r = Idle
    BY <1>2, <1>5
  <2>2. QED
    BY <1>1, <1>3, <1>4, <2>1, IdleLocal DEF Goes, Busy
<1>6. CASE l.size # 0
  <2>1. 1 \in 0 .. MaxBulk
    BY QueueAssumption
  <2>2. r \in Locals /\ r.pc = "list" /\ r.size = 0 /\ r.found = 0 /\ r.best = Null
    BY <1>2, <1>4, <1>6, <2>1 DEF Locals
  <2>3. QED
    BY <1>1, <1>3, <1>4, <2>2 DEF Goes, Knows, Busy
<1>7. QED
  BY <1>5, <1>6

LEMMA LoadListGoes ==
    ASSUME QueueTypeOK, DequeueInv, NEW c \in Consumers, LoadList(c)
    PROVE  Goes(c, con[c].need)
<1>1. PICK l \in Locals : l = con[c] /\ Knows(l)
  BY DEF QueueTypeOK, DequeueInv
<1>2. PICK to : to = IF l.bulk \/ l.pc = "others" THEN "next" ELSE "score"
  OBVIOUS
<1>3. to \in {"next", "score"} /\ (l.pc = "others" => to = "next")
  BY <1>2
<1>4. PICK r : r = [l EXCEPT !.todo = list, !.pc = to]
  OBVIOUS
<1>5. Local(c, r) /\ l.pc \in {"list", "others"} /\ list \in Seq(Producers)
  BY <1>1, <1>2, <1>4 DEF LoadList, QueueTypeOK
<1>6. /\ r \in Locals /\ r.pc = to
      /\ r.found = l.found /\ r.size = l.size /\ r.need = l.need
  BY <1>3, <1>4, <1>5 DEF Locals
<1>7. l.pc = "list" => l.found = 0 /\ l.size = 0
  BY <1>1 DEF Knows
<1>8. Knows(r)
  BY <1>3, <1>5, <1>6, <1>7 DEF Knows
<1>9. QED
  BY <1>1, <1>3, <1>5, <1>6, <1>8 DEF Goes, Busy

LEMMA ScoreGoes ==
    ASSUME QueueTypeOK, DequeueInv, NEW c \in Consumers, Score(c)
    PROVE  Goes(c, con[c].need)
<1>1. PICK l \in Locals : l = con[c] /\ Knows(l)
  BY DEF QueueTypeOK, DequeueInv
<1>2. PICK n : n = Size(c)
  OBVIOUS
<1>3. PICK found, best, size : /\ found = IF n > 0 THEN l.found + 1 ELSE l.found
                               /\ best = IF n > l.size THEN Head(l.todo) ELSE l.best
                               /\ size = IF n > l.size THEN n ELSE l.size
  OBVIOUS
<1>4. PICK r : r = [l EXCEPT !.pc = "score", !.todo = Tail(l.todo), !.seen = 0,
                             !.found = found, !.best = best, !.size = size]
  OBVIOUS
<1>5. Local(c, r) /\ l.pc = "scoreHead"
  BY <1>1, <1>2, <1>3, <1>4 DEF Score
<1>6. n \in Nat /\ Head(l.todo) \in Producers /\ Tail(l.todo) \in Seq(Producers)
  BY <1>1, <1>2, <1>5, SizeType
<1>7. l.size \in Nat /\ l.found \in Nat /\ l.best \in Producers \cup {Null}
  BY DEF Locals
<1>8. found \in Nat /\ best \in Producers \cup {Null} /\ size \in Nat
  BY <1>3, <1>6, <1>7
<1>9. /\ r \in Locals /\ r.pc = "score" /\ r.need = l.need
      /\ r.found = found /\ r.best = best /\ r.size = size
  BY <1>4, <1>6, <1>8 DEF Locals
<1>10. (l.found > 0 => l.size > 0) /\ (l.size > 0 => l.best \in Producers)
  BY <1>1, <1>5 DEF Knows
<1>11. (found > 0 => size > 0) /\ (size > 0 => best \in Producers)
  BY <1>3, <1>6, <1>7, <1>10
<1>12. Knows(r)
  BY <1>9, <1>11 DEF Knows
<1>13. QED
  BY <1>1, <1>5, <1>9, <1>12 DEF Goes, Busy

LEMMA RetryLocal ==
    ASSUME QueueTypeOK, NEW c \in Consumers, NEW r, r = Retry(c)
    PROVE  /\ r \in Locals /\ Knows(r) /\ r.pc \notin Busy
           /\ blocking => r.need = con[c].need
<1>1. PICK l \in Locals : l = con[c]
  BY DEF QueueTypeOK
<1>2. CASE ~blocking
  BY <1>2, IdleLocal DEF Retry, Busy
<1>3. CASE blocking
  <2>1. r = [Idle EXCEPT !.pc = "list", !.bulk = l.bulk, !.need = l.need]
    BY <1>1, <1>3 DEF Retry
  <2>2. Idle \in Locals /\ l.bulk \in BOOLEAN /\ l.need \in 0 .. MaxBulk
    BY IdleLocal DEF Locals
  <2>3. r \in Locals /\ r.pc = "list" /\ r.need = l.need
    BY <2>1, <2>2 DEF Locals
  <2>4. r.found = 0 /\ r.size = 0 /\ r.best = Null
    BY <2>1 DEF Idle
  <2>5. QED
    BY <1>1, <2>3, <2>4 DEF Knows, Busy
<1>4. QED
  BY <1>2, <1>3

LEMMA ScoredGoes ==
    ASSUME QueueTypeOK, DequeueInv, NEW c \in Consumers, Scored(c)
    PROVE  Goes(c, con[c].need)
<1>1. PICK l \in Locals : l = con[c] /\ Knows(l)
  BY DEF QueueTypeOK, DequeueInv
<1>2. PICK r : r = IF l.found = 0 THEN Retry(c)
                   ELSE [l EXCEPT !.pc = "dequeue", !.todo = <<>>, !.size = 0,
                                  !.found = 0, !.from = l.best]
  OBVIOUS
<1>3. Local(c, r) /\ l.pc = "score"
  BY <1>1, <1>2 DEF Scored
<1>4. CASE l.found = 0
  <2>1. r \in Locals /\ Knows(r) /\ r.pc \notin Busy /\ (blocking => r.need = con[c].need)
    BY <1>2, <1>4, RetryLocal
  <2>2. QED
    BY <1>1, <1>3, <2>1 DEF Goes, Busy
<1>5. CASE l.found # 0
  <2>1. l.best \in Producers
    <3>1. l.found \in Nat /\ l.size \in Nat
      BY DEF Locals
    <3>2. (l.found > 0 => l.size > 0) /\ (l.size > 0 => l.best \in Producers)
      BY <1>1, <1>3 DEF Knows
    <3>3. QED
      BY <1>5, <3>1, <3>2
  <2>2. <<>> \in Seq(Producers)
    OBVIOUS
  <2>3. r \in Locals /\ r.pc = "dequeue" /\ r.from = l.best /\ r.need = l.need
    BY <1>2, <1>5, <2>1, <2>2 DEF Locals
  <2>4. Knows(r)
    BY <2>1, <2>3 DEF Knows
  <2>5. QED
    BY <1>1, <1>3, <2>3, <2>4 DEF Goes, Busy
<1>6. QED
  BY <1>4, <1>5

LEMMA NextProducerGoes ==
    ASSUME QueueTypeOK, DequeueInv, NEW c \in Consumers, NextProducer(c)
    PROVE  Goes(c, con[c].need)
<1>1. PICK l \in Locals : l = con[c] /\ Knows(l)
  BY DEF QueueTypeOK, DequeueInv
<1>2. l.pc = "next" /\ l.todo \in Seq(Producers)
  BY <1>1 DEF NextProducer, Locals
<1>3. CASE l.todo = <<>>
  <2>1. PICK r : r = Retry(c)
    OBVIOUS
  <2>2. Local(c, r)
    BY <1>1, <1>3, <2>1 DEF NextProducer
  <2>3. r \in Locals /\ Knows(r) /\ r.pc \notin Busy /\ (blocking => r.need = con[c].need)
    BY <2>1, RetryLocal
  <2>4. QED
    BY <1>1, <1>2, <2>2, <2>3 DEF Goes, Busy
<1>4. CASE l.todo # <<>> /\ Head(l.todo) = l.best
  <2>1. PICK r : r = [l EXCEPT !.todo = Tail(l.todo)]
    OBVIOUS
  <2>2. Local(c, r)
    BY <1>1, <1>4, <2>1 DEF NextProducer
  <2>3. Tail(l.todo) \in Seq(Producers)
    BY <1>2, <1>4
  <2>4. r \in Locals /\ r.pc = "next" /\ r.need = l.need
    BY <1>2, <2>1, <2>3 DEF Locals
  <2>5. QED
    BY <1>1, <1>2, <2>2, <2>4 DEF Goes, Knows, Busy
<1>5. CASE l.todo # <<>> /\ Head(l.todo) # l.best
  <2>1. PICK r : r = [l EXCEPT !.pc = "dequeue", !.todo = Tail(l.todo),
                               !.from = Head(l.todo)]
    OBVIOUS
  <2>2. Local(c, r)
    BY <1>1, <1>5, <2>1 DEF NextProducer
  <2>3. Tail(l.todo) \in Seq(Producers) /\ Head(l.todo) \in Producers
    BY <1>2, <1>5
  <2>4. r \in Locals /\ r.pc = "dequeue" /\ r.need = l.need /\ r.from \in Producers
    BY <1>2, <2>1, <2>3 DEF Locals
  <2>5. QED
    BY <1>1, <1>2, <2>2, <2>4 DEF Goes, Knows, Busy
<1>6. QED
  BY <1>3, <1>4, <1>5

LEMMA LookGoes ==
    ASSUME QueueTypeOK, DequeueInv, NEW c \in Consumers, Look(c)
    PROVE  Goes(c, con[c].need)
<1>1. PICK l \in Locals : l = con[c] /\ Knows(l)
  BY DEF QueueTypeOK, DequeueInv
<1>2. l.pc = "dequeue" /\ l.from \in Producers /\ l.need \in 0 .. MaxBulk
  BY <1>1 DEF Look, Knows, Locals
<1>3. PICK p \in Producers : p = l.from
  BY <1>2
<1>4. PICK n : n = There(p, optimistic[p] - overcommit[p], l.need)
  OBVIOUS
<1>5. /\ optimistic[p] \in Nat /\ overcommit[p] \in Nat /\ tail[p] \in Nat
      /\ l.need \in Nat /\ MaxBulk \in Nat
  BY <1>2, QueueAssumption DEF QueueTypeOK
<1>6. n \in 0 .. l.need
  BY <1>4, <1>5 DEF There, SmallerOf
<1>7. CASE n = 0
  <2>1. PICK r : r = Failed(c)
    OBVIOUS
  <2>2. Local(c, r)
    BY <1>1, <1>3, <1>4, <1>7, <2>1 DEF Look
  <2>3. r \in Locals /\ Knows(r) /\ r.pc \in {"others", "next"} /\ r.need = con[c].need
    BY <1>1, <1>2, <2>1, FailedLocal
  <2>4. QED
    BY <1>1, <1>2, <2>2, <2>3 DEF Goes, Busy
<1>8. CASE n # 0
  <2>1. PICK r : r = [l EXCEPT !.pc = "add", !.want = n, !.over = overcommit[p]]
    OBVIOUS
  <2>2. Local(c, r)
    BY <1>1, <1>3, <1>4, <1>8, <2>1 DEF Look
  <2>3. n \in 0 .. MaxBulk /\ n \in 1 .. l.need
    BY <1>2, <1>5, <1>6, <1>8
  <2>4. /\ r \in Locals /\ r.pc = "add" /\ r.need = l.need /\ r.from = p /\ r.want = n
        /\ r.over = overcommit[p]
    BY <1>3, <1>5, <2>1, <2>3 DEF Locals
  <2>5. Knows(r)
    BY <1>5, <2>3, <2>4 DEF Knows
  <2>6. QED
    BY <1>1, <1>2, <2>2, <2>4, <2>5 DEF Goes, Busy
<1>9. QED
  BY <1>7, <1>8

-----------------------------------------------------------------------------
(* The invariant, action by action                                         *)
LEMMA QuietStep ==
    ASSUME IInv, NEW c \in Consumers, Goes(c, con[c].need),
           UNCHANGED <<producerVars, dequeueVars, permits>>
    PROVE  IInv'
<1>1. PICK r \in Locals : /\ Local(c, r) /\ Knows(r) /\ r.pc \notin Busy
                          /\ blocking => r.need = con[c].need
  BY DEF Goes
<1>2. QueueTypeOK /\ DequeueInv /\ PermitsAreItems /\ con[c].pc \notin Busy
  BY DEF IInv, Goes
<1>3. Moves(c, r) /\ con' \in [Consumers -> Locals]
  BY <1>1, <1>2, Moved
<1>4. UNCHANGED <<blocking, list, tail, signaling, head, optimistic, overcommit, permits>>
  BY DEF producerVars, dequeueVars
<1>5. QueueTypeOK'
  BY <1>2, <1>3, <1>4 DEF QueueTypeOK
<1>6. DequeueInv'
  BY <1>1, <1>2, <1>3, <1>4, QuietDequeue DEF dequeueVars
<1>7. ASSUME blocking' PROVE Total(Needs', MaxBulk) = Total(Needs, MaxBulk)
  <2>1. r.need = con[c].need /\ r.need \in Nat
    BY <1>1, <1>4, <1>7, QueueAssumption DEF Locals
  <2>2. Total(Needs, MaxBulk) \in Nat
    BY <1>2, TotalTypes
  <2>3. QED
    BY <1>1, <1>2, <1>3, <2>1, <2>2, NeedsMoves
<1>8. PermitsAreItems'
  BY <1>2, <1>4, <1>7 DEF PermitsAreItems, Published, Needs
<1>9. QED
  BY <1>5, <1>6, <1>8 DEF IInv

LEMMA WaitStep ==
    ASSUME IInv, NEW c \in Consumers, NEW n \in 1 .. MaxBulk,
           NEW bulk \in BOOLEAN, WaitDequeue(c, n, bulk)
    PROVE  IInv'
<1>1. QueueTypeOK /\ DequeueInv /\ PermitsAreItems
  BY DEF IInv
<1>2. PICK r : r = [Idle EXCEPT !.pc = "list", !.bulk = bulk, !.need = n]
  OBVIOUS
<1>3. /\ Local(c, r) /\ con[c].pc = "idle" /\ n <= permits /\ permits' = permits - n /\ blocking
      /\ UNCHANGED <<blocking, list, tail, signaling, head, optimistic, overcommit>>
  BY <1>2 DEF WaitDequeue, producerVars, dequeueVars
<1>4. n \in Nat /\ n \in 0 .. MaxBulk /\ permits \in Nat
  BY <1>1, QueueAssumption DEF QueueTypeOK
<1>5. r \in Locals /\ r.pc = "list" /\ r.need = n /\ r.found = 0 /\ r.size = 0 /\ r.best = Null
  <2>1. Idle \in Locals
    BY IdleLocal
  <2>2. r \in Locals /\ r.pc = "list" /\ r.need = n
    BY <1>2, <1>4, <2>1 DEF Locals
  <2>3. r.found = 0 /\ r.size = 0 /\ r.best = Null
    BY <1>2 DEF Idle
  <2>4. QED
    BY <2>2, <2>3
<1>6. Moves(c, r) /\ con' \in [Consumers -> Locals]
  BY <1>1, <1>3, <1>5, Moved
<1>7. QueueTypeOK'
  BY <1>1, <1>3, <1>4, <1>6 DEF QueueTypeOK
<1>8. DequeueInv'
  <2>1. Knows(r) /\ r.pc \notin Busy /\ con[c].pc \notin Busy
    BY <1>3, <1>5 DEF Knows, Busy
  <2>2. UNCHANGED <<blocking, tail, dequeueVars>>
    BY <1>3 DEF dequeueVars
  <2>3. QED
    BY <1>1, <1>5, <1>6, <2>1, <2>2, QuietDequeue
<1>9. Total(Needs', MaxBulk) = Total(Needs, MaxBulk) + n
  <2>1. con[c].need = 0
    BY <1>1, <1>3 DEF DequeueInv, Knows
  <2>2. Total(Needs, MaxBulk) \in Nat
    BY <1>1, TotalTypes
  <2>3. QED
    BY <1>1, <1>4, <1>5, <1>6, <2>1, <2>2, NeedsMoves
<1>10. PermitsAreItems'
  <2>1. /\ Published' = Published /\ Total(head, MaxItems)' = Total(head, MaxItems)
        /\ Cardinality(signaling)' = Cardinality(signaling)
    BY <1>3 DEF Published
  <2>2. Published = Total(head, MaxItems) + permits + Cardinality(signaling)
                       + Total(Needs, MaxBulk)
    BY <1>1, <1>3 DEF PermitsAreItems, Needs
  <2>3. /\ Total(head, MaxItems) \in Nat /\ Total(Needs, MaxBulk) \in Nat
        /\ Cardinality(signaling) \in Nat
    <3>1. IsFiniteSet(signaling)
      BY <1>1, FS_Subset, QueueAssumption DEF QueueTypeOK
    <3>2. QED
      BY <1>1, <3>1, TotalTypes, FS_CardinalityType
  <2>4. Published = Total(head, MaxItems) + permits' + Cardinality(signaling)
                       + Total(Needs', MaxBulk)
    BY <1>3, <1>4, <1>9, <2>2, <2>3
  <2>5. QED
    BY <2>1, <2>4 DEF PermitsAreItems, Needs
<1>11. QED
  BY <1>7, <1>8, <1>10 DEF IInv

LEMMA JoinStep ==
    ASSUME IInv, NEW p \in Producers, Join(p)
    PROVE  IInv'
<1>1. QueueTypeOK /\ DequeueInv /\ PermitsAreItems
  BY DEF IInv
<1>2. /\ p \notin ToSet(list) /\ list' = <<p>> \o list
      /\ UNCHANGED <<blocking, tail, signaling, head, optimistic, overcommit, permits, con>>
  BY DEF Join, dequeueVars
<1>3. list \in Seq(Producers) /\ IsInjective(list)
  BY <1>1 DEF QueueTypeOK
<1>4. list' \in Seq(Producers)
  BY <1>2, <1>3
<1>5. IsInjective(list')
  <2>1. /\ Len(list') = Len(list) + 1 /\ list'[1] = p
        /\ \A i \in 2 .. Len(list') : list'[i] = list[i - 1] /\ i - 1 \in 1 .. Len(list)
    BY <1>2, <1>3
  <2>2. \A i \in 1 .. Len(list) : list[i] # p
    BY <1>2, <1>3 DEF ToSet
  <2>3. \A i, j \in 1 .. Len(list) : list[i] = list[j] => i = j
    BY <1>3 DEF IsInjective
  <2>4. DOMAIN list' = 1 .. Len(list')
    BY <1>4
  <2>5. Len(list) \in Nat
    BY <1>3
  <2>6. ASSUME NEW i \in 1 .. Len(list'), NEW j \in 1 .. Len(list'), list'[i] = list'[j]
        PROVE  i = j
    <3>1. CASE i = 1 /\ j # 1
      BY <2>1, <2>2, <2>5, <2>6, <3>1
    <3>2. CASE j = 1 /\ i # 1
      BY <2>1, <2>2, <2>5, <2>6, <3>2
    <3>3. CASE i # 1 /\ j # 1
      BY <2>1, <2>3, <2>5, <2>6, <3>3
    <3>4. QED
      BY <3>1, <3>2, <3>3
  <2>7. QED
    BY <2>4, <2>6 DEF IsInjective
<1>6. QueueTypeOK'
  BY <1>1, <1>2, <1>4, <1>5 DEF QueueTypeOK
<1>7. DequeueInv'
  BY <1>1, <1>2, ListDequeue
<1>8. PermitsAreItems'
  BY <1>1, <1>2 DEF PermitsAreItems, Published
<1>9. QED
  BY <1>6, <1>7, <1>8 DEF IInv

(* One value of the counters of the producers grows.                       *)
LEMMA CounterGrows ==
    ASSUME NEW f \in Tallies(Producers, MaxItems),
           NEW p \in Producers, NEW k \in Nat, f[p] + k <= MaxItems,
           NEW g, Sets(f, p, f[p] + k, g)
    PROVE  /\ Total(g, MaxItems) = Total(f, MaxItems) + k
           /\ g \in [Producers -> 0 .. MaxItems]
<1>1. IsFiniteSet(Producers) /\ MaxItems \in Nat
  BY QueueAssumption
<1>2. f \in [Producers -> 0 .. MaxItems] /\ f[p] \in Nat
  BY <1>1 DEF Tallies
<1>3. f[p] + k \in 0 .. MaxItems
  BY <1>1, <1>2
<1>4. Total(g, MaxItems) = Total(f, MaxItems) - f[p] + (f[p] + k)
  BY <1>1, <1>3, TotalChange
<1>5. Total(f, MaxItems) \in Nat
  BY <1>1, TotalType
<1>6. g \in [Producers -> 0 .. MaxItems]
  BY <1>2, <1>3 DEF Sets
<1>7. QED
  BY <1>2, <1>4, <1>5, <1>6

LEMMA EnqueueStep ==
    ASSUME IInv, NEW p \in Producers, Enqueue(p)
    PROVE  IInv'
<1>1. QueueTypeOK /\ DequeueInv /\ PermitsAreItems
  BY DEF IInv
<1>2. /\ p \notin signaling /\ Published < MaxItems
      /\ tail' = [tail EXCEPT ![p] = tail[p] + 1]
      /\ signaling' = IF blocking THEN signaling \cup {p} ELSE signaling
      /\ UNCHANGED <<blocking, list, head, optimistic, overcommit, permits, con>>
  BY DEF Enqueue, dequeueVars
<1>3. PICK f : f = tail
  OBVIOUS
<1>4. f \in Tallies(Producers, MaxItems) /\ IsFiniteSet(Producers) /\ MaxItems \in Nat
  BY <1>1, <1>3, TallyTypes, QueueAssumption
<1>5. f[p] + 1 <= MaxItems /\ f[p] \in Nat
  <2>1. PICK z : Sets(f, p, 0, z)
    BY DEF Sets
  <2>2. Total(f, MaxItems) = Total(z, MaxItems) + f[p] /\ Total(z, MaxItems) \in Nat
    BY <1>4, <2>1, TotalOther
  <2>3. Total(f, MaxItems) < MaxItems
    BY <1>2, <1>3 DEF Published
  <2>4. f[p] \in Nat
    BY <1>4 DEF Tallies
  <2>5. QED
    BY <1>4, <2>2, <2>3, <2>4
<1>6. PICK g : g = tail'
  OBVIOUS
<1>7. Sets(f, p, f[p] + 1, g)
  BY <1>2, <1>3, <1>6 DEF Sets
<1>8. Total(g, MaxItems) = Total(f, MaxItems) + 1 /\ g \in [Producers -> 0 .. MaxItems]
  <2>1. 1 \in Nat
    OBVIOUS
  <2>2. QED
    BY <1>4, <1>5, <1>7, <2>1, CounterGrows
<1>9. QueueTypeOK'
  BY <1>1, <1>2, <1>6, <1>8 DEF QueueTypeOK
<1>10. DequeueInv'
  BY <1>1, EnqueueDequeue
<1>11. ASSUME blocking' PROVE Cardinality(signaling') = Cardinality(signaling) + 1
                              /\ Cardinality(signaling) \in Nat
  <2>1. IsFiniteSet(signaling)
    BY <1>1, FS_Subset, QueueAssumption DEF QueueTypeOK
  <2>2. signaling' = signaling \cup {p}
    BY <1>2, <1>11
  <2>3. QED
    BY <1>2, <2>1, <2>2, FS_AddElement, FS_CardinalityType
<1>12. PermitsAreItems'
  <2>1. ASSUME blocking'
        PROVE  Published' = Total(head, MaxItems) + permits + Cardinality(signaling')
                               + Total(Needs, MaxBulk)
    <3>1. Published = Total(head, MaxItems) + permits + Cardinality(signaling)
                         + Total(Needs, MaxBulk)
      BY <1>1, <1>2, <2>1 DEF PermitsAreItems, Needs
    <3>2. Published' = Published + 1
      BY <1>3, <1>6, <1>8 DEF Published
    <3>3. /\ Total(head, MaxItems) \in Nat /\ Total(Needs, MaxBulk) \in Nat
          /\ permits \in Nat
      BY <1>1, TotalTypes DEF QueueTypeOK
    <3>4. QED
      BY <1>11, <2>1, <3>1, <3>2, <3>3
  <2>2. QED
    BY <1>2, <2>1 DEF PermitsAreItems, Needs
<1>13. QED
  BY <1>9, <1>10, <1>12 DEF IInv

LEMMA SignalStep ==
    ASSUME IInv, NEW p \in Producers, SignalItem(p)
    PROVE  IInv'
<1>1. QueueTypeOK /\ DequeueInv /\ PermitsAreItems
  BY DEF IInv
<1>2. /\ p \in signaling /\ signaling' = signaling \ {p} /\ permits' = permits + 1
      /\ UNCHANGED <<blocking, list, tail, head, optimistic, overcommit, con>>
  BY DEF SignalItem, dequeueVars
<1>3. QueueTypeOK'
  BY <1>1, <1>2 DEF QueueTypeOK
<1>4. DequeueInv'
  BY <1>1, <1>2, ListDequeue
<1>5. /\ Cardinality(signaling') = Cardinality(signaling) - 1
      /\ Cardinality(signaling) \in Nat
  <2>1. IsFiniteSet(signaling)
    BY <1>1, FS_Subset, QueueAssumption DEF QueueTypeOK
  <2>2. QED
    BY <1>2, <2>1, FS_RemoveElement, FS_CardinalityType
<1>6. PermitsAreItems'
  <2>1. ASSUME blocking'
        PROVE  Published = Total(head, MaxItems) + permits' + Cardinality(signaling')
                              + Total(Needs, MaxBulk)
    <3>1. Published = Total(head, MaxItems) + permits + Cardinality(signaling)
                         + Total(Needs, MaxBulk)
      BY <1>1, <1>2, <2>1 DEF PermitsAreItems, Needs
    <3>2. /\ Total(head, MaxItems) \in Nat /\ Total(Needs, MaxBulk) \in Nat
          /\ permits \in Nat
      BY <1>1, TotalTypes DEF QueueTypeOK
    <3>3. QED
      BY <1>2, <1>5, <3>1, <3>2
  <2>2. QED
    BY <1>2, <2>1 DEF PermitsAreItems, Needs, Published
<1>7. QED
  BY <1>3, <1>4, <1>6 DEF IInv

LEMMA CounterStep ==
    ASSUME IInv, NEW c \in Consumers, AddOptimistic(c) \/ AddOvercommit(c)
    PROVE  IInv'
<1>1. QueueTypeOK /\ DequeueInv /\ PermitsAreItems
  BY DEF IInv
<1>2. /\ DequeueInv' /\ (\E r \in Locals : Moves(c, r) /\ r.need = con[c].need)
      /\ {optimistic', overcommit'} \subseteq [Producers -> Nat]
  <2>1. CASE AddOptimistic(c)
    <3>1. UNCHANGED overcommit
      BY <2>1 DEF AddOptimistic
    <3>2. QED
      BY <1>1, <2>1, <3>1, ReserveDequeue DEF QueueTypeOK
  <2>2. CASE AddOvercommit(c)
    <3>1. UNCHANGED optimistic
      BY <2>2 DEF AddOvercommit
    <3>2. QED
      BY <1>1, <2>2, <3>1, CheckDequeue DEF QueueTypeOK
  <2>3. QED
    BY <2>1, <2>2
<1>3. UNCHANGED <<blocking, list, tail, signaling, head, permits>>
  BY DEF AddOptimistic, AddOvercommit, producerVars
<1>4. PICK r \in Locals : Moves(c, r) /\ r.need = con[c].need
  BY <1>2
<1>5. con' \in [Consumers -> Locals]
  BY <1>1, <1>4 DEF Moves, QueueTypeOK
<1>6. QueueTypeOK'
  BY <1>1, <1>2, <1>3, <1>5 DEF QueueTypeOK
<1>7. Total(Needs', MaxBulk) = Total(Needs, MaxBulk)
  <2>1. r.need \in Nat /\ Total(Needs, MaxBulk) \in Nat
    BY <1>1, TotalTypes, QueueAssumption DEF Locals
  <2>2. QED
    BY <1>1, <1>4, <2>1, NeedsMoves
<1>8. PermitsAreItems'
  BY <1>1, <1>3, <1>7 DEF PermitsAreItems, Published, Needs
<1>9. QED
  BY <1>2, <1>6, <1>8 DEF IInv

LEMMA ClaimStep ==
    ASSUME IInv, NEW c \in Consumers, Claim(c)
    PROVE  IInv'
<1>1. QueueTypeOK /\ DequeueInv /\ PermitsAreItems
  BY DEF IInv
<1>2. PICK p, n : p = con[c].from /\ n = con[c].want
  OBVIOUS
<1>3. /\ DequeueInv' /\ p \in Producers /\ n \in 1 .. con[c].need /\ n \in Nat
      /\ head[p] + n <= tail[p]
  BY <1>1, <1>2, ClaimDequeue
<1>4. PICK r \in Locals : Moves(c, r) /\ r.need = con[c].need - n
  BY <1>1, <1>2, ClaimDequeue
<1>5. /\ UNCHANGED <<blocking, list, tail, signaling, optimistic, overcommit, permits>>
      /\ head' = [head EXCEPT ![p] = head[p] + n]
  BY <1>2 DEF Claim, producerVars
<1>6. PICK f : f = head
  OBVIOUS
<1>7. PICK g : g = head'
  OBVIOUS
<1>8. f \in Tallies(Producers, MaxItems)
  BY <1>1, <1>6, TallyTypes
<1>9. f[p] + n <= MaxItems
  <2>1. tail[p] \in 0 .. MaxItems /\ head[p] \in 0 .. MaxItems /\ MaxItems \in Nat
    BY <1>1, <1>3, QueueAssumption DEF QueueTypeOK
  <2>2. QED
    BY <1>3, <1>6, <2>1
<1>10. Sets(f, p, f[p] + n, g)
  BY <1>5, <1>6, <1>7 DEF Sets
<1>11. Total(g, MaxItems) = Total(f, MaxItems) + n /\ g \in [Producers -> 0 .. MaxItems]
  BY <1>3, <1>8, <1>9, <1>10, CounterGrows
<1>12. con' \in [Consumers -> Locals]
  BY <1>1, <1>4 DEF Moves, QueueTypeOK
<1>13. QueueTypeOK'
  BY <1>1, <1>5, <1>7, <1>11, <1>12 DEF QueueTypeOK
<1>14. Total(Needs', MaxBulk) = Total(Needs, MaxBulk) - n
  <2>1. con[c].need \in Nat /\ Total(Needs, MaxBulk) \in Nat
    <3>1. con[c].need \in 0 .. MaxBulk
      BY <1>1 DEF QueueTypeOK, Locals
    <3>2. QED
      BY <1>1, <3>1, TotalTypes, QueueAssumption
  <2>2. QED
    BY <1>1, <1>3, <1>4, <2>1, NeedsMoves
<1>15. PermitsAreItems'
  <2>1. ASSUME blocking'
        PROVE  Published = Total(head', MaxItems) + permits + Cardinality(signaling)
                              + Total(Needs', MaxBulk)
    <3>1. Published = Total(head, MaxItems) + permits + Cardinality(signaling)
                         + Total(Needs, MaxBulk)
      BY <1>1, <1>5, <2>1 DEF PermitsAreItems, Needs
    <3>2. Total(head', MaxItems) = Total(head, MaxItems) + n
      BY <1>6, <1>7, <1>11
    <3>3. /\ Total(head, MaxItems) \in Nat /\ Total(Needs, MaxBulk) \in Nat
          /\ permits \in Nat
      BY <1>1, TotalTypes DEF QueueTypeOK
    <3>4. Cardinality(signaling) \in Nat
      <4>1. IsFiniteSet(signaling)
        BY <1>1, FS_Subset, QueueAssumption DEF QueueTypeOK
      <4>2. QED
        BY <4>1, FS_CardinalityType
    <3>5. QED
      BY <1>3, <1>14, <3>1, <3>2, <3>3, <3>4
  <2>2. QED
    BY <1>5, <2>1 DEF PermitsAreItems, Needs, Published
<1>16. QED
  BY <1>3, <1>13, <1>15 DEF IInv

LEMMA InitIInv ==
    ASSUME QueueInit
    PROVE  IInv
<1>1. Idle \in Locals /\ Knows(Idle) /\ Idle.pc = "idle" /\ Idle.need = 0
  BY IdleLocal
<1>2. /\ tail = [p \in Producers |-> 0] /\ head = [p \in Producers |-> 0]
      /\ optimistic = [p \in Producers |-> 0] /\ overcommit = [p \in Producers |-> 0]
      /\ con = [c \in Consumers |-> Idle] /\ list = <<>> /\ signaling = {} /\ permits = 0
      /\ blocking \in BOOLEAN
  BY DEF QueueInit
<1>3. QueueTypeOK
  <2>1. list \in Seq(Producers) /\ IsInjective(list)
    BY <1>2 DEF IsInjective
  <2>2. 0 \in 0 .. MaxItems
    BY QueueAssumption
  <2>3. con \in [Consumers -> Locals]
    BY <1>1, <1>2
  <2>4. QED
    BY <1>2, <2>1, <2>2, <2>3 DEF QueueTypeOK
<1>4. \A c \in Consumers : con[c] = Idle
  BY <1>2
<1>5. MaxBulk \in Nat /\ MaxItems \in Nat
  BY QueueAssumption
<1>6. ASSUME NEW p PROVE Total(Claimed(p), MaxBulk) = 0 /\ Total(Reserved(p), MaxBulk) = 0
  <2>1. Claimed(p) = [c \in Consumers |-> 0] /\ Reserved(p) = [c \in Consumers |-> 0]
    BY <1>1, <1>4 DEF Claimed, Reserved, ClaimOf, ReserveOf
  <2>2. QED
    BY <1>5, <2>1, TotalZero
<1>7. \A p \in Producers : CountersInv(p)
  BY <1>2, <1>6 DEF CountersInv, Accepted
<1>8. DequeueInv
  BY <1>1, <1>4, <1>7 DEF DequeueInv, Ordered
<1>9. PermitsAreItems
  <2>1. Total(tail, MaxItems) = 0 /\ Total(head, MaxItems) = 0
    BY <1>2, <1>5, TotalZero
  <2>2. Needs = [c \in Consumers |-> 0]
    BY <1>1, <1>4 DEF Needs
  <2>3. Total(Needs, MaxBulk) = 0
    BY <1>5, <2>2, TotalZero
  <2>4. Cardinality(signaling) = 0
    BY <1>2, FS_EmptySet
  <2>5. QED
    BY <1>2, <2>1, <2>3, <2>4 DEF PermitsAreItems, Published, Needs
<1>10. QED
  BY <1>3, <1>8, <1>9 DEF IInv

LEMMA StutterStep ==
    ASSUME IInv, UNCHANGED queueVars
    PROVE  IInv'
<1>1. QueueTypeOK /\ DequeueInv /\ PermitsAreItems
  BY DEF IInv
<1>2. UNCHANGED <<blocking, list, tail, signaling, head, optimistic, overcommit, permits, con>>
  BY DEF queueVars, producerVars, dequeueVars
<1>3. QueueTypeOK'
  BY <1>1, <1>2 DEF QueueTypeOK
<1>4. DequeueInv'
  BY <1>1, <1>2, ListDequeue
<1>5. PermitsAreItems'
  BY <1>1, <1>2 DEF PermitsAreItems, Published
<1>6. QED
  BY <1>3, <1>4, <1>5 DEF IInv

LEMMA NextIInv ==
    ASSUME IInv, [QueueNext]_queueVars
    PROVE  IInv'
<1>1. QueueTypeOK /\ DequeueInv
  BY DEF IInv
<1>2. ASSUME NEW p \in Producers, Join(p) \/ Enqueue(p) \/ SignalItem(p)
      PROVE  IInv'
  BY <1>2, JoinStep, EnqueueStep, SignalStep
<1>3. ASSUME NEW c \in Consumers, Call(c)
      PROVE  IInv'
  <2>1. CASE WaitDequeue(c, 1, FALSE)
    <3>1. 1 \in 1 .. MaxBulk /\ FALSE \in BOOLEAN
      BY QueueAssumption
    <3>2. QED
      BY <2>1, <3>1, WaitStep
  <2>2. ASSUME NEW n \in 1 .. MaxBulk, WaitDequeue(c, n, TRUE) PROVE IInv'
    <3>1. TRUE \in BOOLEAN
      OBVIOUS
    <3>2. QED
      BY <2>2, <3>1, WaitStep
  <2>3. CASE GetResult(c)
    <3>1. UNCHANGED <<producerVars, dequeueVars, permits>>
      BY <2>3 DEF GetResult
    <3>2. QED
      BY <1>1, <2>3, <3>1, GetResultGoes, QuietStep
  <2>4. QED
    BY <1>3, <2>1, <2>2, <2>3 DEF Call
<1>4. ASSUME NEW c \in Consumers, Step(c)
      PROVE  IInv'
  <2>1. ASSUME \/ LoadTail(c) \/ AddSize(c) \/ Summed(c) \/ LoadList(c) \/ Score(c)
               \/ Scored(c) \/ NextProducer(c) \/ Look(c)
        PROVE  IInv'
    <3>1. Goes(c, con[c].need)
      BY <1>1, <2>1, LoadTailGoes, AddSizeGoes, SummedGoes, LoadListGoes, ScoreGoes,
         ScoredGoes, NextProducerGoes, LookGoes
    <3>2. UNCHANGED <<producerVars, dequeueVars, permits>>
      BY <2>1 DEF LoadTail, AddSize, Summed, LoadList, Score, Scored, NextProducer, Look
    <3>3. QED
      BY <3>1, <3>2, QuietStep
  <2>2. CASE AddOptimistic(c) \/ AddOvercommit(c)
    BY <2>2, CounterStep
  <2>3. CASE Claim(c)
    BY <2>3, ClaimStep
  <2>4. QED
    BY <1>4, <2>1, <2>2, <2>3 DEF Step
<1>5. QED
  BY <1>2, <1>3, <1>4, StutterStep DEF QueueNext

LEMMA Invariant == QueueSpec => []IInv
<1>1. QueueInit => IInv
  BY InitIInv
<1>2. IInv /\ [QueueNext]_queueVars => IInv'
  BY NextIInv
<1>3. QED
  BY <1>1, <1>2, PTL DEF QueueSpec

(* A permit of the semaphore stands for an item that no call has been      *)
(* promised yet, however many enqueue and dequeue at a time                *)
(* (blockingconcurrentqueue.h:519-526, 755-761).                           *)
THEOREM PermitsStandForItems == QueueSpec => []QueueInv
<1>1. IInv => QueueInv
  BY DEF IInv, QueueInv
<1>2. QED
  BY <1>1, Invariant, PTL

-----------------------------------------------------------------------------
(* The items of a producer                                                 *)
Run(p, h, t) == [i \in 1 .. t - h |-> <<p, h + i>>]
First(s, n) == SubSeq(s, 1, n)
Rest(s, n) == SubSeq(s, n + 1, Len(s))

LEMMA RunType ==
    ASSUME NEW p, NEW h \in Nat, NEW t \in Nat, h <= t
    PROVE  /\ Run(p, h, t) \in Seq({p} \X Nat) /\ Len(Run(p, h, t)) = t - h
           /\ \A i \in 1 .. t - h : Run(p, h, t)[i] = <<p, h + i>>
<1>1. t - h \in Nat
  OBVIOUS
<1>2. \A i \in 1 .. t - h : <<p, h + i>> \in {p} \X Nat
  OBVIOUS
<1>3. QED
  BY <1>1, <1>2 DEF Run

LEMMA RunAppend ==
    ASSUME NEW p, NEW h \in Nat, NEW t \in Nat, h <= t,
           NEW u \in Nat, u = t + 1
    PROVE  LET q == Run(p, h, u)
           IN  q # <<>> /\ q = Append(Run(p, h, t), q[Len(q)])
<1> DEFINE S == {p} \X Nat
           r == Run(p, h, t)
           q == Run(p, h, u)
           s == Append(r, <<p, u>>)
<1>1. r \in Seq(S) /\ Len(r) = t - h /\ \A i \in 1 .. t - h : r[i] = <<p, h + i>>
  BY RunType
<1>2. h <= u
  OBVIOUS
<1>3. q \in Seq(S) /\ Len(q) = u - h /\ \A i \in 1 .. u - h : q[i] = <<p, h + i>>
  BY <1>2, RunType
<1>4. <<p, u>> \in S
  OBVIOUS
<1> HIDE DEF S, r, q
<1>5. /\ s \in Seq(S) /\ Len(s) = Len(r) + 1
      /\ \A i \in 1 .. Len(r) + 1 : s[i] = IF i = Len(r) + 1 THEN <<p, u>> ELSE r[i]
  BY <1>1, <1>4
<1> HIDE DEF s
<1>6. Len(s) = u - h /\ Len(q) = Len(s) /\ u - h \in Nat /\ u - h # 0
  BY <1>1, <1>2, <1>3, <1>5
<1>7. \A i \in 1 .. u - h : s[i] = q[i]
  <2>1. TAKE i \in 1 .. u - h
  <2>2. CASE i = u - h
    <3>1. h + i = u /\ i = Len(r) + 1 /\ i \in 1 .. Len(r) + 1
      BY <1>1, <1>6, <2>1, <2>2
    <3>2. s[i] = <<p, u>>
      BY <1>5, <3>1
    <3>3. q[i] = <<p, h + i>>
      BY <1>3, <2>1
    <3>4. QED
      BY <3>1, <3>2, <3>3
  <2>3. CASE i # u - h
    <3>1. i \in 1 .. t - h /\ i # Len(r) + 1 /\ i \in 1 .. Len(r) + 1
      BY <1>1, <2>1, <2>3
    <3>2. QED
      BY <1>1, <1>3, <1>5, <2>1, <3>1
  <2>4. QED
    BY <2>2, <2>3
<1>8. q = s
  <2>1. q \in Seq(S) /\ s \in Seq(S) /\ Len(q) = Len(s) /\ \A i \in 1 .. Len(q) : q[i] = s[i]
    BY <1>3, <1>5, <1>6, <1>7
  <2>2. QED
    BY <2>1
<1>9. q[Len(q)] = <<p, u>>
  <2>1. Len(q) \in 1 .. u - h /\ h + Len(q) = u
    BY <1>3, <1>6
  <2>2. QED
    BY <1>3, <2>1
<1>10. q # <<>>
  BY <1>3, <1>6
<1>11. q = Append(r, q[Len(q)])
  BY <1>8, <1>9 DEF s
<1>12. QED
  BY <1>10, <1>11 DEF q, r

LEMMA RunTake ==
    ASSUME NEW p, NEW h \in Nat, NEW k \in Nat, NEW t \in Nat, h <= k, k <= t
    PROVE  /\ Run(p, k, t) = Rest(Run(p, h, t), k - h)
           /\ Run(p, h, k) = First(Run(p, h, t), k - h)
<1> DEFINE n == k - h
<1>0. n \in Nat /\ k = h + n /\ h <= t
  OBVIOUS
<1> HIDE DEF n
<1>1. PICK r : r = Run(p, h, t)
  OBVIOUS
<1>2. r \in Seq({p} \X Nat) /\ Len(r) = t - h /\ \A i \in 1 .. t - h : r[i] = <<p, h + i>>
  BY <1>0, <1>1, RunType
<1>3. SubSeq(r, n + 1, Len(r)) = Run(p, k, t)
  <2>1. PICK a, b : a = SubSeq(r, n + 1, Len(r)) /\ b = Run(p, k, t)
    OBVIOUS
  <2>2. n + 1 \in Int /\ Len(r) \in Int /\ Len(r) - (n + 1) + 1 = t - k /\ t - k \in Nat
    BY <1>0, <1>2
  <2>3. \A i \in n + 1 .. Len(r) : r[i] \in {p} \X Nat
    BY <1>0, <1>2
  <2>4. /\ a \in Seq({p} \X Nat)
        /\ Len(a) = IF n + 1 <= Len(r) THEN Len(r) - (n + 1) + 1 ELSE 0
        /\ \A i \in 1 .. Len(r) - (n + 1) + 1 : a[i] = r[n + 1 + i - 1]
    BY <2>1, <2>2, <2>3, SubSeqProperties
  <2>5. Len(a) = t - k
    BY <1>0, <1>2, <2>2, <2>4
  <2>6. b \in Seq({p} \X Nat) /\ Len(b) = t - k /\ \A i \in 1 .. t - k : b[i] = <<p, k + i>>
    BY <2>1, RunType
  <2>7. ASSUME NEW i \in 1 .. t - k PROVE a[i] = b[i]
    <3>1. n + 1 + i - 1 \in 1 .. t - h /\ h + (n + 1 + i - 1) = k + i
      BY <1>0
    <3>2. r[n + 1 + i - 1] = <<p, k + i>>
      BY <1>0, <1>2, <3>1
    <3>3. a[i] = r[n + 1 + i - 1]
      BY <2>2, <2>4
    <3>4. QED
      BY <2>6, <3>2, <3>3
  <2>8. a = b
    BY <2>4, <2>5, <2>6, <2>7
  <2>9. QED
    BY <2>1, <2>8
<1>4. SubSeq(r, 1, n) = Run(p, h, k)
  <2>1. PICK a, b : a = SubSeq(r, 1, n) /\ b = Run(p, h, k)
    OBVIOUS
  <2>2. 1 \in Int /\ n \in Int /\ n - 1 + 1 = n /\ k - h = n /\ h <= k
    BY <1>0
  <2>3. \A i \in 1 .. n : r[i] \in {p} \X Nat
    BY <1>0, <1>2
  <2>4. /\ a \in Seq({p} \X Nat) /\ Len(a) = IF 1 <= n THEN n - 1 + 1 ELSE 0
        /\ \A i \in 1 .. n - 1 + 1 : a[i] = r[1 + i - 1]
    BY <2>1, <2>2, <2>3, SubSeqProperties
  <2>5. Len(a) = n
    BY <2>2, <2>4
  <2>6. b \in Seq({p} \X Nat) /\ Len(b) = n /\ \A i \in 1 .. n : b[i] = <<p, h + i>>
    <3>1. b \in Seq({p} \X Nat) /\ Len(b) = k - h /\ \A i \in 1 .. k - h : b[i] = <<p, h + i>>
      BY <2>1, <2>2, RunType
    <3>2. QED
      BY <2>2, <3>1
  <2>7. ASSUME NEW i \in 1 .. n PROVE a[i] = b[i]
    <3>1. 1 + i - 1 = i /\ i \in 1 .. t - h /\ i \in 1 .. n - 1 + 1
      BY <1>0
    <3>2. r[i] = <<p, h + i>>
      BY <1>0, <1>2, <3>1
    <3>3. a[i] = r[i]
      BY <2>4, <3>1
    <3>4. QED
      BY <2>6, <3>2, <3>3
  <2>8. a = b
    BY <2>4, <2>5, <2>6, <2>7
  <2>9. QED
    BY <2>1, <2>8
<1>5. QED
  BY <1>1, <1>3, <1>4 DEF n, First, Rest

(* The queue of the abstract specification                                 *)
Items == [p \in Producers |-> Run(p, head[p], tail[p])]

LEMMA HeadWithin ==
    ASSUME IInv, NEW p \in Producers
    PROVE  head[p] \in Nat /\ tail[p] \in Nat /\ head[p] <= tail[p]
<1>1. head[p] \in Nat /\ tail[p] \in Nat
  BY QueueAssumption DEF IInv, QueueTypeOK
<1>2. Total(Claimed(p), MaxBulk) \in Nat
  BY TotalTypes DEF IInv
<1>3. Accepted(p) <= tail[p]
  BY DEF IInv, DequeueInv, CountersInv
<1>4. QED
  BY <1>1, <1>2, <1>3 DEF Accepted

LEMMA EnqueueIsEnqueue ==
    ASSUME IInv, NEW p \in Producers, Enqueue(p)
    PROVE  Fifo!Enqueue(p)
<1>1. tail \in [Producers -> 0 .. MaxItems]
  BY DEF IInv, QueueTypeOK
<1>2. /\ tail' = [tail EXCEPT ![p] = tail[p] + 1]
      /\ UNCHANGED <<head, got>>
  BY DEF Enqueue, dequeueVars
<1>3. PICK h, t, u : h = head[p] /\ t = tail[p] /\ u = tail[p] + 1
  OBVIOUS
<1>4. h \in Nat /\ t \in Nat /\ h <= t /\ u \in Nat /\ u = t + 1
  BY <1>3, HeadWithin
<1>5. /\ Run(p, h, u) # <<>>
      /\ Run(p, h, u) = Append(Run(p, h, t), Run(p, h, u)[Len(Run(p, h, u))])
  BY <1>4, RunAppend
<1>6. /\ \A q \in Producers : head'[q] = head[q]
      /\ \A q \in Producers \ {p} : tail'[q] = tail[q]
      /\ head'[p] = h /\ tail'[p] = u
  BY <1>1, <1>2, <1>3
<1>7. Items'[p] = Run(p, h, u) /\ Items[p] = Run(p, h, t)
  BY <1>3, <1>6 DEF Items
<1>8. Items' = [Items EXCEPT ![p] = Run(p, h, u)]
  <2>1. Items' = [q \in Producers |-> Run(q, head'[q], tail'[q])]
    BY DEF Items
  <2>2. [Items EXCEPT ![p] = Run(p, h, u)]
            = [q \in Producers |-> IF q = p THEN Run(p, h, u) ELSE Run(q, head[q], tail[q])]
    BY DEF Items
  <2>3. ASSUME NEW q \in Producers
        PROVE  Run(q, head'[q], tail'[q])
                   = IF q = p THEN Run(p, h, u) ELSE Run(q, head[q], tail[q])
    BY <1>6
  <2>4. QED
    BY <2>1, <2>2, <2>3
<1>9. /\ Items'[p] # <<>>
      /\ Items' = [Items EXCEPT ![p] = Append(Items[p], Items'[p][Len(Items'[p])])]
  BY <1>5, <1>7, <1>8
<1>10. QED
  BY <1>2, <1>9 DEF Fifo!Enqueue, Items, Run

LEMMA ClaimIsDequeue ==
    ASSUME IInv, NEW c \in Consumers, Claim(c)
    PROVE  \E p \in Producers : Fifo!Dequeue(c, p)
<1>1. /\ QueueTypeOK /\ DequeueInv
      /\ head \in [Producers -> 0 .. MaxItems]
  BY DEF IInv, QueueTypeOK
<1>2. PICK p, n : p = con[c].from /\ n = con[c].want
  OBVIOUS
<1>3. /\ p \in Producers /\ n \in 1 .. con[c].need /\ n \in Nat
      /\ head[p] + n <= tail[p]
  BY <1>1, <1>2, ClaimDequeue
<1>4. /\ head' = [head EXCEPT ![p] = head[p] + n]
      /\ got' = [got EXCEPT ![c] = got[c] \o [i \in 1 .. n |-> <<p, head[p] + i>>]]
      /\ tail' = tail
  BY <1>2 DEF Claim, producerVars
<1>5. PICK h, t, k : h = head[p] /\ t = tail[p] /\ k = head[p] + n
  OBVIOUS
<1>6. /\ h \in Nat /\ t \in Nat /\ k \in Nat /\ k = h + n /\ k <= t /\ h <= t
  BY <1>3, <1>5, HeadWithin
<1>7. n >= 1
  <2>1. con[c].need \in 0 .. MaxBulk
    BY <1>1 DEF QueueTypeOK, Locals
  <2>2. QED
    BY <1>3, <2>1
<1>8. /\ Run(p, k, t) = Rest(Run(p, h, t), n)
      /\ Run(p, h, k) = First(Run(p, h, t), n)
  <2>1. h <= k /\ n = k - h
    BY <1>3, <1>6
  <2>2. h \in Nat /\ k \in Nat /\ t \in Nat /\ h <= k /\ k <= t
    BY <1>6, <2>1
  <2>3. Run(p, k, t) = Rest(Run(p, h, t), k - h)
    BY <2>2, RunTake, Zenon
  <2>4. Run(p, h, k) = First(Run(p, h, t), k - h)
    BY <2>2, RunTake, SMTT(30)
  <2>5. QED
    BY <2>1, <2>3, <2>4
<1>9. Len(Run(p, h, t)) = t - h
  BY <1>6, RunType
<1>10. n \in 1 .. Len(Run(p, h, t))
  BY <1>3, <1>6, <1>7, <1>9
<1>11. /\ \A q \in Producers : tail'[q] = tail[q]
       /\ \A q \in Producers \ {p} : head'[q] = head[q]
       /\ head'[p] = k
  <2>1. \A q \in Producers : tail'[q] = tail[q]
    BY <1>4
  <2>2. \A q \in Producers : head'[q] = IF q = p THEN k ELSE head[q]
    BY <1>1, <1>3, <1>4, <1>5
  <2>3. QED
    BY <1>3, <2>1, <2>2
<1>12. Items[p] = Run(p, h, t)
  BY <1>3, <1>5 DEF Items
<1>13. Items' = [Items EXCEPT ![p] = Run(p, k, t)]
  <2>1. Items' = [q \in Producers |-> Run(q, head'[q], tail'[q])]
    BY DEF Items
  <2>2. [Items EXCEPT ![p] = Run(p, k, t)]
            = [q \in Producers |-> IF q = p THEN Run(p, k, t) ELSE Run(q, head[q], tail[q])]
    BY DEF Items
  <2>3. ASSUME NEW q \in Producers
        PROVE  Run(q, head'[q], tail'[q])
                   = IF q = p THEN Run(p, k, t) ELSE Run(q, head[q], tail[q])
    BY <1>5, <1>11
  <2>4. QED
    BY <2>1, <2>2, <2>3
<1>14. Items' = [Items EXCEPT ![p] = Rest(Items[p], n)]
  BY <1>8, <1>12, <1>13
<1>15. got' = [got EXCEPT ![c] = got[c] \o First(Items[p], n)]
  <2>1. [i \in 1 .. n |-> <<p, head[p] + i>>] = Run(p, h, k)
    <3>1. k - h = n
      BY <1>3, <1>6
    <3>2. QED
      BY <1>5, <3>1 DEF Run
  <2>2. QED
    BY <1>4, <1>8, <1>12, <2>1
<1>16. n \in 1 .. Len(Items[p])
  BY <1>10, <1>12
<1>17. \E m \in 1 .. Len(Items[p]) :
          /\ got' = [got EXCEPT ![c] = got[c] \o SubSeq(Items[p], 1, m)]
          /\ Items' = [Items EXCEPT ![p] = SubSeq(Items[p], m + 1, Len(Items[p]))]
  BY <1>14, <1>15, <1>16 DEF First, Rest
<1>18. Fifo!Dequeue(c, p)
  BY <1>17 DEF Fifo!Dequeue, Items, Run
<1>19. QED
  BY <1>3, <1>18

(* A call that begins returns what it had: `got' starts anew.              *)
LEMMA CallIsReturn ==
    ASSUME NEW c \in Consumers, Call(c)
    PROVE  Fifo!Return(c)
<1>1. got' = [got EXCEPT ![c] = <<>>] /\ UNCHANGED <<head, tail>>
  BY DEF Call, WaitDequeue, GetResult, producerVars, dequeueVars
<1>2. QED
  BY <1>1 DEF Fifo!Return

LEMMA OtherIsStutter ==
    ASSUME UNCHANGED <<head, tail, got>>
    PROVE  UNCHANGED <<Items, got>>
  BY DEF Items

LEMMA StepIsFifo ==
    ASSUME IInv, [QueueNext]_queueVars
    PROVE  Fifo!Next \/ UNCHANGED <<Items, got>>
<1>1. ASSUME NEW p \in Producers, Join(p) \/ Enqueue(p) \/ SignalItem(p)
      PROVE  Fifo!Next \/ UNCHANGED <<Items, got>>
  <2>1. CASE Enqueue(p)
    BY <2>1, EnqueueIsEnqueue DEF Fifo!Next
  <2>2. CASE Join(p) \/ SignalItem(p)
    <3>1. UNCHANGED <<head, tail, got>>
      BY <2>2 DEF Join, SignalItem, dequeueVars
    <3>2. QED
      BY <3>1, OtherIsStutter
  <2>3. QED
    BY <1>1, <2>1, <2>2
<1>2. ASSUME NEW c \in Consumers, Call(c)
      PROVE  Fifo!Next
  BY <1>2, CallIsReturn DEF Fifo!Next
<1>3. ASSUME NEW c \in Consumers, Step(c)
      PROVE  Fifo!Next \/ UNCHANGED <<Items, got>>
  <2>1. CASE Claim(c)
    BY <2>1, ClaimIsDequeue DEF Fifo!Next
  <2>2. CASE ~Claim(c)
    <3>1. UNCHANGED <<head, tail, got>>
      BY <1>3, <2>2 DEF Step, LoadTail, AddSize, Summed, LoadList, Score, Scored,
         NextProducer, Look, AddOptimistic, AddOvercommit, producerVars, dequeueVars
    <3>2. QED
      BY <3>1, OtherIsStutter
  <2>3. QED
    BY <2>1, <2>2
<1>4. CASE UNCHANGED queueVars
  <2>1. UNCHANGED <<head, tail, got>>
    BY <1>4 DEF queueVars, producerVars, dequeueVars
  <2>2. QED
    BY <2>1, OtherIsStutter
<1>5. QED
  BY <1>1, <1>2, <1>3, <1>4 DEF QueueNext

(* The queue implements the abstract one: each item goes to one call, in   *)
(* the order its producer enqueued it, although calls claim items of the   *)
(* same producer at a time (concurrentqueue.h:2476-2542, 2642-2718).       *)
THEOREM ItemsInOrder == QueueSpec => QueueIsFifo
<1>1. QueueInit => Fifo!Init
  <2>1. SUFFICES ASSUME QueueInit PROVE Fifo!Init
    OBVIOUS
  <2>2. ASSUME NEW p \in Producers PROVE Run(p, 0, 0) = <<>>
    <3>1. Run(p, 0, 0) \in Seq({p} \X Nat) /\ Len(Run(p, 0, 0)) = 0 - 0
      <4>1. 0 \in Nat /\ 0 <= 0
        OBVIOUS
      <4>2. QED
        BY <4>1, RunType
    <3>2. QED
      BY <3>1
  <2>3. Items = [p \in Producers |-> <<>>]
    <3>1. ASSUME NEW p \in Producers PROVE Run(p, head[p], tail[p]) = <<>>
      <4>1. head[p] = 0 /\ tail[p] = 0
        BY <2>1 DEF QueueInit
      <4>2. QED
        BY <2>2, <4>1
    <3>2. QED
      BY <3>1 DEF Items
  <2>4. QED
    BY <2>1, <2>3 DEF QueueInit, Fifo!Init, Items, Run
<1>2. IInv /\ [QueueNext]_queueVars => [Fifo!Next]_<<Items, got>>
  BY StepIsFifo
<1>3. QED
  BY <1>1, <1>2, Invariant, PTL DEF QueueSpec, QueueIsFifo, Fifo!Spec, Items, Run

-----------------------------------------------------------------------------
(* A poll.  Nobody else dequeues, so a producer that has items keeps them, *)
(* and the consumer's view of the counters is exact.  If there was an item *)
(* when it called, it comes to a producer that has one (Sums, Scores) and  *)
(* gets it (Dequeues).                                                     *)
Nonempty(p) == p \in Producers /\ head[p] < tail[p]
Among(s) == \E i \in DOMAIN s : Nonempty(s[i])

Sums(l) ==
    /\ l.pc = "sum" => l.size > 0 \/ Among(l.todo)
    /\ l.pc = "sumHead" =>
          l.size > 0 \/ head[Head(l.todo)] < l.seen \/ Among(Tail(l.todo))

Scores(l) ==
    /\ l.pc \in {"score", "scoreHead"} /\ l.size > 0 => Nonempty(l.best)
    /\ l.pc = "score" => l.found > 0 \/ Among(l.todo)
    /\ l.pc = "scoreHead" =>
          /\ l.seen <= tail[Head(l.todo)]
          /\ l.found > 0 \/ head[Head(l.todo)] < l.seen \/ Among(Tail(l.todo))

Dequeues(l) ==
    /\ l.pc \in {"dequeue", "add", "check", "claim"} => Nonempty(l.from)
    /\ l.pc = "add" => l.over = overcommit[l.from]
    /\ l.pc = "check" => l.mine - l.over = head[l.from]

Sure(l) ==
    l.sure /\ l.pc # "idle" =>
        /\ ~l.bulk /\ l.pc \notin {"others", "next"}
        /\ l.pc \notin {"sum", "sumHead"} => l.need = 1
        /\ \E p \in Producers : Nonempty(p)
        /\ Sums(l) /\ Scores(l) /\ Dequeues(l)

Listed == \A p \in Producers : tail[p] > 0 => \E i \in DOMAIN list : list[i] = p
Lone == ~blocking => \A c \in Consumers \ {GameThread} : con[c].pc = "idle"

PollInv ==
    /\ Listed /\ Lone
    /\ ~blocking => /\ got \in [Consumers -> Seq(Producers \X Nat)]
                    /\ Sure(con[GameThread])

(* The consumer's next state, and that it does not come back with nothing  *)
GoesOn(r) ==
    /\ Local(GameThread, r) /\ Sure(r)
    /\ con[GameThread].sure /\ con[GameThread].pc # "idle" => r.pc # "idle"

LEMMA AmongSplit ==
    ASSUME NEW s \in Seq(Producers), s # <<>>, Among(s)
    PROVE  Nonempty(Head(s)) \/ Among(Tail(s))
<1>1. PICK i \in DOMAIN s : Nonempty(s[i])
  BY DEF Among
<1>2. CASE i = 1
  BY <1>1, <1>2
<1>3. CASE i # 1
  <2>1. i - 1 \in DOMAIN Tail(s) /\ Tail(s)[i - 1] = s[i]
    BY <1>3
  <2>2. QED
    BY <1>1, <2>1 DEF Among
<1>4. QED
  BY <1>2, <1>3

LEMMA AmongEmpty == ~Among(<<>>)
BY DEF Among

LEMMA AmongListed ==
    ASSUME QueueTypeOK, Listed, NEW p \in Producers, Nonempty(p)
    PROVE  Among(list)
<1>1. head[p] \in Nat /\ tail[p] \in Nat /\ head[p] < tail[p]
  BY QueueAssumption DEF QueueTypeOK, Nonempty
<1>2. PICK i \in DOMAIN list : list[i] = p
  BY <1>1 DEF Listed
<1>3. QED
  BY <1>2 DEF Among

(* Nobody has reserved or claimed anything: the consumer's view is exact.  *)
LEMMA LoneCounters ==
    ASSUME IInv, Lone, ~blocking, con[GameThread].pc \notin Busy, NEW p \in Producers
    PROVE  /\ head[p] \in Nat /\ tail[p] \in Nat /\ overcommit[p] \in Nat
           /\ optimistic[p] = head[p] + overcommit[p]
<1>1. \A c \in Consumers : con[c].pc \notin Busy
  BY DEF Lone, Busy
<1>2. /\ Claimed(p) = [c \in Consumers |-> 0]
      /\ Reserved(p) = [c \in Consumers |-> 0]
  <2>1. \A c \in Consumers : ClaimOf(con[c], p) = 0 /\ ReserveOf(con[c], p) = 0
    BY <1>1 DEF ClaimOf, ReserveOf, Busy
  <2>2. QED
    BY <2>1 DEF Claimed, Reserved
<1>3. Total(Claimed(p), MaxBulk) = 0 /\ Total(Reserved(p), MaxBulk) = 0
  BY <1>2, TotalZero, QueueAssumption
<1>4. CountersInv(p) /\ QueueTypeOK
  BY DEF IInv, DequeueInv
<1>5. head[p] \in Nat /\ tail[p] \in Nat /\ overcommit[p] \in Nat
  BY <1>4, QueueAssumption DEF QueueTypeOK
<1>6. QED
  BY <1>3, <1>4, <1>5 DEF CountersInv, Accepted

(* What holds of the game thread's call in every state                     *)
LEMMA PollLocal ==
    ASSUME IInv, PollInv, ~blocking
    PROVE  \E l \in Locals : l = con[GameThread] /\ Knows(l) /\ Sure(l)
BY QueueAssumption DEF IInv, QueueTypeOK, DequeueInv, PollInv

LEMMA IdleSure == Sure(Idle) /\ Idle.sure = FALSE
BY DEF Sure, Idle

-----------------------------------------------------------------------------
(* The consumer's steps                                                    *)
LEMMA GetResultPolls ==
    ASSUME IInv, PollInv, ~blocking, GetResult(GameThread)
    PROVE  \E r : GoesOn(r)
<1>1. PICK b \in BOOLEAN : b = (\E p \in Producers : head[p] < tail[p])
  OBVIOUS
<1>2. PICK r : r = [Idle EXCEPT !.pc = "sum", !.todo = list, !.sure = b]
  OBVIOUS
<1>3. Local(GameThread, r)
  BY <1>1, <1>2 DEF GetResult
<1>4. /\ r.pc = "sum" /\ r.todo = list /\ r.sure = b /\ r.bulk = FALSE
  BY <1>2 DEF Idle
<1>5. ASSUME b PROVE Among(list) /\ \E p \in Producers : Nonempty(p)
  <2>1. PICK p \in Producers : Nonempty(p)
    BY <1>1, <1>5 DEF Nonempty
  <2>2. QED
    BY <2>1, AmongListed DEF IInv, PollInv
<1>6. Sure(r)
  BY <1>4, <1>5 DEF Sure, Sums, Scores, Dequeues
<1>7. QED
  BY <1>3, <1>4, <1>6 DEF GoesOn

LEMMA LoadTailPolls ==
    ASSUME IInv, PollInv, ~blocking, LoadTail(GameThread)
    PROVE  \E r : GoesOn(r)
<1>1. PICK l \in Locals : l = con[GameThread] /\ Knows(l) /\ Sure(l)
  BY PollLocal
<1>2. PICK r : r = [l EXCEPT !.seen = tail[Head(l.todo)],
                             !.pc = IF @ = "sum" THEN "sumHead" ELSE "scoreHead"]
  OBVIOUS
<1>3. Local(GameThread, r) /\ l.pc \in {"sum", "score"} /\ l.todo # <<>>
  BY <1>1, <1>2 DEF LoadTail
<1>4. PICK p \in Producers : p = Head(l.todo)
  BY <1>3 DEF Locals
<1>5. /\ r.pc = IF l.pc = "sum" THEN "sumHead" ELSE "scoreHead"
      /\ r.seen = tail[p] /\ r.todo = l.todo /\ r.found = l.found /\ r.size = l.size
      /\ r.best = l.best /\ r.need = l.need /\ r.bulk = l.bulk /\ r.sure = l.sure
  BY <1>2, <1>4 DEF Locals
<1>6. tail[p] \in Nat
  BY QueueAssumption DEF IInv, QueueTypeOK
<1>7. Among(l.todo) => head[p] < r.seen \/ Among(Tail(l.todo))
  <2>1. l.todo \in Seq(Producers)
    BY DEF Locals
  <2>2. QED
    BY <1>3, <1>4, <1>5, <2>1, AmongSplit DEF Nonempty
<1>8. Sure(r)
  <2>1. SUFFICES ASSUME l.sure PROVE Sure(r)
    BY <1>5 DEF Sure
  <2>2. ~l.bulk /\ (l.pc = "score" => l.need = 1) /\ Sums(l) /\ Scores(l)
        /\ \E q \in Producers : Nonempty(q)
    BY <1>1, <1>3, <2>1 DEF Sure
  <2>3. Sums(r)
    BY <1>3, <1>4, <1>5, <1>7, <2>2 DEF Sums
  <2>4. Scores(r)
    BY <1>3, <1>4, <1>5, <1>6, <1>7, <2>2 DEF Scores
  <2>5. Dequeues(r)
    BY <1>5 DEF Dequeues
  <2>6. QED
    BY <1>3, <1>5, <2>2, <2>3, <2>4, <2>5 DEF Sure
<1>9. QED
  BY <1>3, <1>5, <1>8 DEF GoesOn

LEMMA AddSizePolls ==
    ASSUME IInv, PollInv, ~blocking, AddSize(GameThread)
    PROVE  \E r : GoesOn(r)
<1>1. PICK l \in Locals : l = con[GameThread] /\ Knows(l) /\ Sure(l)
  BY PollLocal
<1>2. PICK n : n = l.size + Size(GameThread)
  OBVIOUS
<1>3. PICK r : r = [l EXCEPT !.pc = "sum", !.todo = Tail(l.todo), !.seen = 0, !.size = n]
  OBVIOUS
<1>4. Local(GameThread, r) /\ l.pc = "sumHead"
  BY <1>1, <1>2, <1>3 DEF AddSize
<1>5. /\ r.pc = "sum" /\ r.todo = Tail(l.todo) /\ r.size = n
      /\ r.bulk = l.bulk /\ r.sure = l.sure
  BY <1>3 DEF Locals
<1>6. /\ l.size \in Nat /\ l.seen \in Nat /\ Size(GameThread) \in Nat
      /\ Head(l.todo) \in Producers
  BY <1>1, <1>4, SizeType, QueueAssumption DEF IInv, Locals
<1>7. head[Head(l.todo)] < l.seen => Size(GameThread) > 0
  <2>1. head[Head(l.todo)] \in Nat
    BY <1>6, QueueAssumption DEF IInv, QueueTypeOK
  <2>2. QED
    BY <1>1, <1>6, <2>1 DEF Size
<1>8. Sure(r)
  <2>1. SUFFICES ASSUME l.sure PROVE Sure(r)
    BY <1>5 DEF Sure
  <2>2. ~l.bulk /\ Sums(l) /\ \E q \in Producers : Nonempty(q)
    BY <1>1, <1>4, <2>1 DEF Sure
  <2>3. n > 0 \/ Among(Tail(l.todo))
    BY <1>2, <1>4, <1>6, <1>7, <2>2 DEF Sums
  <2>4. QED
    BY <1>5, <2>2, <2>3 DEF Sure, Sums, Scores, Dequeues
<1>9. QED
  BY <1>4, <1>5, <1>8 DEF GoesOn

LEMMA SummedPolls ==
    ASSUME IInv, PollInv, ~blocking, Summed(GameThread)
    PROVE  \E r : GoesOn(r)
<1>1. PICK l \in Locals : l = con[GameThread] /\ Knows(l) /\ Sure(l)
  BY PollLocal
<1>2. PICK r : r = IF l.size = 0 THEN Idle ELSE [l EXCEPT !.pc = "list", !.size = 0, !.need = 1]
  OBVIOUS
<1>3. Local(GameThread, r) /\ l.pc = "sum" /\ l.todo = <<>>
  BY <1>1, <1>2 DEF Summed
<1>4. ASSUME l.sure
      PROVE  ~l.bulk /\ l.size # 0 /\ \E q \in Producers : Nonempty(q)
  <2>1. l.size \in Nat
    BY DEF Locals
  <2>2. QED
    BY <1>1, <1>3, <1>4, <2>1, AmongEmpty DEF Sure, Sums
<1>5. CASE l.size = 0
  BY <1>1, <1>2, <1>3, <1>4, <1>5, IdleSure DEF GoesOn
<1>6. CASE l.size # 0
  <2>1. r.pc = "list" /\ r.need = 1 /\ r.bulk = l.bulk /\ r.sure = l.sure
    BY <1>2, <1>6 DEF Locals
  <2>2. Sure(r)
    BY <1>4, <2>1 DEF Sure, Sums, Scores, Dequeues
  <2>3. QED
    BY <1>3, <2>1, <2>2 DEF GoesOn
<1>7. QED
  BY <1>5, <1>6

LEMMA LoadListPolls ==
    ASSUME IInv, PollInv, ~blocking, LoadList(GameThread)
    PROVE  \E r : GoesOn(r)
<1>1. PICK l \in Locals : l = con[GameThread] /\ Knows(l) /\ Sure(l)
  BY PollLocal
<1>2. PICK r : r = [l EXCEPT !.todo = list,
                             !.pc = IF l.bulk \/ l.pc = "others" THEN "next" ELSE "score"]
  OBVIOUS
<1>3. Local(GameThread, r) /\ l.pc \in {"list", "others"}
  BY <1>1, <1>2 DEF LoadList
<1>4. /\ r.pc = IF l.bulk \/ l.pc = "others" THEN "next" ELSE "score"
      /\ r.todo = list /\ r.need = l.need /\ r.size = l.size
      /\ r.bulk = l.bulk /\ r.sure = l.sure
  BY <1>2 DEF Locals
<1>5. Sure(r)
  <2>1. SUFFICES ASSUME l.sure PROVE Sure(r)
    BY <1>4 DEF Sure
  <2>2. /\ ~l.bulk /\ l.pc = "list" /\ l.need = 1
        /\ \E q \in Producers : Nonempty(q)
    BY <1>1, <1>3, <2>1 DEF Sure
  <2>3. l.size = 0
    BY <1>1, <2>2 DEF Knows
  <2>4. Among(list)
    BY <2>2, AmongListed DEF IInv, PollInv
  <2>5. QED
    BY <1>4, <2>2, <2>3, <2>4 DEF Sure, Sums, Scores, Dequeues
<1>6. QED
  BY <1>3, <1>4, <1>5 DEF GoesOn

LEMMA ScorePolls ==
    ASSUME IInv, PollInv, ~blocking, Score(GameThread)
    PROVE  \E r : GoesOn(r)
<1>1. PICK l \in Locals : l = con[GameThread] /\ Knows(l) /\ Sure(l)
  BY PollLocal
<1>2. PICK n : n = Size(GameThread)
  OBVIOUS
<1>3. PICK found, best, size : /\ found = IF n > 0 THEN l.found + 1 ELSE l.found
                               /\ best = IF n > l.size THEN Head(l.todo) ELSE l.best
                               /\ size = IF n > l.size THEN n ELSE l.size
  OBVIOUS
<1>4. PICK r : r = [l EXCEPT !.pc = "score", !.todo = Tail(l.todo), !.seen = 0,
                             !.found = found, !.best = best, !.size = size]
  OBVIOUS
<1>5. Local(GameThread, r) /\ l.pc = "scoreHead"
  BY <1>1, <1>2, <1>3, <1>4 DEF Score
<1>6. /\ r.pc = "score" /\ r.todo = Tail(l.todo) /\ r.found = found /\ r.best = best
      /\ r.size = size /\ r.need = l.need /\ r.bulk = l.bulk /\ r.sure = l.sure
  BY <1>4 DEF Locals
<1>7. PICK p \in Producers : p = Head(l.todo)
  BY <1>1, <1>5, SizeType, QueueAssumption DEF IInv
<1>8. /\ l.size \in Nat /\ l.seen \in Nat /\ l.found \in Nat
      /\ head[p] \in Nat /\ tail[p] \in Nat
  BY QueueAssumption DEF IInv, QueueTypeOK, Locals
<1>9. n = IF head[p] < l.seen THEN l.seen - head[p] ELSE 0
  BY <1>1, <1>2, <1>7 DEF Size
<1>10. Sure(r)
  <2>1. SUFFICES ASSUME l.sure PROVE Sure(r)
    BY <1>6 DEF Sure
  <2>2. ~l.bulk /\ l.need = 1 /\ Scores(l) /\ \E q \in Producers : Nonempty(q)
    BY <1>1, <1>5, <2>1 DEF Sure
  <2>3. /\ l.size > 0 => Nonempty(l.best)
        /\ l.seen <= tail[p]
        /\ l.found > 0 \/ head[p] < l.seen \/ Among(Tail(l.todo))
    BY <1>5, <1>7, <2>2 DEF Scores
  <2>4. size > 0 => Nonempty(best)
    <3>1. CASE n > l.size
      <4>1. n > 0 /\ head[p] < tail[p]
        BY <1>8, <1>9, <2>3, <3>1
      <4>2. QED
        BY <1>3, <1>7, <3>1, <4>1 DEF Nonempty
    <3>2. CASE ~(n > l.size)
      BY <1>3, <2>3, <3>2
    <3>3. QED
      BY <3>1, <3>2
  <2>5. found > 0 \/ Among(Tail(l.todo))
    BY <1>3, <1>8, <1>9, <2>3
  <2>6. Scores(r)
    BY <1>6, <2>4, <2>5 DEF Scores
  <2>7. QED
    BY <1>6, <2>2, <2>6 DEF Sure, Sums, Dequeues
<1>11. QED
  BY <1>5, <1>6, <1>10 DEF GoesOn

LEMMA ScoredPolls ==
    ASSUME IInv, PollInv, ~blocking, Scored(GameThread)
    PROVE  \E r : GoesOn(r)
<1>1. PICK l \in Locals : l = con[GameThread] /\ Knows(l) /\ Sure(l)
  BY PollLocal
<1>2. PICK r : r = IF l.found = 0 THEN Idle
                   ELSE [l EXCEPT !.pc = "dequeue", !.todo = <<>>, !.size = 0,
                                  !.found = 0, !.from = l.best]
  OBVIOUS
<1>3. /\ Local(GameThread, r) /\ l.pc = "score"
      /\ l.todo = <<>> \/ l.found = 3
  BY <1>1, <1>2 DEF Scored, Retry
<1>4. l.found \in Nat
  BY DEF Locals
<1>5. ASSUME l.sure
      PROVE  /\ ~l.bulk /\ l.need = 1 /\ l.found # 0 /\ Nonempty(l.best)
             /\ \E q \in Producers : Nonempty(q)
  <2>1. ~l.bulk /\ l.need = 1 /\ Scores(l) /\ \E q \in Producers : Nonempty(q)
    BY <1>1, <1>3, <1>5 DEF Sure
  <2>2. l.found > 0
    BY <1>3, <1>4, <2>1, AmongEmpty DEF Scores
  <2>3. l.size > 0
    BY <1>1, <1>3, <2>2 DEF Knows
  <2>4. QED
    BY <1>3, <1>4, <2>1, <2>2, <2>3 DEF Scores
<1>6. CASE l.found = 0
  BY <1>1, <1>2, <1>3, <1>5, <1>6, IdleSure DEF GoesOn
<1>7. CASE l.found # 0
  <2>1. /\ r.pc = "dequeue" /\ r.from = l.best /\ r.need = l.need
        /\ r.bulk = l.bulk /\ r.sure = l.sure
    BY <1>2, <1>7 DEF Locals
  <2>2. Sure(r)
    BY <1>5, <2>1 DEF Sure, Sums, Scores, Dequeues
  <2>3. QED
    BY <1>3, <2>1, <2>2 DEF GoesOn
<1>8. QED
  BY <1>6, <1>7

(* A call that was sure of an item never gets here.                        *)
LEMMA NextProducerPolls ==
    ASSUME IInv, PollInv, ~blocking, NextProducer(GameThread)
    PROVE  \E r : GoesOn(r)
<1>1. PICK l \in Locals : l = con[GameThread] /\ Knows(l) /\ Sure(l)
  BY PollLocal
<1>2. PICK r : r = IF l.todo = <<>> THEN Idle
                   ELSE IF Head(l.todo) = l.best THEN [l EXCEPT !.todo = Tail(@)]
                   ELSE [l EXCEPT !.pc = "dequeue", !.todo = Tail(@), !.from = Head(l.todo)]
  OBVIOUS
<1>3. Local(GameThread, r) /\ l.pc = "next"
  BY <1>1, <1>2 DEF NextProducer, Retry
<1>4. l.sure = FALSE
  BY <1>1, <1>3 DEF Sure, Locals
<1>5. r.sure = FALSE
  BY <1>2, <1>4, IdleSure DEF Locals
<1>6. QED
  BY <1>1, <1>3, <1>4, <1>5 DEF GoesOn, Sure

LEMMA LookPolls ==
    ASSUME IInv, PollInv, ~blocking, Look(GameThread)
    PROVE  \E r : GoesOn(r)
<1>1. PICK l \in Locals : l = con[GameThread] /\ Knows(l) /\ Sure(l)
  BY PollLocal
<1>2. l.pc = "dequeue" /\ l.from \in Producers
  BY <1>1 DEF Look, Knows
<1>3. PICK p \in Producers : p = l.from
  BY <1>2
<1>4. PICK n : n = There(p, optimistic[p] - overcommit[p], l.need)
  OBVIOUS
<1>5. CASE ~l.sure
  <2>1. PICK r : r = IF n = 0 THEN Failed(GameThread)
                     ELSE [l EXCEPT !.pc = "add", !.want = n, !.over = overcommit[p]]
    OBVIOUS
  <2>2. Local(GameThread, r)
    BY <1>1, <1>3, <1>4, <2>1 DEF Look
  <2>3. r.sure = l.sure
    BY <1>1, <2>1 DEF Failed, Locals
  <2>4. QED
    BY <1>1, <1>5, <2>2, <2>3 DEF GoesOn, Sure
<1>6. CASE l.sure
  <2>1. /\ ~l.bulk /\ l.need = 1 /\ Nonempty(p) /\ \E q \in Producers : Nonempty(q)
    BY <1>1, <1>2, <1>3, <1>6 DEF Sure, Dequeues
  <2>2. /\ head[p] \in Nat /\ tail[p] \in Nat /\ overcommit[p] \in Nat
        /\ optimistic[p] = head[p] + overcommit[p]
    BY <1>1, <1>2, LoneCounters DEF PollInv, Busy
  <2>3. n = 1
    BY <1>4, <2>1, <2>2 DEF There, SmallerOf, Nonempty
  <2>4. PICK r : r = [l EXCEPT !.pc = "add", !.want = n, !.over = overcommit[p]]
    OBVIOUS
  <2>5. Local(GameThread, r)
    <3>1. n # 0
      BY <2>3
    <3>2. QED
      BY <1>1, <1>3, <1>4, <2>4, <3>1 DEF Look
  <2>6. /\ r.pc = "add" /\ r.from = p /\ r.over = overcommit[p] /\ r.need = l.need
        /\ r.bulk = l.bulk /\ r.sure = l.sure
    BY <1>3, <2>4 DEF Locals
  <2>7. Sure(r)
    BY <2>1, <2>6 DEF Sure, Sums, Scores, Dequeues
  <2>8. QED
    BY <2>5, <2>6, <2>7 DEF GoesOn
<1>7. QED
  BY <1>5, <1>6

LEMMA AddOptimisticPolls ==
    ASSUME IInv, PollInv, ~blocking, AddOptimistic(GameThread)
    PROVE  \E r : GoesOn(r)
<1>1. PICK l \in Locals : l = con[GameThread] /\ Knows(l) /\ Sure(l)
  BY PollLocal
<1>2. l.pc = "add" /\ l.from \in Producers
  BY <1>1 DEF AddOptimistic, Knows
<1>3. PICK p \in Producers : p = l.from
  BY <1>2
<1>4. PICK r : r = [l EXCEPT !.pc = "check", !.mine = optimistic[p]]
  OBVIOUS
<1>5. Local(GameThread, r)
  BY <1>1, <1>3, <1>4 DEF AddOptimistic
<1>6. /\ r.pc = "check" /\ r.from = p /\ r.over = l.over /\ r.mine = optimistic[p]
      /\ r.need = l.need /\ r.bulk = l.bulk /\ r.sure = l.sure
  BY <1>3, <1>4 DEF Locals
<1>7. Sure(r)
  <2>1. SUFFICES ASSUME l.sure PROVE Sure(r)
    BY <1>6 DEF Sure
  <2>2. /\ ~l.bulk /\ l.need = 1 /\ \E q \in Producers : Nonempty(q)
        /\ Nonempty(p) /\ l.over = overcommit[p]
    BY <1>1, <1>2, <1>3, <2>1 DEF Sure, Dequeues
  <2>3. /\ head[p] \in Nat /\ overcommit[p] \in Nat
        /\ optimistic[p] = head[p] + overcommit[p]
    BY <1>1, <1>2, LoneCounters DEF PollInv, Busy
  <2>4. r.mine - r.over = head[p]
    BY <1>6, <2>2, <2>3
  <2>5. QED
    BY <1>6, <2>2, <2>4 DEF Sure, Sums, Scores, Dequeues
<1>8. QED
  BY <1>5, <1>6, <1>7 DEF GoesOn

LEMMA AddOvercommitPolls ==
    ASSUME IInv, PollInv, ~blocking, AddOvercommit(GameThread)
    PROVE  \E r : GoesOn(r) /\ r.pc # "add"
<1>1. PICK l \in Locals : l = con[GameThread] /\ Knows(l) /\ Sure(l)
  BY PollLocal
<1>2. l.pc = "check" /\ l.from \in Producers /\ l.want \in 1 .. l.need
  BY <1>1 DEF AddOvercommit, Knows
<1>3. PICK p \in Producers : p = l.from
  BY <1>2
<1>4. PICK n : n = There(p, l.mine - l.over, l.want)
  OBVIOUS
<1>5. CASE ~l.sure
  <2>1. PICK r : r = IF n = 0 THEN Failed(GameThread)
                     ELSE [l EXCEPT !.pc = "claim", !.want = n]
    OBVIOUS
  <2>2. Local(GameThread, r)
    BY <1>1, <1>3, <1>4, <2>1 DEF AddOvercommit
  <2>3. r.sure = l.sure /\ r.pc \in {"others", "next", "claim"}
    BY <1>1, <2>1 DEF Failed, Locals
  <2>4. QED
    BY <1>1, <1>5, <2>2, <2>3 DEF GoesOn, Sure
<1>6. CASE l.sure
  <2>1. /\ ~l.bulk /\ l.need = 1 /\ \E q \in Producers : Nonempty(q)
        /\ Nonempty(p) /\ l.mine - l.over = head[p]
    BY <1>1, <1>2, <1>3, <1>6 DEF Sure, Dequeues
  <2>2. head[p] \in Nat /\ tail[p] \in Nat /\ l.want = 1
    BY <1>2, <2>1, QueueAssumption DEF IInv, QueueTypeOK
  <2>3. n = 1
    BY <1>4, <2>1, <2>2 DEF There, SmallerOf, Nonempty
  <2>4. PICK r : r = [l EXCEPT !.pc = "claim", !.want = n]
    OBVIOUS
  <2>5. Local(GameThread, r)
    <3>1. n # 0
      BY <2>3
    <3>2. QED
      BY <1>1, <1>3, <1>4, <2>4, <3>1 DEF AddOvercommit
  <2>6. /\ r.pc = "claim" /\ r.from = p /\ r.need = l.need
        /\ r.bulk = l.bulk /\ r.sure = l.sure
    BY <1>3, <2>4 DEF Locals
  <2>7. Sure(r)
    BY <2>1, <2>6 DEF Sure, Sums, Scores, Dequeues
  <2>8. QED
    BY <2>5, <2>6, <2>7 DEF GoesOn
<1>7. QED
  BY <1>5, <1>6

LEMMA ClaimPolls ==
    ASSUME IInv, PollInv, ~blocking, Claim(GameThread)
    PROVE  /\ \E r : Local(GameThread, r) /\ ~r.sure
           /\ got' \in [Consumers -> Seq(Producers \X Nat)] /\ got'[GameThread] # <<>>
<1>1. PICK l \in Locals : l = con[GameThread] /\ Knows(l) /\ Sure(l)
  BY PollLocal
<1>2. l.pc = "claim" /\ l.from \in Producers /\ l.want \in 1 .. l.need
  BY <1>1 DEF Claim, Knows
<1>3. PICK p \in Producers : p = l.from
  BY <1>2
<1>4. PICK n : n = l.want
  OBVIOUS
<1>5. n \in Nat /\ n >= 1 /\ l.need \in Nat /\ head[p] \in Nat
  BY <1>2, <1>4, QueueAssumption DEF IInv, QueueTypeOK, Locals
<1>6. \E r : Local(GameThread, r) /\ ~r.sure
  <2>1. PICK left : left = l.need - n
    OBVIOUS
  <2>2. PICK r : r = IF left = 0 THEN Idle
                     ELSE [l EXCEPT !.pc = "next", !.need = left, !.from = Null,
                                    !.want = 0, !.over = 0, !.mine = 0]
    OBVIOUS
  <2>3. Local(GameThread, r)
    BY <1>1, <1>4, <2>1, <2>2 DEF Claim
  <2>4. CASE left = 0
    BY <2>2, <2>3, <2>4, IdleSure
  <2>5. CASE left # 0
    <3>1. ~l.sure
      <4>1. ASSUME l.sure PROVE l.need = 1
        BY <1>1, <1>2, <4>1 DEF Sure
      <4>2. QED
        BY <1>2, <1>4, <1>5, <2>1, <2>5, <4>1
    <3>2. r.sure = l.sure
      BY <2>2, <2>5 DEF Locals
    <3>3. QED
      BY <2>3, <3>1, <3>2
  <2>6. QED
    BY <2>4, <2>5
<1>7. PICK s : s = [i \in 1 .. n |-> <<p, head[p] + i>>]
  OBVIOUS
<1>8. got' = [got EXCEPT ![GameThread] = got[GameThread] \o s]
  BY <1>1, <1>3, <1>4, <1>7 DEF Claim
<1>9. s \in Seq(Producers \X Nat) /\ Len(s) = n
  <2>1. \A i \in 1 .. n : <<p, head[p] + i>> \in Producers \X Nat
    BY <1>5
  <2>2. QED
    BY <1>5, <1>7, <2>1
<1>10. got \in [Consumers -> Seq(Producers \X Nat)] /\ GameThread \in Consumers
  BY QueueAssumption DEF PollInv
<1>11. got[GameThread] \o s \in Seq(Producers \X Nat) /\ got[GameThread] \o s # <<>>
  BY <1>5, <1>9, <1>10
<1>12. got' \in [Consumers -> Seq(Producers \X Nat)] /\ got'[GameThread] # <<>>
  BY <1>8, <1>10, <1>11
<1>13. QED
  BY <1>6, <1>12

-----------------------------------------------------------------------------
(* The invariant and the property, step by step                            *)

(* A step of another leaves the counters of the consumer's alone, and      *)
(* items that are there stay.                                              *)
LEMMA SureKept ==
    ASSUME QueueTypeOK, NEW l \in Locals, Sure(l), Knows(l),
           UNCHANGED <<head, overcommit>>, tail' \in [Producers -> Nat],
           \A p \in Producers : tail[p] <= tail'[p]
    PROVE  Sure(l)'
<1>1. \A p \in Producers : head[p] \in Nat /\ tail[p] \in Nat /\ tail'[p] \in Nat
  BY QueueAssumption DEF QueueTypeOK
<1>2. \A p : Nonempty(p) => Nonempty(p)'
  BY <1>1 DEF Nonempty
<1>3. \A s : Among(s) => Among(s)'
  BY <1>2 DEF Among
<1>4. SUFFICES ASSUME l.sure, l.pc # "idle" PROVE Sure(l)'
  BY DEF Sure
<1>5. Sums(l) => Sums(l)'
  BY <1>3 DEF Sums
<1>6. Scores(l) => Scores(l)'
  <2>1. SUFFICES ASSUME Scores(l) PROVE Scores(l)'
    OBVIOUS
  <2>2. l.pc \in {"score", "scoreHead"} /\ l.size > 0 => Nonempty(l.best)'
    BY <1>2, <2>1 DEF Scores
  <2>3. l.pc = "score" => l.found > 0 \/ Among(l.todo)'
    BY <1>3, <2>1 DEF Scores
  <2>4. ASSUME l.pc = "scoreHead"
        PROVE  /\ l.seen <= tail'[Head(l.todo)]
               /\ l.found > 0 \/ head[Head(l.todo)] < l.seen \/ Among(Tail(l.todo))'
    <3>1. Head(l.todo) \in Producers /\ l.seen \in Nat
      BY <2>4 DEF Knows, Locals
    <3>2. l.seen <= tail[Head(l.todo)]
      BY <2>1, <2>4 DEF Scores
    <3>3. l.seen <= tail'[Head(l.todo)]
      BY <1>1, <3>1, <3>2
    <3>4. QED
      BY <1>3, <2>1, <2>4, <3>3 DEF Scores
  <2>5. QED
    BY <2>2, <2>3, <2>4 DEF Scores
<1>7. Dequeues(l) => Dequeues(l)'
  BY <1>2 DEF Dequeues
<1>8. QED
  BY <1>2, <1>4, <1>5, <1>6, <1>7 DEF Sure

LEMMA ProducerPolls ==
    ASSUME IInv, PollInv, NEW p \in Producers, Join(p) \/ Enqueue(p) \/ SignalItem(p)
    PROVE  PollInv' /\ UNCHANGED <<blocking, con>>
<1>1. UNCHANGED <<blocking, con, got, head, overcommit>>
  BY DEF Join, Enqueue, SignalItem, dequeueVars
<1>2. /\ QueueTypeOK /\ list \in Seq(Producers)
      /\ \A q \in Producers : tail[q] \in Nat
  BY QueueAssumption DEF IInv, QueueTypeOK
<1>3. tail' \in [Producers -> Nat] /\ \A q \in Producers : tail[q] <= tail'[q]
  <2>1. tail \in [Producers -> Nat]
    BY QueueAssumption DEF IInv, QueueTypeOK
  <2>2. tail' = tail \/ tail' = [tail EXCEPT ![p] = @ + 1]
    BY DEF Join, Enqueue, SignalItem
  <2>3. QED
    BY <1>2, <2>1, <2>2
<1>4. Listed'
  <2>1. CASE Join(p)
    <3>1. list' = <<p>> \o list /\ tail' = tail
      BY <2>1 DEF Join
    <3>2. ASSUME NEW q \in Producers, tail[q] > 0
          PROVE  \E i \in DOMAIN list' : list'[i] = q
      <4>1. PICK i \in DOMAIN list : list[i] = q
        BY <3>2 DEF PollInv, Listed
      <4>2. i + 1 \in DOMAIN list' /\ list'[i + 1] = list[i]
        BY <1>2, <3>1
      <4>3. QED
        BY <4>1, <4>2
    <3>3. QED
      BY <3>1, <3>2 DEF Listed
  <2>2. CASE Enqueue(p)
    <3>1. list' = list /\ p \in ToSet(list) /\ \A q \in Producers \ {p} : tail'[q] = tail[q]
      BY <1>2, <2>2 DEF Enqueue, IInv, QueueTypeOK
    <3>2. \E i \in DOMAIN list : list[i] = p
      BY <3>1 DEF ToSet
    <3>3. QED
      BY <3>1, <3>2 DEF PollInv, Listed
  <2>3. CASE SignalItem(p)
    BY <2>3 DEF SignalItem, PollInv, Listed
  <2>4. QED
    BY <2>1, <2>2, <2>3
<1>5. Lone'
  BY <1>1 DEF PollInv, Lone
<1>6. ASSUME ~blocking PROVE Sure(con[GameThread])'
  <2>1. PICK l \in Locals : l = con[GameThread] /\ Knows(l) /\ Sure(l)
    BY <1>6, PollLocal
  <2>2. Sure(l)'
    BY <1>1, <1>2, <1>3, <2>1, SureKept
  <2>3. con'[GameThread] = l
    BY <1>1, <2>1
  <2>4. QED
    BY <2>2, <2>3 DEF Sure, Sums, Scores, Dequeues, Nonempty, Among
<1>7. QED
  BY <1>1, <1>4, <1>5, <1>6 DEF PollInv

(* What the consumer's own step must keep                                  *)
LEMMA MovedPoll ==
    ASSUME IInv, PollInv, ~blocking, NEW r, Local(GameThread, r), Sure(r)',
           UNCHANGED producerVars, got' \in [Consumers -> Seq(Producers \X Nat)]
    PROVE  PollInv' /\ con'[GameThread] = r
<1>1. con \in [Consumers -> Locals] /\ GameThread \in Consumers
  BY QueueAssumption DEF IInv, QueueTypeOK
<1>2. con'[GameThread] = r /\ \A c \in Consumers \ {GameThread} : con'[c] = con[c]
  BY <1>1 DEF Local
<1>3. Lone' /\ Listed'
  BY <1>2 DEF PollInv, Lone, Listed, producerVars
<1>4. Sure(con[GameThread])'
  BY <1>2 DEF Sure, Sums, Scores, Dequeues, Nonempty, Among
<1>5. QED
  BY <1>2, <1>3, <1>4 DEF PollInv

LEMMA QuietSure ==
    ASSUME NEW r, Sure(r), UNCHANGED <<head, tail>>,
           r.pc # "add" \/ UNCHANGED overcommit
    PROVE  Sure(r)'
BY DEF Sure, Sums, Scores, Dequeues, Nonempty, Among

(* A step of the consumer keeps the invariant, and if it was sure of an    *)
(* item and comes back, it has one.                                        *)
Finds == con[GameThread].sure /\ con[GameThread].pc # "idle" /\ con'[GameThread].pc = "idle"
             => got'[GameThread] # <<>>

LEMMA ConsumerPolls ==
    ASSUME IInv, PollInv, ~blocking, Call(GameThread) \/ Step(GameThread)
    PROVE  PollInv' /\ Finds
<1>1. got \in [Consumers -> Seq(Producers \X Nat)] /\ GameThread \in Consumers
  BY QueueAssumption DEF PollInv
<1>2. ASSUME \E r : GoesOn(r) /\ (r.pc # "add" \/ UNCHANGED overcommit),
             UNCHANGED <<producerVars, head>>,
             got' \in [Consumers -> Seq(Producers \X Nat)]
      PROVE  PollInv' /\ Finds
  <2>1. PICK r : GoesOn(r) /\ (r.pc # "add" \/ UNCHANGED overcommit)
    BY <1>2
  <2>2. Sure(r)'
    BY <1>2, <2>1, QuietSure DEF GoesOn, producerVars
  <2>3. PollInv' /\ con'[GameThread] = r
    BY <1>2, <2>1, <2>2, MovedPoll DEF GoesOn
  <2>4. QED
    BY <2>1, <2>3 DEF GoesOn, Finds
<1>3. CASE Call(GameThread)
  <2>1. GetResult(GameThread)
    BY <1>3 DEF Call, WaitDequeue
  <2>2. UNCHANGED <<producerVars, head, overcommit>> /\ got' = [got EXCEPT ![GameThread] = <<>>]
    BY <2>1 DEF GetResult, dequeueVars
  <2>3. got' \in [Consumers -> Seq(Producers \X Nat)]
    BY <1>1, <2>2
  <2>4. QED
    BY <1>2, <2>1, <2>2, <2>3, GetResultPolls
<1>4. CASE AddOvercommit(GameThread)
  BY <1>1, <1>2, <1>4, AddOvercommitPolls DEF AddOvercommit
<1>5. CASE Claim(GameThread)
  <2>1. PICK r : Local(GameThread, r) /\ ~r.sure
    BY <1>5, ClaimPolls
  <2>2. got' \in [Consumers -> Seq(Producers \X Nat)] /\ got'[GameThread] # <<>>
    BY <1>5, ClaimPolls
  <2>3. UNCHANGED producerVars
    BY <1>5 DEF Claim
  <2>4. Sure(r)'
    BY <2>1 DEF Sure
  <2>5. QED
    BY <2>1, <2>2, <2>3, <2>4, MovedPoll DEF Finds
<1>6. CASE \/ LoadTail(GameThread) \/ AddSize(GameThread) \/ Summed(GameThread)
           \/ LoadList(GameThread) \/ Score(GameThread) \/ Scored(GameThread)
           \/ NextProducer(GameThread) \/ Look(GameThread) \/ AddOptimistic(GameThread)
  <2>1. UNCHANGED <<producerVars, head, overcommit, got>>
    BY <1>6 DEF LoadTail, AddSize, Summed, LoadList, Score, Scored, NextProducer, Look,
       AddOptimistic, dequeueVars
  <2>2. \E r : GoesOn(r)
    BY <1>6, LoadTailPolls, AddSizePolls, SummedPolls, LoadListPolls, ScorePolls,
       ScoredPolls, NextProducerPolls, LookPolls, AddOptimisticPolls
  <2>3. QED
    BY <1>1, <1>2, <2>1, <2>2
<1>7. QED
  BY <1>3, <1>4, <1>5, <1>6 DEF Step

LEMMA InitPoll == QueueInit => PollInv
<1>1. SUFFICES ASSUME QueueInit PROVE PollInv
  OBVIOUS
<1>2. got \in [Consumers -> Seq(Producers \X Nat)] /\ Listed
  BY <1>1 DEF QueueInit, Listed
<1>3. \A c \in Consumers : con[c] = Idle
  BY <1>1 DEF QueueInit
<1>4. Lone /\ Sure(con[GameThread])
  <2>1. GameThread \in Consumers
    BY QueueAssumption
  <2>2. Lone
    BY <1>3 DEF Lone, Idle
  <2>3. QED
    BY <1>3, <2>1, <2>2, IdleSure
<1>5. QED
  BY <1>2, <1>4 DEF PollInv

(* Where consumers block, the invariant says little.                       *)
LEMMA BlockingPoll ==
    ASSUME PollInv, blocking, NEW c \in Consumers, Call(c) \/ Step(c)
    PROVE  PollInv'
<1>1. UNCHANGED <<blocking, list, tail>>
  BY DEF Call, Step, WaitDequeue, GetResult, LoadTail, AddSize, Summed, LoadList, Score,
     Scored, NextProducer, Look, AddOptimistic, AddOvercommit, Claim, producerVars
<1>2. QED
  BY <1>1 DEF PollInv, Listed, Lone

FindsItem(c) ==
    ~blocking /\ con[c].sure /\ con[c].pc # "idle" /\ con'[c].pc = "idle" => got'[c] # <<>>

LEMMA NextPoll ==
    ASSUME IInv, PollInv, [QueueNext]_queueVars
    PROVE  PollInv' /\ \A c \in Consumers : FindsItem(c)
<1>1. ASSUME NEW p \in Producers, Join(p) \/ Enqueue(p) \/ SignalItem(p)
      PROVE  PollInv' /\ \A c \in Consumers : FindsItem(c)
  BY <1>1, ProducerPolls DEF FindsItem
<1>2. ASSUME NEW c \in Consumers, Call(c) \/ Step(c), ~blocking
      PROVE  PollInv' /\ \A d \in Consumers : FindsItem(d)
  <2>1. c = GameThread
    <3>1. CASE Call(c)
      BY <1>2, <3>1 DEF Call, WaitDequeue, GetResult
    <3>2. CASE Step(c)
      <4>1. con[c].pc # "idle"
        BY <3>2 DEF Step, LoadTail, AddSize, Summed, LoadList, Score, Scored,
           NextProducer, Look, AddOptimistic, AddOvercommit, Claim
      <4>2. QED
        BY <1>2, <4>1 DEF PollInv, Lone
    <3>3. QED
      BY <1>2, <3>1, <3>2
  <2>2. PollInv' /\ Finds
    BY <1>2, <2>1, ConsumerPolls
  <2>3. \A d \in Consumers \ {GameThread} : con[d].pc = "idle"
    BY <1>2 DEF PollInv, Lone
  <2>4. QED
    BY <2>2, <2>3 DEF FindsItem, Finds
<1>3. ASSUME NEW c \in Consumers, Call(c) \/ Step(c), blocking
      PROVE  PollInv' /\ \A d \in Consumers : FindsItem(d)
  BY <1>3, BlockingPoll DEF FindsItem
<1>4. CASE UNCHANGED queueVars
  <2>1. UNCHANGED <<blocking, list, tail, head, overcommit, con, got>>
    BY <1>4 DEF queueVars, producerVars, dequeueVars
  <2>2. PollInv'
    BY <2>1 DEF PollInv, Listed, Lone, Sure, Sums, Scores, Dequeues, Nonempty, Among
  <2>3. QED
    BY <2>1, <2>2 DEF FindsItem
<1>5. QED
  BY <1>1, <1>2, <1>3, <1>4 DEF QueueNext

(* A poll that starts when an item is there returns one: a result that is  *)
(* in the queue when RunFrame asks is not put off to a later frame,        *)
(* whatever the query threads enqueue meanwhile (TQueue.h:73-80,           *)
(* concurrentqueue.h:1048-1070).                                           *)
THEOREM PollFindsItem == QueueSpec => LonePollFinds
<1>1. QueueInit => PollInv
  BY InitPoll
<1>2. IInv /\ PollInv /\ [QueueNext]_queueVars => PollInv'
  BY NextPoll
<1>3. IInv /\ PollInv /\ [QueueNext]_queueVars
          => [\A c \in Consumers :
                ~blocking /\ con[c].sure /\ con[c].pc # "idle" /\ con'[c].pc = "idle"
                   => got'[c] # <<>>]_queueVars
  BY NextPoll DEF FindsItem
<1>4. QED
  BY <1>1, <1>2, <1>3, Invariant, PTL DEF QueueSpec, LonePollFinds
=============================================================================

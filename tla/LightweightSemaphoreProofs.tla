---------------------- MODULE LightweightSemaphoreProofs ----------------------
(***************************************************************************)
(* LightweightSemaphore keeps its posts and its sleepers in step and is a  *)
(* counting semaphore, for any finite numbers of waiters and signalers and *)
(* any bounds.                                                             *)
(*                                                                         *)
(* The inductive invariant adds to SemaphoreInv what a call has taken at   *)
(* each of its steps (CallInv).  That a sleeper only takes a permit that   *)
(* exists is PostsMatchWaiters: a post is there for it to take only while  *)
(* fewer are counted in m_count than sleep.                                *)
(***************************************************************************)
EXTENDS LightweightSemaphore, FiniteSetTheorems, TLAPS

CallInv(w) ==
    /\ pc[w] = "idle" => max[w] = 0
    /\ pc[w] # "idle" => max[w] >= 1
    /\ pc[w] \in {"spin", "sleep", "late"} => taken[w] = 0
    /\ pc[w] = "more" => taken[w] = 1
    /\ pc[w] = "return" => taken[w] > 0 \/ ~patient[w]
    /\ pc[w] = "late" => ~patient[w]
    /\ trying[w] => ~patient[w]

IInv == SemaphoreInv /\ \A w \in Waiters : CallInv(w)

-----------------------------------------------------------------------------
(* Counting the waiters and the posts.                                     *)
LEMMA CountedFinite ==
    IsFiniteSet(Counted) /\ Cardinality(Counted) \in Nat
<1>1. Counted \subseteq Waiters
  BY DEF Counted
<1>2. IsFiniteSet(Counted)
  BY <1>1, FS_Subset, SemaphoreAssumption
<1>3. QED
  BY <1>2, FS_CardinalityType

LEMMA PostsFinite ==
    IsFiniteSet(PostsDue) /\ Cardinality(PostsDue) \in Nat
<1>1. IsFiniteSet(1 .. MaxBatch)
  <2>1. 1 \in Int /\ MaxBatch \in Int
    BY SemaphoreAssumption
  <2>2. QED
    BY <2>1, FS_Interval
<1>2. IsFiniteSet(Signalers \X (1 .. MaxBatch))
  BY <1>1, FS_Product, SemaphoreAssumption
<1>3. PostsDue \subseteq Signalers \X (1 .. MaxBatch)
  BY DEF PostsDue
<1>4. IsFiniteSet(PostsDue)
  BY <1>2, <1>3, FS_Subset
<1>5. QED
  BY <1>4, FS_CardinalityType

(* A waiter goes to sleep, is no longer counted, or neither.               *)
LEMMA CountsOneMore ==
    ASSUME NEW w \in Waiters, w \notin Counted,
           Counted' = Counted \cup {w}
    PROVE  Cardinality(Counted') = Cardinality(Counted) + 1
BY CountedFinite, FS_AddElement

LEMMA CountsOneLess ==
    ASSUME NEW w \in Waiters, w \in Counted,
           Counted' = Counted \ {w}
    PROVE  Cardinality(Counted') = Cardinality(Counted) - 1 /\ Cardinality(Counted) >= 1
<1>1. Cardinality(Counted') = Cardinality(Counted) - 1
  BY CountedFinite, FS_RemoveElement
<1>2. Cardinality(Counted') \in Nat
  <2>1. IsFiniteSet(Counted')
    BY CountedFinite, FS_RemoveElement
  <2>2. QED
    BY <2>1, FS_CardinalityType
<1>3. QED
  BY <1>1, <1>2, CountedFinite

LEMMA PcMoves ==
    ASSUME TypeOK, NEW w \in Waiters, NEW to \in PCs, pc' = [pc EXCEPT ![w] = to]
    PROVE  /\ pc' \in [Waiters -> PCs] /\ pc'[w] = to
           /\ \A v \in Waiters \ {w} : pc'[v] = pc[v]
           /\ w \in Counted <=> pc[w] \in {"sleep", "late"}
           /\ Counted' = IF to \in {"sleep", "late"} THEN Counted \cup {w}
                                                     ELSE Counted \ {w}
<1>1. /\ pc' \in [Waiters -> PCs] /\ pc'[w] = to
      /\ \A v \in Waiters \ {w} : pc'[v] = pc[v]
  BY DEF TypeOK
<1>2. w \in Counted <=> pc[w] \in {"sleep", "late"}
  BY DEF Counted
<1>3. Counted' = IF to \in {"sleep", "late"} THEN Counted \cup {w} ELSE Counted \ {w}
  BY <1>1 DEF Counted
<1>4. QED
  BY <1>1, <1>2, <1>3

LEMMA SomePosts ==
    ASSUME NEW s \in Signalers, NEW k \in 0 .. MaxBatch
    PROVE  IsFiniteSet({s} \X (1 .. k)) /\ Cardinality({s} \X (1 .. k)) = k
<1>1. k \in Nat /\ 1 \in Int /\ k \in Int
  BY SemaphoreAssumption
<1>2. IsFiniteSet(1 .. k) /\ Cardinality(1 .. k) = k
  BY <1>1, FS_Interval
<1>3. IsFiniteSet({s}) /\ Cardinality({s}) = 1
  BY FS_Singleton
<1>4. /\ IsFiniteSet({s} \X (1 .. k))
      /\ Cardinality({s} \X (1 .. k)) = Cardinality({s}) * Cardinality(1 .. k)
  BY <1>2, <1>3, FS_Product
<1>5. QED
  BY <1>1, <1>2, <1>3, <1>4

LEMMA SignalPosts ==
    ASSUME TypeOK, NEW s \in Signalers, posting[s] = 0,
           NEW k \in 0 .. MaxBatch, posting' = [posting EXCEPT ![s] = k]
    PROVE  Cardinality(PostsDue') = Cardinality(PostsDue) + k
<1> DEFINE new == {s} \X (1 .. k)
<1>1. /\ \A x \in Signalers : posting'[x] = IF x = s THEN k ELSE posting[x]
      /\ k \in Nat /\ MaxBatch \in Nat
  BY SemaphoreAssumption DEF TypeOK
<1>2. PostsDue' = PostsDue \cup new
  BY <1>1 DEF PostsDue
<1>3. PostsDue \cap new = {}
  BY DEF PostsDue
<1>4. IsFiniteSet(new) /\ Cardinality(new) = k
  BY SomePosts
<1>5. Cardinality(PostsDue \cup new) =
         Cardinality(PostsDue) + Cardinality(new) - Cardinality(PostsDue \cap new)
  BY <1>4, PostsFinite, FS_Union
<1>6. Cardinality(PostsDue \cap new) = 0
  BY <1>3, FS_EmptySet
<1>7. QED
  BY <1>1, <1>2, <1>4, <1>5, <1>6, PostsFinite

LEMMA OnePosted ==
    ASSUME TypeOK, NEW s \in Signalers, posting[s] > 0,
           posting' = [posting EXCEPT ![s] = @ - 1]
    PROVE  Cardinality(PostsDue') = Cardinality(PostsDue) - 1
<1>1. /\ \A x \in Signalers : posting'[x] = IF x = s THEN posting[x] - 1 ELSE posting[x]
      /\ posting \in [Signalers -> 0 .. MaxBatch] /\ MaxBatch \in Nat
  BY SemaphoreAssumption DEF TypeOK
<1>2. PICK p : p = posting[s] /\ p \in 1 .. MaxBatch
  BY <1>1
<1>3. <<s, p>> \in PostsDue
  BY <1>2 DEF PostsDue
<1>4. PostsDue' = PostsDue \ {<<s, p>>}
  <2>1. \A x \in Signalers, i \in 1 .. MaxBatch :
           i <= posting'[x] <=> i <= posting[x] /\ <<x, i>> # <<s, p>>
    BY <1>1, <1>2
  <2>2. QED
    BY <2>1 DEF PostsDue
<1>5. QED
  BY <1>3, <1>4, PostsFinite, FS_RemoveElement

LEMMA PostsKept ==
    ASSUME UNCHANGED posting
    PROVE  PostsDue' = PostsDue
BY DEF PostsDue

LEMMA PcKept ==
    ASSUME UNCHANGED pc
    PROVE  Counted' = Counted
BY DEF Counted

-----------------------------------------------------------------------------
(* A waiter moves: it was and stays counted or uncounted ...               *)
LEMMA MovesAlike ==
    ASSUME TypeOK, NEW w \in Waiters, NEW to \in PCs,
           pc' = [pc EXCEPT ![w] = to],
           pc[w] \in {"sleep", "late"} <=> to \in {"sleep", "late"}
    PROVE  Counted' = Counted
<1>1. w \in Counted <=> to \in {"sleep", "late"}
  BY PcMoves
<1>2. CASE to \in {"sleep", "late"}
  <2>1. Counted' = Counted \cup {w}
    BY <1>2, PcMoves
  <2>2. QED
    BY <1>1, <1>2, <2>1
<1>3. CASE to \notin {"sleep", "late"}
  <2>1. Counted' = Counted \ {w}
    BY <1>3, PcMoves
  <2>2. QED
    BY <1>1, <1>3, <2>1
<1>4. QED
  BY <1>2, <1>3

(* ... it begins to be counted ...                                         *)
LEMMA FallsAsleep ==
    ASSUME TypeOK, NEW w \in Waiters,
           pc[w] = "spin", pc' = [pc EXCEPT ![w] = "sleep"]
    PROVE  Cardinality(Counted') = Cardinality(Counted) + 1
<1>1. "sleep" \in PCs
  BY DEF PCs
<1>2. w \notin Counted /\ Counted' = Counted \cup {w}
  BY <1>1, PcMoves
<1>3. QED
  BY <1>2, CountsOneMore

(* ... or is counted no longer.                                            *)
LEMMA WakesUp ==
    ASSUME TypeOK, NEW w \in Waiters,
           pc[w] \in {"sleep", "late"}, NEW to \in {"more", "return"},
           pc' = [pc EXCEPT ![w] = to]
    PROVE  Cardinality(Counted') = Cardinality(Counted) - 1 /\ Cardinality(Counted) >= 1
<1>1. to \in PCs
  BY DEF PCs
<1>2. w \in Counted /\ Counted' = Counted \ {w}
  BY <1>1, PcMoves
<1>3. QED
  BY <1>2, CountsOneLess

-----------------------------------------------------------------------------
(* What every action does to the waiters that are counted and to the posts *)
(* that are due.                                                           *)
LEMMA TakeManyCounts ==
    ASSUME TypeOK, NEW w \in Waiters, NEW wanted,
           pc[w] \in {"spin", "more"}, TakeMany(w, wanted, "return")
    PROVE  Counted' = Counted /\ PostsDue' = PostsDue
<1>1. "return" \in PCs
  BY DEF PCs
<1>2. Counted' = Counted
  BY <1>1, MovesAlike DEF TakeMany
<1>3. QED
  BY <1>2, PostsKept DEF TakeMany

(* The waiters beyond those counted in m_count                             *)
Asleep == IF count < 0 THEN count ELSE 0

LEMMA MatchHolds ==
    ASSUME PostsMatchWaiters, UNCHANGED sema, Counted' = Counted,
           PostsDue' = PostsDue, Asleep' = Asleep
    PROVE  PostsMatchWaiters'
BY DEF PostsMatchWaiters, Asleep

LEMMA TakeManyMatch ==
    ASSUME TypeOK, PostsMatchWaiters, NEW w \in Waiters,
           NEW wanted \in 0 .. MaxBatch,
           pc[w] \in {"spin", "more"}, TakeMany(w, wanted, "return")
    PROVE  PostsMatchWaiters'
<1>1. Counted' = Counted /\ PostsDue' = PostsDue
  BY TakeManyCounts
<1>2. Asleep' = Asleep
  BY SemaphoreAssumption DEF Asleep, TakeMany, TypeOK
<1>3. QED
  BY <1>1, <1>2, MatchHolds DEF TakeMany

LEMMA TakePostMatch ==
    ASSUME TypeOK, PostsMatchWaiters, NEW w \in Waiters,
           pc[w] \in {"sleep", "late"}, TakePost(w)
    PROVE  PostsMatchWaiters' /\ Cardinality(Counted') = Cardinality(Counted) - 1
<1>1. Cardinality(Counted') = Cardinality(Counted) - 1
  BY WakesUp DEF TakePost
<1>2. PostsDue' = PostsDue /\ UNCHANGED count /\ sema' = sema - 1
  BY PostsKept DEF TakePost
<1>3. sema \in Nat /\ count \in Int
  BY DEF TypeOK
<1>4. QED
  BY <1>1, <1>2, <1>3, CountedFinite, PostsFinite DEF PostsMatchWaiters

(* The posts and the waiters stay in step.                                 *)
LEMMA NextMatch ==
    ASSUME IInv, Next
    PROVE  PostsMatchWaiters'
<1> USE DEF IInv, SemaphoreInv
<1>1. \A to \in {"idle", "spin", "late", "more", "return"} : to \in PCs
  BY DEF PCs
<1>2. ASSUME NEW w \in Waiters, Wait(w) \/ TryFails(w) \/ TimesOut(w) \/ Return(w)
      PROVE  PostsMatchWaiters'
  <2>1. Counted' = Counted
    <3>1. CASE Wait(w)
      BY <1>1, <3>1, MovesAlike DEF Wait
    <3>2. CASE TryFails(w)
      BY <1>1, <3>2, MovesAlike DEF TryFails
    <3>3. CASE TimesOut(w)
      BY <1>1, <3>3, MovesAlike DEF TimesOut
    <3>4. CASE Return(w)
      BY <1>1, <3>4, MovesAlike DEF Return
    <3>5. QED
      BY <1>2, <3>1, <3>2, <3>3, <3>4
  <2>2. UNCHANGED <<count, sema, posting>>
    BY <1>2 DEF Wait, TryFails, TimesOut, Return
  <2>3. QED
    BY <2>1, <2>2, PostsKept, MatchHolds DEF Asleep
<1>3. ASSUME NEW w \in Waiters, Spin(w)
      PROVE  PostsMatchWaiters'
  <2>1. max[w] \in 0 .. MaxBatch
    BY DEF TypeOK
  <2>2. QED
    BY <1>3, <2>1, TakeManyMatch DEF Spin
<1>4. ASSUME NEW w \in Waiters, FetchSub(w)
      PROVE  PostsMatchWaiters'
  <2>1. count \in Int /\ UNCHANGED <<sema, posting>> /\ count' = count - 1
    BY <1>4 DEF FetchSub, TypeOK
  <2>2. CASE count > 0
    <3>1. Counted' = Counted
      BY <1>1, <1>4, <2>2, MovesAlike DEF FetchSub
    <3>2. Asleep' = Asleep
      BY <2>1, <2>2 DEF Asleep
    <3>3. QED
      BY <2>1, <3>1, <3>2, PostsKept, MatchHolds
  <2>3. CASE ~(count > 0)
    <3>1. Cardinality(Counted') = Cardinality(Counted) + 1
      BY <1>4, <2>3, FallsAsleep DEF FetchSub
    <3>2. PostsDue' = PostsDue /\ sema \in Nat
      BY <2>1, PostsKept DEF TypeOK
    <3>3. QED
      BY <2>1, <2>3, <3>1, <3>2, CountedFinite, PostsFinite DEF PostsMatchWaiters
  <2>4. QED
    BY <2>2, <2>3
<1>5. ASSUME NEW w \in Waiters, Wake(w) \/ LateTake(w)
      PROVE  PostsMatchWaiters'
  BY <1>5, TakePostMatch DEF Wake, LateTake
<1>6. ASSUME NEW w \in Waiters, LateLeave(w)
      PROVE  PostsMatchWaiters'
  <2>1. Cardinality(Counted') = Cardinality(Counted) - 1
    BY <1>6, WakesUp DEF LateLeave
  <2>2. /\ UNCHANGED <<sema, posting>> /\ count' = count + 1 /\ count < 0
        /\ count \in Int /\ sema \in Nat
    BY <1>6 DEF LateLeave, TypeOK
  <2>3. PostsDue' = PostsDue
    BY <2>2, PostsKept
  <2>4. QED
    BY <2>1, <2>2, <2>3, CountedFinite, PostsFinite DEF PostsMatchWaiters
<1>7. ASSUME NEW w \in Waiters, LateAgain(w)
      PROVE  PostsMatchWaiters'
  <2>1. UNCHANGED <<count, sema, pc, posting>>
    BY <1>7 DEF LateAgain
  <2>2. QED
    BY <2>1, PcKept, PostsKept, MatchHolds DEF Asleep
<1>8. ASSUME NEW w \in Waiters, More(w)
      PROVE  PostsMatchWaiters'
  <2>1. CASE max[w] > 1 /\ count > 0
    <3>1. max[w] - 1 \in 0 .. MaxBatch
      BY <2>1, SemaphoreAssumption DEF TypeOK
    <3>2. pc[w] \in {"spin", "more"} /\ TakeMany(w, max[w] - 1, "return")
      BY <1>8, <2>1 DEF More
    <3>3. QED
      BY <3>1, <3>2, TakeManyMatch
  <2>2. CASE ~(max[w] > 1 /\ count > 0)
    <3>1. /\ pc[w] = "more" /\ pc' = [pc EXCEPT ![w] = "return"]
          /\ UNCHANGED <<count, sema, posting>>
      BY <1>8, <2>2 DEF More
    <3>2. Counted' = Counted
      BY <1>1, <3>1, MovesAlike
    <3>3. QED
      BY <3>1, <3>2, PostsKept, MatchHolds DEF Asleep
  <2>3. QED
    BY <2>1, <2>2
<1>9. ASSUME NEW s \in Signalers, Signal(s)
      PROVE  PostsMatchWaiters'
  <2>1. PICK n \in 1 .. MaxBatch :
           /\ count' = count + n
           /\ posting' = [posting EXCEPT ![s] = IF LesserOf(-count, n) > 0
                                                THEN LesserOf(-count, n) ELSE 0]
    BY <1>9 DEF Signal
  <2>2. PICK k : k = IF LesserOf(-count, n) > 0 THEN LesserOf(-count, n) ELSE 0
    OBVIOUS
  <2>3. count \in Int /\ sema \in Nat /\ MaxBatch \in Nat /\ n \in Nat /\ n >= 1
    BY <2>1, SemaphoreAssumption DEF TypeOK
  <2>4. k \in 0 .. MaxBatch
    BY <2>1, <2>2, <2>3 DEF LesserOf
  <2>5. UNCHANGED <<sema, pc>> /\ posting[s] = 0
    BY <1>9 DEF Signal
  <2>6. posting' = [posting EXCEPT ![s] = k]
    BY <2>1, <2>2
  <2>7. Cardinality(PostsDue') = Cardinality(PostsDue) + k
    BY <2>4, <2>5, <2>6, SignalPosts
  <2>8. Counted' = Counted
    BY <2>5, PcKept
  <2>9. k = (IF count' < 0 THEN count' ELSE 0) - (IF count < 0 THEN count ELSE 0)
    BY <2>1, <2>2, <2>3 DEF LesserOf
  <2>10. QED
    BY <2>1, <2>3, <2>4, <2>5, <2>7, <2>8, <2>9, CountedFinite, PostsFinite
       DEF PostsMatchWaiters
<1>10. ASSUME NEW s \in Signalers, Post(s)
       PROVE  PostsMatchWaiters'
  <2>1. Cardinality(PostsDue') = Cardinality(PostsDue) - 1
    BY <1>10, OnePosted DEF Post
  <2>2. UNCHANGED <<count, pc>> /\ sema' = sema + 1 /\ sema \in Nat /\ count \in Int
    BY <1>10 DEF Post, TypeOK
  <2>3. Counted' = Counted
    BY <2>2, PcKept
  <2>4. QED
    BY <2>1, <2>2, <2>3, CountedFinite, PostsFinite DEF PostsMatchWaiters
<1>11. QED
  BY <1>2, <1>3, <1>4, <1>5, <1>6, <1>7, <1>8, <1>9, <1>10 DEF Next, Waiting

-----------------------------------------------------------------------------
(* The types and what a call has taken, action by action                   *)
LEMMA TakeManyTypes ==
    ASSUME IInv, NEW w \in Waiters, NEW wanted \in Nat,
           pc[w] \in {"spin", "more"}, taken[w] + wanted <= max[w], wanted >= 1,
           TakeMany(w, wanted, "return")
    PROVE  TypeOK' /\ \A v \in Waiters : CallInv(v)'
<1> USE DEF IInv, SemaphoreInv
<1> DEFINE n == LesserOf(count, wanted)
<1>1. /\ count > 0 /\ count' \in Int
      /\ UNCHANGED <<sema, seen, posting, max, patient, trying>>
      /\ taken' = [taken EXCEPT ![w] = taken[w] + n]
      /\ pc' = [pc EXCEPT ![w] = "return"]
  BY DEF TakeMany, callVars, TypeOK
<1>2. n \in 1 .. wanted /\ max[w] \in 0 .. MaxBatch /\ taken[w] \in Nat /\ MaxBatch \in Nat
  BY <1>1, SemaphoreAssumption DEF LesserOf, TypeOK
<1>3. taken[w] + n \in 1 .. MaxBatch /\ taken[w] + n <= max[w]
  <2> HIDE DEF n
  <2>1. QED
    BY <1>2
<1> HIDE DEF n
<1>4. /\ pc' \in [Waiters -> PCs] /\ pc'[w] = "return"
      /\ \A v \in Waiters \ {w} : pc'[v] = pc[v]
  BY <1>1 DEF TypeOK, PCs
<1>5. /\ taken' \in [Waiters -> 0 .. MaxBatch] /\ taken'[w] = taken[w] + n
      /\ \A v \in Waiters \ {w} : taken'[v] = taken[v]
  BY <1>1, <1>3, <1>2 DEF TypeOK
<1>6. TypeOK'
  BY <1>1, <1>3, <1>4, <1>5 DEF TypeOK
<1>7. CallInv(w)'
  BY <1>1, <1>2, <1>3, <1>4, <1>5 DEF CallInv
<1>8. ASSUME NEW v \in Waiters \ {w} PROVE CallInv(v)'
  BY <1>1, <1>4, <1>5 DEF CallInv
<1>9. QED
  BY <1>6, <1>7, <1>8

LEMMA TakePostTypes ==
    ASSUME IInv, NEW w \in Waiters,
           pc[w] \in {"sleep", "late"}, TakePost(w)
    PROVE  TypeOK' /\ \A v \in Waiters : CallInv(v)'
<1> USE DEF IInv, SemaphoreInv
<1>1. /\ sema' \in Nat /\ UNCHANGED <<count, seen, posting, max, patient, trying>>
      /\ taken' = [taken EXCEPT ![w] = 1] /\ pc' = [pc EXCEPT ![w] = "more"]
  BY DEF TakePost, callVars, TypeOK
<1>2. max[w] >= 1 /\ 1 \in 0 .. MaxBatch
  BY SemaphoreAssumption DEF CallInv
<1>3. /\ pc' \in [Waiters -> PCs] /\ pc'[w] = "more"
      /\ \A v \in Waiters \ {w} : pc'[v] = pc[v]
  BY <1>1 DEF TypeOK, PCs
<1>4. /\ taken' \in [Waiters -> 0 .. MaxBatch] /\ taken'[w] = 1
      /\ \A v \in Waiters \ {w} : taken'[v] = taken[v]
  BY <1>1, <1>2 DEF TypeOK
<1>5. TypeOK'
  BY <1>1, <1>2, <1>3, <1>4 DEF TypeOK
<1>6. CallInv(w)'
  BY <1>1, <1>2, <1>3, <1>4 DEF CallInv
<1>7. ASSUME NEW v \in Waiters \ {w} PROVE CallInv(v)'
  BY <1>1, <1>3, <1>4 DEF CallInv
<1>8. QED
  BY <1>5, <1>6, <1>7

(* A step of waiter w that takes no permit                                 *)
LEMMA MoveTypes ==
    ASSUME IInv, NEW w \in Waiters, pc[w] # "idle",
           NEW to \in PCs \ {"idle", "more"}, pc' = [pc EXCEPT ![w] = to],
           to \in {"spin", "sleep", "late"} => taken[w] = 0,
           to = "return" => taken[w] > 0 \/ ~patient[w],
           to = "late" => ~patient[w],
           count' \in Int, seen' \in [Waiters -> Int],
           UNCHANGED <<sema, posting, max, patient, trying, taken>>
    PROVE  TypeOK' /\ \A v \in Waiters : CallInv(v)'
<1> USE DEF IInv, SemaphoreInv
<1>1. /\ pc' \in [Waiters -> PCs] /\ pc'[w] = to
      /\ \A v \in Waiters \ {w} : pc'[v] = pc[v]
  BY DEF TypeOK
<1>2. TypeOK'
  BY <1>1 DEF TypeOK
<1>3. CallInv(w)'
  BY <1>1 DEF CallInv
<1>4. ASSUME NEW v \in Waiters \ {w} PROVE CallInv(v)'
  BY <1>1 DEF CallInv
<1>5. QED
  BY <1>2, <1>3, <1>4

LEMMA WaitTypes ==
    ASSUME IInv, NEW w \in Waiters, Wait(w)
    PROVE  TypeOK' /\ \A v \in Waiters : CallInv(v)'
<1> USE DEF IInv, SemaphoreInv
<1>1. PICK m \in 1 .. MaxBatch : max' = [max EXCEPT ![w] = m]
  BY DEF Wait
<1>2. PICK p \in BOOLEAN, try \in BOOLEAN :
         /\ p => ~try
         /\ patient' = [patient EXCEPT ![w] = p]
         /\ trying' = [trying EXCEPT ![w] = try]
  BY DEF Wait
<1>3. /\ pc' = [pc EXCEPT ![w] = "spin"] /\ taken' = [taken EXCEPT ![w] = 0]
      /\ UNCHANGED <<count, sema, seen, posting>>
  BY DEF Wait
<1>4. /\ pc' \in [Waiters -> PCs] /\ pc'[w] = "spin"
      /\ \A v \in Waiters \ {w} : pc'[v] = pc[v]
  BY <1>3 DEF TypeOK, PCs
<1>5. /\ max' \in [Waiters -> 0 .. MaxBatch] /\ max'[w] = m
      /\ \A v \in Waiters \ {w} : max'[v] = max[v]
  BY <1>1 DEF TypeOK
<1>6. /\ taken' \in [Waiters -> 0 .. MaxBatch] /\ taken'[w] = 0
      /\ \A v \in Waiters \ {w} : taken'[v] = taken[v]
  BY <1>3, SemaphoreAssumption DEF TypeOK
<1>7. /\ patient' \in [Waiters -> BOOLEAN] /\ patient'[w] = p
      /\ \A v \in Waiters \ {w} : patient'[v] = patient[v]
  BY <1>2 DEF TypeOK
<1>8. /\ trying' \in [Waiters -> BOOLEAN] /\ trying'[w] = try
      /\ \A v \in Waiters \ {w} : trying'[v] = trying[v]
  BY <1>2 DEF TypeOK
<1>9. TypeOK'
  BY <1>3, <1>4, <1>5, <1>6, <1>7, <1>8 DEF TypeOK
<1>10. CallInv(w)'
  BY <1>2, <1>4, <1>5, <1>6, <1>7, <1>8 DEF CallInv
<1>11. ASSUME NEW v \in Waiters \ {w} PROVE CallInv(v)'
  BY <1>4, <1>5, <1>6, <1>7, <1>8 DEF CallInv
<1>12. QED
  BY <1>9, <1>10, <1>11

LEMMA ReturnTypes ==
    ASSUME IInv, NEW w \in Waiters, Return(w)
    PROVE  TypeOK' /\ \A v \in Waiters : CallInv(v)'
<1> USE DEF IInv, SemaphoreInv
<1>1. /\ pc' = [pc EXCEPT ![w] = "idle"] /\ max' = [max EXCEPT ![w] = 0]
      /\ UNCHANGED <<count, sema, seen, posting, patient, trying, taken>>
  BY DEF Return
<1>2. /\ pc' \in [Waiters -> PCs] /\ pc'[w] = "idle"
      /\ \A v \in Waiters \ {w} : pc'[v] = pc[v]
  BY <1>1 DEF TypeOK, PCs
<1>3. /\ max' \in [Waiters -> 0 .. MaxBatch] /\ max'[w] = 0
      /\ \A v \in Waiters \ {w} : max'[v] = max[v]
  BY <1>1, SemaphoreAssumption DEF TypeOK
<1>4. TypeOK'
  BY <1>1, <1>2, <1>3 DEF TypeOK
<1>5. CallInv(w)'
  BY <1>1, <1>2, <1>3 DEF CallInv
<1>6. ASSUME NEW v \in Waiters \ {w} PROVE CallInv(v)'
  BY <1>1, <1>2, <1>3 DEF CallInv
<1>7. QED
  BY <1>4, <1>5, <1>6

LEMMA NextTypes ==
    ASSUME IInv, Next
    PROVE  TypeOK' /\ \A v \in Waiters : CallInv(v)'
<1> USE DEF IInv, SemaphoreInv
<1>1. ASSUME NEW w \in Waiters, Wait(w) \/ Return(w)
      PROVE  TypeOK' /\ \A v \in Waiters : CallInv(v)'
  BY <1>1, WaitTypes, ReturnTypes
<1>2. ASSUME NEW w \in Waiters, Spin(w)
      PROVE  TypeOK' /\ \A v \in Waiters : CallInv(v)'
  <2>1. max[w] \in Nat /\ max[w] >= 1 /\ taken[w] + max[w] <= max[w] /\ pc[w] = "spin"
    BY <1>2, SemaphoreAssumption DEF Spin, TypeOK, CallInv
  <2>2. QED
    BY <1>2, <2>1, TakeManyTypes DEF Spin
<1>3. ASSUME NEW w \in Waiters, TryFails(w)
      PROVE  TypeOK' /\ \A v \in Waiters : CallInv(v)'
  <2>1. /\ pc[w] = "spin" /\ pc' = [pc EXCEPT ![w] = "return"] /\ ~patient[w]
        /\ UNCHANGED <<count, sema, seen, posting, max, patient, trying, taken>>
    BY <1>3 DEF TryFails, callVars, CallInv
  <2>2. "return" \in PCs \ {"idle", "more"} /\ count \in Int /\ seen \in [Waiters -> Int]
    BY DEF PCs, TypeOK
  <2>3. QED
    BY <2>1, <2>2, MoveTypes
<1>4. ASSUME NEW w \in Waiters, FetchSub(w)
      PROVE  TypeOK' /\ \A v \in Waiters : CallInv(v)'
  <2>1. /\ pc[w] = "spin" /\ count' \in Int /\ seen \in [Waiters -> Int]
        /\ UNCHANGED <<sema, seen, posting, max, patient, trying>>
    BY <1>4 DEF FetchSub, callVars, TypeOK
  <2>2. taken[w] = 0 /\ max[w] >= 1
    BY <2>1 DEF CallInv
  <2>3. CASE count > 0
    <3>1. taken' = [taken EXCEPT ![w] = 1] /\ pc' = [pc EXCEPT ![w] = "more"]
      BY <1>4, <2>3 DEF FetchSub
    <3>2. /\ pc' \in [Waiters -> PCs] /\ pc'[w] = "more"
          /\ \A v \in Waiters \ {w} : pc'[v] = pc[v]
      BY <3>1 DEF TypeOK, PCs
    <3>3. /\ taken' \in [Waiters -> 0 .. MaxBatch] /\ taken'[w] = 1
          /\ \A v \in Waiters \ {w} : taken'[v] = taken[v]
      BY <3>1, SemaphoreAssumption DEF TypeOK
    <3>4. TypeOK'
      BY <2>1, <2>2, <3>2, <3>3 DEF TypeOK
    <3>5. CallInv(w)'
      BY <2>1, <2>2, <3>2, <3>3 DEF CallInv
    <3>6. ASSUME NEW v \in Waiters \ {w} PROVE CallInv(v)'
      BY <2>1, <3>2, <3>3 DEF CallInv
    <3>7. QED
      BY <3>4, <3>5, <3>6
  <2>4. CASE ~(count > 0)
    <3>1. pc' = [pc EXCEPT ![w] = "sleep"] /\ UNCHANGED taken
      BY <1>4, <2>4 DEF FetchSub
    <3>2. "sleep" \in PCs \ {"idle", "more"}
      BY DEF PCs
    <3>3. QED
      BY <2>1, <2>2, <3>1, <3>2, MoveTypes
  <2>5. QED
    BY <2>3, <2>4
<1>5. ASSUME NEW w \in Waiters, Wake(w) \/ LateTake(w)
      PROVE  TypeOK' /\ \A v \in Waiters : CallInv(v)'
  BY <1>5, TakePostTypes DEF Wake, LateTake
<1>6. ASSUME NEW w \in Waiters, TimesOut(w) \/ LateAgain(w)
      PROVE  TypeOK' /\ \A v \in Waiters : CallInv(v)'
  <2>1. /\ pc[w] \in {"sleep", "late"} /\ ~patient[w]
        /\ seen' = [seen EXCEPT ![w] = count]
        /\ UNCHANGED <<count, sema, posting, max, patient, trying, taken>>
    BY <1>6 DEF TimesOut, LateAgain, callVars, CallInv
  <2>2. pc' = [pc EXCEPT ![w] = "late"]
    <3>1. CASE TimesOut(w)
      BY <3>1 DEF TimesOut
    <3>2. CASE LateAgain(w)
      BY <3>2 DEF LateAgain, TypeOK
    <3>3. QED
      BY <1>6, <3>1, <3>2
  <2>3. /\ "late" \in PCs \ {"idle", "more"} /\ count' \in Int
        /\ seen' \in [Waiters -> Int] /\ taken[w] = 0
    BY <2>1 DEF PCs, TypeOK, CallInv
  <2>4. QED
    BY <2>1, <2>2, <2>3, MoveTypes
<1>7. ASSUME NEW w \in Waiters, LateLeave(w)
      PROVE  TypeOK' /\ \A v \in Waiters : CallInv(v)'
  <2>1. /\ pc[w] = "late" /\ pc' = [pc EXCEPT ![w] = "return"]
        /\ UNCHANGED <<sema, seen, posting, max, patient, trying, taken>>
    BY <1>7 DEF LateLeave, callVars
  <2>2. /\ "return" \in PCs \ {"idle", "more"} /\ count' \in Int
        /\ seen' \in [Waiters -> Int] /\ ~patient[w]
    BY <1>7, <2>1 DEF LateLeave, PCs, TypeOK, CallInv
  <2>3. QED
    BY <2>1, <2>2, MoveTypes
<1>8. ASSUME NEW w \in Waiters, More(w)
      PROVE  TypeOK' /\ \A v \in Waiters : CallInv(v)'
  <2>1. pc[w] = "more" /\ taken[w] = 1 /\ max[w] \in Nat
    BY <1>8, SemaphoreAssumption DEF More, CallInv, TypeOK
  <2>2. CASE max[w] > 1 /\ count > 0
    <3>1. max[w] - 1 \in Nat /\ taken[w] + (max[w] - 1) <= max[w] /\ max[w] - 1 >= 1
      BY <2>1, <2>2
    <3>2. TakeMany(w, max[w] - 1, "return")
      BY <1>8, <2>2 DEF More
    <3>3. QED
      BY <2>1, <3>1, <3>2, TakeManyTypes
  <2>3. CASE ~(max[w] > 1 /\ count > 0)
    <3>1. /\ pc' = [pc EXCEPT ![w] = "return"]
          /\ UNCHANGED <<count, sema, seen, posting, max, patient, trying, taken>>
      BY <1>8, <2>3 DEF More, callVars
    <3>2. "return" \in PCs \ {"idle", "more"} /\ count' \in Int /\ seen' \in [Waiters -> Int]
      BY <3>1 DEF PCs, TypeOK
    <3>3. pc[w] # "idle" /\ taken[w] > 0
      BY <2>1
    <3>4. QED
      BY <3>1, <3>2, <3>3, MoveTypes
  <2>4. QED
    BY <2>2, <2>3
<1>9. ASSUME NEW s \in Signalers, Signal(s)
      PROVE  TypeOK' /\ \A v \in Waiters : CallInv(v)'
  <2>1. PICK n \in 1 .. MaxBatch :
           /\ count' = count + n
           /\ posting' = [posting EXCEPT ![s] = IF LesserOf(-count, n) > 0
                                                THEN LesserOf(-count, n) ELSE 0]
    BY <1>9 DEF Signal
  <2>2. count \in Int /\ n \in Nat /\ n <= MaxBatch /\ MaxBatch \in Nat
    BY <2>1, SemaphoreAssumption DEF TypeOK
  <2>3. (IF LesserOf(-count, n) > 0 THEN LesserOf(-count, n) ELSE 0) \in 0 .. MaxBatch
    BY <2>2 DEF LesserOf
  <2>4. posting' \in [Signalers -> 0 .. MaxBatch] /\ count' \in Int
    BY <2>1, <2>2, <2>3 DEF TypeOK
  <2>5. UNCHANGED <<sema, pc, seen, max, patient, trying, taken>>
    BY <1>9 DEF Signal, callVars
  <2>6. TypeOK'
    BY <2>4, <2>5 DEF TypeOK
  <2>7. QED
    BY <2>5, <2>6 DEF CallInv
<1>10. ASSUME NEW s \in Signalers, Post(s)
       PROVE  TypeOK' /\ \A v \in Waiters : CallInv(v)'
  <2>1. /\ UNCHANGED <<count, pc, seen, max, patient, trying, taken>>
        /\ sema' = sema + 1 /\ posting[s] > 0
        /\ posting' = [posting EXCEPT ![s] = posting[s] - 1]
    BY <1>10 DEF Post, callVars
  <2>2. posting[s] - 1 \in 0 .. MaxBatch
    BY <2>1, SemaphoreAssumption DEF TypeOK
  <2>3. posting' \in [Signalers -> 0 .. MaxBatch]
    BY <2>1, <2>2 DEF TypeOK
  <2>4. TypeOK'
    BY <2>1, <2>3 DEF TypeOK
  <2>5. QED
    BY <2>1, <2>4 DEF CallInv
<1>11. QED
  BY <1>1, <1>2, <1>3, <1>4, <1>5, <1>6, <1>7, <1>8, <1>9, <1>10 DEF Next, Waiting

LEMMA InitIInv ==
    ASSUME Init
    PROVE  IInv
<1>1. Counted = {} /\ PostsDue = {}
  BY SemaphoreAssumption DEF Init, Counted, PostsDue
<1>2. PostsMatchWaiters
  BY <1>1, FS_EmptySet DEF PostsMatchWaiters, Init
<1>3. TypeOK
  BY SemaphoreAssumption DEF Init, TypeOK, PCs
<1>4. \A w \in Waiters : CallInv(w)
  BY DEF Init, CallInv
<1>5. QED
  BY <1>2, <1>3, <1>4 DEF IInv, SemaphoreInv

LEMMA NextIInv ==
    ASSUME IInv, [Next]_vars
    PROVE  IInv'
<1>1. CASE Next
  BY <1>1, NextMatch, NextTypes DEF IInv, SemaphoreInv
<1>2. CASE UNCHANGED vars
  <2>1. UNCHANGED <<count, sema, pc, max, patient, trying, taken, seen, posting>>
    BY <1>2 DEF vars, callVars
  <2>2. TypeOK' /\ \A w \in Waiters : CallInv(w)'
    BY <2>1 DEF IInv, SemaphoreInv, TypeOK, CallInv
  <2>3. PostsMatchWaiters'
    BY <2>1, PcKept, PostsKept, MatchHolds DEF IInv, SemaphoreInv, Asleep
  <2>4. QED
    BY <2>2, <2>3 DEF IInv, SemaphoreInv
<1>3. QED
  BY <1>1, <1>2

LEMMA Invariant == Spec => []IInv
<1>1. Init => IInv
  BY InitIInv
<1>2. IInv /\ [Next]_vars => IInv'
  BY NextIInv
<1>3. QED
  BY <1>1, <1>2, PTL DEF Spec

(* The posts of the kernel's semaphore and the sleepers stay in step,      *)
(* whatever the timeouts and the signals that race with them               *)
(* (blockingconcurrentqueue.h:258-300, 393-405).                           *)
THEOREM PostsAndSleepers == Spec => []SemaphoreInv
<1>1. IInv => SemaphoreInv
  BY DEF IInv
<1>2. QED
  BY <1>1, Invariant, PTL

-----------------------------------------------------------------------------
(* Every step of the semaphore is one of CountingSemaphore or none.        *)
LEMMA PermitsKept ==
    ASSUME UNCHANGED <<count, max, patient, taken>>, Counted' = Counted
    PROVE  UNCHANGED Semaphore!vars
BY DEF Semaphore!vars, Permits

LEMMA TakeManyAcquires ==
    ASSUME IInv, NEW w \in Waiters, NEW wanted \in Nat,
           pc[w] \in {"spin", "more"}, taken[w] + wanted <= max[w], wanted >= 1,
           TakeMany(w, wanted, "return")
    PROVE  Semaphore!Acquire(w)
<1> USE DEF IInv, SemaphoreInv
<1>1. PICK n : n = LesserOf(count, wanted)
  OBVIOUS
<1>2. /\ count > 0 /\ count \in Int /\ taken[w] \in Nat /\ max[w] \in Nat
      /\ Cardinality(Counted) \in Nat
  BY CountedFinite, SemaphoreAssumption DEF TakeMany, TypeOK
<1>3. n \in 1 .. max[w] - taken[w] /\ n <= Permits
  BY <1>1, <1>2 DEF LesserOf, Permits
<1>4. Permits' = Permits - n
  <2>1. Counted' = Counted
    <3>1. wanted \in Nat /\ TypeOK
      OBVIOUS
    <3>2. QED
      BY <3>1, TakeManyCounts
  <2>2. count' = count - n
    BY <1>1, <1>2 DEF TakeMany, LesserOf
  <2>3. n \in Int
    BY <1>3
  <2>4. QED
    BY <1>2, <2>1, <2>2, <2>3 DEF Permits
<1>5. taken' = [taken EXCEPT ![w] = taken[w] + n] /\ UNCHANGED <<max, patient>>
  BY <1>1 DEF TakeMany, callVars
<1>6. QED
  BY <1>3, <1>4, <1>5 DEF Semaphore!Acquire

LEMMA TakePostAcquires ==
    ASSUME IInv, NEW w \in Waiters,
           pc[w] \in {"sleep", "late"}, TakePost(w)
    PROVE  Semaphore!Acquire(w)
<1> USE DEF IInv, SemaphoreInv
<1>1. /\ sema > 0 /\ sema \in Nat /\ count \in Int
      /\ Cardinality(Counted) \in Nat /\ Cardinality(PostsDue) \in Nat
  BY CountedFinite, PostsFinite DEF TakePost, TypeOK
<1>2. Permits >= 1
  BY <1>1 DEF PostsMatchWaiters, Permits
<1>3. Cardinality(Counted') = Cardinality(Counted) - 1 /\ UNCHANGED count
  BY TakePostMatch DEF TakePost
<1>4. Permits' = Permits - 1 /\ 1 <= Permits
  BY <1>1, <1>2, <1>3 DEF Permits
<1>5. 1 \in 1 .. max[w] - taken[w] /\ taken[w] + 1 = 1
  <2>1. taken[w] = 0 /\ max[w] >= 1 /\ max[w] \in Nat
    BY SemaphoreAssumption DEF CallInv, TypeOK
  <2>2. QED
    BY <2>1
<1>6. taken' = [taken EXCEPT ![w] = taken[w] + 1] /\ UNCHANGED <<max, patient>>
  BY <1>5 DEF TakePost, callVars
<1>7. QED
  BY <1>4, <1>5, <1>6 DEF Semaphore!Acquire

LEMMA NextImplements ==
    ASSUME IInv, Next
    PROVE  Semaphore!Next \/ UNCHANGED Semaphore!vars
<1> USE DEF IInv, SemaphoreInv
<1> DEFINE Goal == Semaphore!Next \/ UNCHANGED Semaphore!vars
<1>1. ASSUME NEW w \in Waiters, Semaphore!Acquire(w) PROVE Goal
  BY <1>1 DEF Semaphore!Next
<1>2. ASSUME NEW w \in Waiters, Wait(w) PROVE Goal
  <2>1. PICK m \in 1 .. MaxBatch : max' = [max EXCEPT ![w] = m]
    BY <1>2 DEF Wait
  <2>2. \E p \in BOOLEAN : patient' = [patient EXCEPT ![w] = p]
    BY <1>2 DEF Wait
  <2>3. /\ pc[w] = "idle" /\ pc' = [pc EXCEPT ![w] = "spin"]
        /\ taken' = [taken EXCEPT ![w] = 0] /\ UNCHANGED count
    BY <1>2 DEF Wait
  <2>4. max[w] = 0 /\ max'[w] = m /\ m \in Nat \ {0}
    BY <2>1, <2>3, SemaphoreAssumption DEF CallInv, TypeOK
  <2>5. Permits' = Permits
    <3>1. "spin" \in PCs
      BY DEF PCs
    <3>2. Counted' = Counted
      BY <2>3, <3>1, MovesAlike
    <3>3. QED
      BY <2>3, <3>2 DEF Permits
  <2>6. Semaphore!Call(w)
    BY <2>1, <2>2, <2>3, <2>4, <2>5 DEF Semaphore!Call
  <2>7. QED
    BY <2>6 DEF Semaphore!Next
<1>3. ASSUME NEW w \in Waiters, Spin(w) PROVE Goal
  <2>1. max[w] \in Nat /\ max[w] >= 1 /\ taken[w] + max[w] <= max[w] /\ pc[w] = "spin"
    BY <1>3, SemaphoreAssumption DEF Spin, TypeOK, CallInv
  <2>2. Semaphore!Acquire(w)
    BY <1>3, <2>1, TakeManyAcquires DEF Spin
  <2>3. QED
    BY <1>1, <2>2
<1>4. ASSUME NEW w \in Waiters, TryFails(w) \/ TimesOut(w) PROVE Goal
  <2>1. UNCHANGED <<count, max, patient, taken>>
    BY <1>4 DEF TryFails, TimesOut, callVars
  <2>2. PICK to \in {"return", "late"} :
           /\ pc' = [pc EXCEPT ![w] = to] /\ to \in PCs
           /\ pc[w] \in {"sleep", "late"} <=> to \in {"sleep", "late"}
    BY <1>4 DEF TryFails, TimesOut, PCs
  <2>3. Counted' = Counted
    BY <2>2, MovesAlike
  <2>4. QED
    BY <2>1, <2>3, PermitsKept
<1>5. ASSUME NEW w \in Waiters, FetchSub(w) PROVE Goal
  <2>1. /\ pc[w] = "spin" /\ count' = count - 1 /\ count \in Int
        /\ UNCHANGED <<max, patient>> /\ Cardinality(Counted) \in Nat
    BY <1>5, CountedFinite DEF FetchSub, callVars, TypeOK
  <2>2. taken[w] = 0 /\ max[w] >= 1 /\ max[w] \in Nat
    BY <2>1, SemaphoreAssumption DEF CallInv, TypeOK
  <2>3. CASE count > 0
    <3>1. taken' = [taken EXCEPT ![w] = 1] /\ pc' = [pc EXCEPT ![w] = "more"]
      BY <1>5, <2>3 DEF FetchSub
    <3>2. "more" \in PCs
      BY DEF PCs
    <3>3. Counted' = Counted
      BY <2>1, <3>1, <3>2, MovesAlike
    <3>4. Permits' = Permits - 1 /\ 1 <= Permits
      BY <2>1, <2>3, <3>3 DEF Permits
    <3>5. 1 \in 1 .. max[w] - taken[w] /\ taken[w] + 1 = 1
      BY <2>2
    <3>6. Semaphore!Acquire(w)
      BY <2>1, <3>1, <3>4, <3>5 DEF Semaphore!Acquire
    <3>7. QED
      BY <1>1, <3>6
  <2>4. CASE ~(count > 0)
    <3>1. pc' = [pc EXCEPT ![w] = "sleep"] /\ UNCHANGED taken
      BY <1>5, <2>4 DEF FetchSub
    <3>2. Cardinality(Counted') = Cardinality(Counted) + 1
      BY <2>1, <3>1, FallsAsleep
    <3>3. Permits' = Permits
      BY <2>1, <3>2 DEF Permits
    <3>4. QED
      BY <2>1, <3>1, <3>3 DEF Semaphore!vars
  <2>5. QED
    BY <2>3, <2>4
<1>6. ASSUME NEW w \in Waiters, Wake(w) \/ LateTake(w) PROVE Goal
  <2>1. Semaphore!Acquire(w)
    BY <1>6, TakePostAcquires DEF Wake, LateTake
  <2>2. QED
    BY <1>1, <2>1
<1>7. ASSUME NEW w \in Waiters, LateLeave(w) PROVE Goal
  <2>1. /\ count' = count + 1 /\ UNCHANGED <<max, patient, taken>>
        /\ count \in Int /\ Cardinality(Counted) \in Nat
    BY <1>7, CountedFinite DEF LateLeave, callVars, TypeOK
  <2>2. Cardinality(Counted') = Cardinality(Counted) - 1
    BY <1>7, WakesUp DEF LateLeave
  <2>3. Permits' = Permits
    BY <2>1, <2>2 DEF Permits
  <2>4. QED
    BY <2>1, <2>3 DEF Semaphore!vars
<1>8. ASSUME NEW w \in Waiters, LateAgain(w) PROVE Goal
  <2>1. UNCHANGED <<count, pc, max, patient, taken>>
    BY <1>8 DEF LateAgain, callVars
  <2>2. QED
    BY <2>1, PcKept, PermitsKept
<1>9. ASSUME NEW w \in Waiters, More(w) PROVE Goal
  <2>1. pc[w] = "more" /\ taken[w] = 1 /\ max[w] \in Nat
    BY <1>9, SemaphoreAssumption DEF More, CallInv, TypeOK
  <2>2. CASE max[w] > 1 /\ count > 0
    <3>1. max[w] - 1 \in Nat /\ taken[w] + (max[w] - 1) <= max[w] /\ max[w] - 1 >= 1
      BY <2>1, <2>2
    <3>2. TakeMany(w, max[w] - 1, "return")
      BY <1>9, <2>2 DEF More
    <3>3. Semaphore!Acquire(w)
      BY <2>1, <3>1, <3>2, TakeManyAcquires
    <3>4. QED
      BY <1>1, <3>3
  <2>3. CASE ~(max[w] > 1 /\ count > 0)
    <3>1. pc' = [pc EXCEPT ![w] = "return"] /\ UNCHANGED <<count, max, patient, taken>>
      BY <1>9, <2>3 DEF More, callVars
    <3>2. "return" \in PCs
      BY DEF PCs
    <3>3. Counted' = Counted
      BY <2>1, <3>1, <3>2, MovesAlike
    <3>4. QED
      BY <3>1, <3>3, PermitsKept
  <2>4. QED
    BY <2>2, <2>3
<1>10. ASSUME NEW w \in Waiters, Return(w) PROVE Goal
  <2>1. /\ pc[w] = "return" /\ pc' = [pc EXCEPT ![w] = "idle"]
        /\ max' = [max EXCEPT ![w] = 0] /\ UNCHANGED <<count, patient, taken>>
    BY <1>10 DEF Return
  <2>2. max[w] # 0 /\ (taken[w] > 0 \/ ~patient[w])
    BY <2>1, SemaphoreAssumption DEF CallInv, TypeOK
  <2>3. "idle" \in PCs
    BY DEF PCs
  <2>4. Counted' = Counted
    BY <2>1, <2>3, MovesAlike
  <2>5. Semaphore!Return(w)
    BY <2>1, <2>2, <2>4 DEF Semaphore!Return, Permits
  <2>6. QED
    BY <2>5 DEF Semaphore!Next
<1>11. ASSUME NEW s \in Signalers, Signal(s) PROVE Goal
  <2>1. PICK n \in 1 .. MaxBatch : count' = count + n
    BY <1>11 DEF Signal
  <2>2. UNCHANGED <<pc, max, patient, taken>>
    BY <1>11 DEF Signal, callVars
  <2>3. Counted' = Counted /\ Cardinality(Counted) \in Nat /\ count \in Int
    BY <2>2, PcKept, CountedFinite DEF TypeOK
  <2>4. Permits' > Permits
    BY <2>1, <2>3, SemaphoreAssumption DEF Permits
  <2>5. Semaphore!Signal
    BY <2>2, <2>4 DEF Semaphore!Signal
  <2>6. QED
    BY <2>5 DEF Semaphore!Next
<1>12. ASSUME NEW s \in Signalers, Post(s) PROVE Goal
  <2>1. UNCHANGED <<count, pc, max, patient, taken>>
    BY <1>12 DEF Post, callVars
  <2>2. QED
    BY <2>1, PcKept, PermitsKept
<1>13. QED
  BY <1>2, <1>3, <1>4, <1>5, <1>6, <1>7, <1>8, <1>9, <1>10, <1>11, <1>12
     DEF Next, Waiting

LEMMA InitImplements ==
    ASSUME Init
    PROVE  Semaphore!Init
<1>1. Counted = {}
  BY DEF Init, Counted
<1>2. Permits = 0
  BY <1>1, FS_EmptySet DEF Init, Permits
<1>3. QED
  BY <1>2 DEF Init, Semaphore!Init

(* LightweightSemaphore implements CountingSemaphore: a permit goes to one *)
(* call, and a call that neither tries nor has a timeout does not return   *)
(* without one (blockingconcurrentqueue.h:304-405).                        *)
THEOREM CountsPermits == Spec => SemaphoreSpec
<1>1. Init => Semaphore!Init
  BY InitImplements
<1>2. IInv /\ [Next]_vars => [Semaphore!Next]_(Semaphore!vars)
  <2>1. ASSUME IInv, UNCHANGED vars PROVE UNCHANGED Semaphore!vars
    <3>1. UNCHANGED <<count, pc, max, patient, taken>>
      BY <2>1 DEF vars, callVars
    <3>2. QED
      BY <3>1, PcKept, PermitsKept
  <2>2. QED
    BY <2>1, NextImplements
<1>3. QED
  BY <1>1, <1>2, Invariant, PTL DEF Spec, SemaphoreSpec, Semaphore!Spec
=============================================================================

------------------------ MODULE LightweightSemaphore ------------------------
(***************************************************************************)
(* moodycamel::details::mpmc_sema::LightweightSemaphore                    *)
(* (blockingconcurrentqueue.h:251-412) over the kernel's semaphore: a      *)
(* counter that goes below 0 when threads sleep.  client::pipeline_sem is  *)
(* one, and every BlockingConcurrentQueue has one.                         *)
(*                                                                         *)
(* A load followed by a compare_exchange that succeeds is one step, for    *)
(* nothing but the value of m_count is compared; one that fails is none.   *)
(* The 10000 rounds of the spin loops are any number of rounds.            *)
(***************************************************************************)
EXTENDS Integers, FiniteSets

CONSTANTS
    Waiters,        \* threads that wait
    Signalers,      \* threads that signal
    MaxBatch,       \* bound: permits a call wants or a signal adds
    MaxSignals,     \* bound: permits signalled in all
    MaxCalls        \* bound: waits in all

ASSUME SemaphoreAssumption ==
    /\ IsFiniteSet(Waiters) /\ IsFiniteSet(Signalers)
    /\ MaxBatch \in Nat \ {0} /\ MaxSignals \in Nat /\ MaxCalls \in Nat

VARIABLES
    count,          \* m_count
    sema,           \* m_sema: the kernel's count
    pc,             \* where each waiter is
    max,            \* the permits its call wants
    patient,        \* whether the call has neither a timeout nor is a try
    trying,         \* whether the call is a tryWait
    taken,          \* permits taken
    seen,           \* oldCount of a waiter that timed out
    posting,        \* per signaler, toRelease that is still to be posted
    signaled,       \* permits signalled so far
    called          \* waits begun so far

callVars == <<max, patient, trying, called>>
vars == <<count, sema, pc, callVars, taken, seen, posting, signaled>>

PCs == {"idle", "spin", "sleep", "late", "more", "return"}

LesserOf(a, b) == IF a < b THEN a ELSE b

(* The waiters that are counted in m_count and have taken no permit        *)
Counted == {w \in Waiters : pc[w] \in {"sleep", "late"}}

-----------------------------------------------------------------------------
(* wait(), wait(timeout), waitMany(max), waitMany(max, timeout),           *)
(* tryWait() and tryWaitMany(max)                                          *)
Wait(w) ==
    /\ pc[w] = "idle"
    /\ called < MaxCalls /\ called' = called + 1
    /\ \E m \in 1 .. MaxBatch : max' = [max EXCEPT ![w] = m]
    /\ \E p, try \in BOOLEAN :
          /\ p => ~try
          /\ patient' = [patient EXCEPT ![w] = p]
          /\ trying' = [trying EXCEPT ![w] = try]
    /\ taken' = [taken EXCEPT ![w] = 0]
    /\ pc' = [pc EXCEPT ![w] = "spin"]
    /\ UNCHANGED <<count, sema, seen, posting, signaled>>

(* tryWaitMany and the spin loop of waitManyWithPartialSpinning: greedy    *)
TakeMany(w, wanted, to) ==
    /\ count > 0
    /\ count' = IF count > wanted THEN count - wanted ELSE 0
    /\ taken' = [taken EXCEPT ![w] = taken[w] + LesserOf(count, wanted)]
    /\ pc' = [pc EXCEPT ![w] = to]
    /\ UNCHANGED <<sema, seen, posting, signaled, callVars>>

Spin(w) == pc[w] = "spin" /\ TakeMany(w, max[w], "return")

(* a try that found m_count at 0 or below                                  *)
TryFails(w) ==
    /\ pc[w] = "spin" /\ trying[w]
    /\ count <= 0
    /\ pc' = [pc EXCEPT ![w] = "return"]
    /\ UNCHANGED <<count, sema, taken, seen, posting, signaled, callVars>>

(* m_count.fetch_sub(1): one permit, or to sleep                           *)
FetchSub(w) ==
    /\ pc[w] = "spin" /\ ~trying[w]
    /\ count' = count - 1
    /\ IF count > 0
       THEN /\ taken' = [taken EXCEPT ![w] = 1]
            /\ pc' = [pc EXCEPT ![w] = "more"]
       ELSE /\ pc' = [pc EXCEPT ![w] = "sleep"]
            /\ UNCHANGED taken
    /\ UNCHANGED <<sema, seen, posting, signaled, callVars>>

(* m_sema.wait(), m_sema.timed_wait() in time, or m_sema.try_wait()        *)
TakePost(w) ==
    /\ sema > 0
    /\ sema' = sema - 1
    /\ taken' = [taken EXCEPT ![w] = 1]
    /\ pc' = [pc EXCEPT ![w] = "more"]
    /\ UNCHANGED <<count, seen, posting, signaled, callVars>>

Wake(w) == pc[w] = "sleep" /\ TakePost(w)

TimesOut(w) ==
    /\ pc[w] = "sleep" /\ ~patient[w]
    /\ pc' = [pc EXCEPT ![w] = "late"]
    /\ seen' = [seen EXCEPT ![w] = count]
    /\ UNCHANGED <<count, sema, taken, posting, signaled, callVars>>

(* The loop that re-adjusts the count: m_count was loaded into oldCount;   *)
(* the post that was meant for this waiter is taken ...                    *)
LateTake(w) == pc[w] = "late" /\ seen[w] >= 0 /\ TakePost(w)

(* ... or the waiter is no longer counted ...                              *)
BugLateLeave(w) ==
    /\ pc[w] = "late" /\ seen[w] < 0
    /\ pc' = [pc EXCEPT ![w] = "return"]
    /\ UNCHANGED <<count, sema, taken, seen, posting, signaled, callVars>>
LateLeave(w) ==
    /\ pc[w] = "late" /\ seen[w] < 0
    /\ count = seen[w]
    /\ count' = count + 1
    /\ pc' = [pc EXCEPT ![w] = "return"]
    /\ UNCHANGED <<sema, taken, seen, posting, signaled, callVars>>

(* ... or neither works and it is loaded again                             *)
LateAgain(w) ==
    /\ pc[w] = "late"
    /\ IF seen[w] >= 0 THEN sema = 0 ELSE count # seen[w]
    /\ seen' = [seen EXCEPT ![w] = count]
    /\ UNCHANGED <<count, sema, pc, taken, posting, signaled, callVars>>

(* if (max > 1) return 1 + tryWaitMany(max - 1);                           *)
BugMore(w) ==
    /\ pc[w] = "more"
    /\ IF max[w] > 1 /\ count > 0
       THEN TakeMany(w, max[w], "return")
       ELSE /\ pc' = [pc EXCEPT ![w] = "return"]
            /\ UNCHANGED <<count, sema, taken, seen, posting, signaled, callVars>>
More(w) ==
    /\ pc[w] = "more"
    /\ IF max[w] > 1 /\ count > 0
       THEN TakeMany(w, max[w] - 1, "return")
       ELSE /\ pc' = [pc EXCEPT ![w] = "return"]
            /\ UNCHANGED <<count, sema, taken, seen, posting, signaled, callVars>>

Return(w) ==
    /\ pc[w] = "return"
    /\ pc' = [pc EXCEPT ![w] = "idle"]
    /\ max' = [max EXCEPT ![w] = 0]
    /\ UNCHANGED <<count, sema, patient, trying, called, taken, seen, posting,
                   signaled>>

-----------------------------------------------------------------------------
(* signal(n): m_count.fetch_add(n), and a post for each waiter it counts   *)
BugSignal(s) ==
    /\ posting[s] = 0
    /\ \E n \in 1 .. MaxBatch :
          /\ signaled + n <= MaxSignals
          /\ signaled' = signaled + n
          /\ count' = count + n
          /\ posting' = [posting EXCEPT ![s] = IF count < 0 THEN 1 ELSE 0]
    /\ UNCHANGED <<sema, pc, taken, seen, callVars>>
Signal(s) ==
    /\ posting[s] = 0
    /\ \E n \in 1 .. MaxBatch :
          /\ signaled + n <= MaxSignals
          /\ signaled' = signaled + n
          /\ count' = count + n
          /\ LET toRelease == LesserOf(-count, n)
             IN  posting' = [posting EXCEPT ![s] = IF toRelease > 0 THEN toRelease
                                                                   ELSE 0]
    /\ UNCHANGED <<sema, pc, taken, seen, callVars>>

(* m_sema.signal(toRelease), one sem_post after the other                  *)
Post(s) ==
    /\ posting[s] > 0
    /\ sema' = sema + 1
    /\ posting' = [posting EXCEPT ![s] = @ - 1]
    /\ UNCHANGED <<count, pc, taken, seen, signaled, callVars>>

-----------------------------------------------------------------------------
Init ==
    /\ count = 0 /\ sema = 0
    /\ pc = [w \in Waiters |-> "idle"]
    /\ max = [w \in Waiters |-> 0] /\ taken = [w \in Waiters |-> 0]
    /\ patient = [w \in Waiters |-> FALSE] /\ trying = [w \in Waiters |-> FALSE]
    /\ seen = [w \in Waiters |-> 0]
    /\ posting = [s \in Signalers |-> 0]
    /\ signaled = 0 /\ called = 0

Waiting(w) ==
    \/ Spin(w) \/ TryFails(w) \/ FetchSub(w) \/ Wake(w) \/ TimesOut(w)
    \/ LateTake(w) \/ LateLeave(w) \/ LateAgain(w) \/ More(w) \/ Return(w)

Next ==
    \/ \E w \in Waiters : Wait(w) \/ Waiting(w)
    \/ \E s \in Signalers : Signal(s) \/ Post(s)

(* Threads that have something to do go on; nobody has to call.            *)
Fairness ==
    /\ \A w \in Waiters : WF_vars(Waiting(w))
    /\ \A s \in Signalers : WF_vars(Post(s))

Spec == Init /\ [][Next]_vars /\ Fairness

-----------------------------------------------------------------------------
(* The posts that signalers still have to make                             *)
PostsDue == {post \in Signalers \X (1 .. MaxBatch) : post[2] <= posting[post[1]]}

(* Permits nobody has taken, those on their way to a sleeper included      *)
Permits == count + Cardinality(Counted)

(* The variables have their types: the kernel's count never goes below 0   *)
(* and a late waiter has a count to compare with.                          *)
TypeOK ==
    /\ count \in Int /\ sema \in Nat
    /\ pc \in [Waiters -> PCs]
    /\ max \in [Waiters -> 0 .. MaxBatch] /\ taken \in [Waiters -> 0 .. MaxBatch]
    /\ patient \in [Waiters -> BOOLEAN] /\ trying \in [Waiters -> BOOLEAN]
    /\ seen \in [Waiters -> Int]
    /\ posting \in [Signalers -> 0 .. MaxBatch]
    /\ \A w \in Waiters : pc[w] # "idle" => taken[w] <= max[w]

(* No wakeup is lost and none is left over: the posts made or about to be  *)
(* made are as many as the counted waiters beyond those m_count still      *)
(* counts as asleep, through timeouts that race with signal                *)
(* (blockingconcurrentqueue.h:280-296, 396-405).                           *)
PostsMatchWaiters ==
    sema + Cardinality(PostsDue) =
        Cardinality(Counted) + (IF count < 0 THEN count ELSE 0)

(* The semaphore's state as a whole, which one thread at a time changes    *)
(* while others are between their decrement and their sleep                *)
(* (blockingconcurrentqueue.h:258-300, 393-405).                           *)
SemaphoreInv == TypeOK /\ PostsMatchWaiters

(* While there are permits, sleepers do not sleep on                       *)
(* (blockingconcurrentqueue.h:276, 318, 403).                              *)
SleepersWake ==
    (Permits > 0 /\ Counted # {}) ~> (Permits = 0 \/ Counted = {})

(* The permits handed out are those signalled, each to one call, and a     *)
(* call that neither tries nor has a timeout gets at least one.            *)
Semaphore == INSTANCE CountingSemaphore
               WITH Threads <- Waiters, permits <- Permits, got <- taken

SemaphoreSpec == Semaphore!Spec
=============================================================================

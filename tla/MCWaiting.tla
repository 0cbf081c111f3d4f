------------------------------ MODULE MCWaiting ------------------------------
(* What threads wait for, for TLC: the semaphore, the queue over it, and   *)
(* the end of the query threads when the extension is unloaded.  `part'    *)
(* says which of the modules runs, the others stay as initialised.         *)
EXTENDS LightweightSemaphore, BlockingQueue, WorkerShutdown

VARIABLE part

semaphoreVars == vars
allVars == <<part, semaphoreVars, queueVars, shutdownVars>>

WaitingInit ==
    /\ part \in {"semaphore", "queue", "unload"}
    /\ Init /\ QueueInit /\ ShutdownInit
    /\ part # "queue" => blocking

InSemaphore(A) == part = "semaphore" /\ A /\ UNCHANGED <<part, queueVars, shutdownVars>>
InQueue(A) == part = "queue" /\ A /\ UNCHANGED <<part, semaphoreVars, shutdownVars>>
InUnload(A) == part = "unload" /\ A /\ UNCHANGED <<part, semaphoreVars, queueVars>>

WaitingNext == InSemaphore(Next) \/ InQueue(QueueNext) \/ InUnload(ShutdownNext)

(* What the modules assume of their threads, for the one that runs         *)
WaitingFairness ==
    /\ \A w \in Waiters : WF_allVars(InSemaphore(Waiting(w)))
    /\ \A s \in Signalers : WF_allVars(InSemaphore(Post(s)))
    /\ \A c \in Consumers : WF_allVars(InQueue(Call(c))) /\ WF_allVars(InQueue(Step(c)))
    /\ \A p \in Producers : WF_allVars(InQueue(SignalItem(p)))
    /\ WF_allVars(InUnload(Notify \/ DeleteQueue \/ SDK_OnDependenciesDropped))
    /\ \A w \in Workers : WF_allVars(InUnload(Worker(w)))

WaitingSpec == WaitingInit /\ [][WaitingNext]_allVars /\ WaitingFairness
=============================================================================

-------------------------- MODULE CountingSemaphore --------------------------
(***************************************************************************)
(* What LightweightSemaphore promises: signal adds permits, and a call of  *)
(* wait takes between one and the number it asked for, each permit going   *)
(* to one call; a call with a timeout, or a try, may also take none.       *)
(***************************************************************************)
EXTENDS Naturals

CONSTANTS Threads

VARIABLES
    permits,    \* permits nobody has taken
    max,        \* the most permits each thread's call wants; 0: no call
    patient,    \* whether the call waits until it has one
    got         \* permits the call has taken

vars == <<permits, max, patient, got>>

Init ==
    /\ permits = 0
    /\ max = [t \in Threads |-> 0] /\ got = [t \in Threads |-> 0]
    /\ patient = [t \in Threads |-> FALSE]

Signal ==
    /\ permits' > permits
    /\ UNCHANGED <<max, patient, got>>

Call(t) ==
    /\ max[t] = 0
    /\ max'[t] \in Nat \ {0}
    /\ max' = [max EXCEPT ![t] = max'[t]]
    /\ \E p \in BOOLEAN : patient' = [patient EXCEPT ![t] = p]
    /\ got' = [got EXCEPT ![t] = 0]
    /\ UNCHANGED permits

Acquire(t) ==
    /\ \E n \in 1 .. max[t] - got[t] :
          /\ n <= permits
          /\ permits' = permits - n
          /\ got' = [got EXCEPT ![t] = got[t] + n]
    /\ UNCHANGED <<max, patient>>

Return(t) ==
    /\ max[t] # 0
    /\ got[t] > 0 \/ ~patient[t]
    /\ max' = [max EXCEPT ![t] = 0]
    /\ UNCHANGED <<permits, patient, got>>

Next == Signal \/ \E t \in Threads : Call(t) \/ Acquire(t) \/ Return(t)

Spec == Init /\ [][Next]_vars
=============================================================================
